------------------------------ MODULE Telemetry ------------------------------
(***************************************************************************)
(* The links of the telelogger: the telemetry task, which keeps WiFi or    *)
(* the cellular modem connected and sends what is queued, and the main     *)
(* task, which drives, parks the device (standby()) and wakes it by a      *)
(* restart.  Both write state.m_state (flags).                             *)
(*                                                                         *)
(* What is queued is one bit (owed): DeliveryQueue has the queue and its   *)
(* ACKs.  A packet or a reply that is lost on a good link only costs a     *)
(* retry there, so here a good link delivers.  State::set() and clear()    *)
(* are single steps.                                                       *)
(***************************************************************************)
EXTENDS Naturals

CONSTANTS
  MaxErrors,   (* MAX_CONN_ERRORS_RECONNECT                                  *)
  MaxChange,   (* bound: changes of the surroundings, and commands           *)
  Access,      (* what a WiFi network in range may be: "none", "good", and   *)
               (* "dead", an access point without a way to the server        *)
  Commands     (* commands of the web page: "OFF", "ON"                      *)

ASSUME BoundsAssumption == MaxErrors \in Nat \ {0} /\ MaxChange \in Nat
ASSUME AccessAssumption == Access \subseteq {"none", "good", "dead"} /\ "none" \in Access
ASSUME CommandsAssumption == Commands \subseteq {"OFF", "ON"}

VARIABLES
  flags,     (* state.m_state: "WORKING", "STANDBY", "WIFI", "CELL"          *)
  wifi,      (* the radio: "off", "search", "joined"                         *)
  preferred, current, (* wifiPreferredIdx, wifiCurrentIdx                    *)
  modem,     (* "off", "on", "up" (registered, data session open), "hung"    *)
  login,     (* teleClient.login                                             *)
  errors,    (* connErrors                                                   *)
  tele,      (* where the telemetry task is                                  *)
  main,      (* where the main task is                                       *)
  drained,   (* s_standbyDrained                                             *)
  enter, exit, (* s_http_standby_enter, s_http_standby_exit                  *)
  owed,      (* records wait for the server                                  *)
  ap, place, (* WiFi in range, and which of the configured networks it is    *)
  sky, volts, (* cellular coverage, engine voltage                           *)
  changes

around == <<ap, place, sky, volts>>
world == <<around, changes>>
wlan  == <<wifi, preferred, current>>
radio == <<wlan, modem>>
web   == <<enter, exit>>
vars  == <<flags, radio, login, errors, tele, main, drained, web, owed, world>>

Links == {"WIFI", "CELL"}
Networks == {0, 1}

Init ==
  /\ flags = {"WORKING"} /\ wifi = "off" /\ modem = "off" /\ login = FALSE /\ errors = 0
  /\ tele = "top" /\ main = "drive" /\ drained = FALSE /\ enter = FALSE /\ exit = FALSE
  /\ owed = FALSE /\ ap \in Access /\ place \in Networks /\ preferred = 0 /\ current = 0
  /\ sky \in BOOLEAN /\ volts = "high" /\ changes = 0

Change == changes < MaxChange /\ changes' = changes + 1

-----------------------------------------------------------------------------
(* The surroundings. *)

ApChanges ==
  /\ Change /\ ap' \in Access /\ place' \in Networks
  /\ <<ap', place'>> # <<ap, place>> /\ (ap' = "none" => place' = place)
  /\ wifi' = IF wifi = "joined" /\ (ap' = "none" \/ place' # place) THEN "search" ELSE wifi
  /\ UNCHANGED <<flags, modem, preferred, current, login, errors, tele, main, drained, web, owed,
                 sky, volts>>

SkyChanges ==
  /\ Change /\ sky' = ~sky
  /\ UNCHANGED <<flags, radio, login, errors, tele, main, drained, web, owed, ap, place, volts>>

VoltsChange ==
  /\ Change /\ volts' = IF volts = "high" THEN "low" ELSE "high"
  /\ UNCHANGED <<flags, radio, login, errors, tele, main, drained, web, owed, ap, place, sky>>

(* The radio joins by itself once begun, and the network that gave an        *)
(* address becomes the preferred one; the session goes with the coverage.    *)
InRange(n) == ap # "none" /\ place = n
GotIp == preferred' = current
WifiJoins ==
  /\ wifi = "search" /\ InRange(current) /\ wifi' = "joined" /\ GotIp
  /\ UNCHANGED <<flags, modem, current, login, errors, tele, main, drained, web, owed, world>>

SessionLost ==
  /\ modem = "up" /\ ~sky /\ modem' = "on"
  /\ UNCHANGED <<flags, wlan, login, errors, tele, main, drained, web, owed, world>>

ModemHangs ==
  /\ modem \in {"on", "up"} /\ Change /\ modem' = "hung"
  /\ UNCHANGED <<flags, wlan, login, errors, tele, main, drained, web, owed, around>>

-----------------------------------------------------------------------------
(* The drivers.  What a call sends goes over WiFi whenever the radio is      *)
(* joined, whatever the flags say.                                           *)

WifiEnd  == wifi' = "off" /\ UNCHANGED <<preferred, current>> \* WiFi.disconnect(true)
CellEnd  == modem' = "off"              \* CellSIMCOM::end()
Joined   == wifi = "joined"
Reaches  == IF Joined THEN ap = "good" ELSE modem = "up" /\ sky

(* Joining a network in range takes less than the timeout, with exceptions.  *)
JoinTimeout == ~Joined /\ (\/ ~InRange(current) /\ UNCHANGED changes
                           \/ InRange(current) /\ Change)

(* wifiConnect(): the preferred network, never the other one.                *)
Begin(n) == wifi' = "search" /\ preferred' = n /\ current' = n
WifiConnect == Begin(preferred)

(* initCell(): powers the modem (out of a hang too), and opens a session.    *)
CellSetup == IF sky THEN modem' = "up" ELSE modem' = "on"

(* A local send: into a WiFi network always; into the modem while it has a   *)
(* session, and it may not notice at once that the coverage is gone.         *)
MaySend == Joined \/ modem = "up"
MayFail == ~Joined /\ ~(modem = "up" /\ sky)

-----------------------------------------------------------------------------
(* The telemetry task. *)

Top ==
  /\ tele = "top"
  /\ enter' = FALSE /\ exit' = FALSE
  /\ LET paused  == IF enter THEN (flags \cup {"STANDBY"}) \ {"WORKING"} ELSE flags
         resumed == IF exit THEN paused \ {"STANDBY"} ELSE paused
         join    == "STANDBY" \notin resumed /\ "WIFI" \notin resumed
     IN  /\ flags' = resumed
         /\ tele' = IF "STANDBY" \in resumed
                    THEN IF resumed \cap Links # {} THEN "drain" ELSE "drained"
                    ELSE IF join THEN "join" ELSE "loop"
         /\ IF join /\ ~Joined THEN WifiConnect ELSE UNCHANGED wlan
  /\ UNCHANGED <<modem, login, errors, main, drained, owed, world>>

(* drainQueue(15000) *)
Drain ==
  /\ tele = "drain" /\ tele' = "drained"
  /\ \/ Reaches /\ owed' = FALSE /\ UNCHANGED changes
     \/ Reaches /\ Change /\ UNCHANGED owed
     \/ ~Reaches /\ UNCHANGED <<owed, changes>>
  /\ UNCHANGED <<flags, radio, login, errors, main, drained, web, around>>

Drained ==
  /\ tele = "drained" /\ drained' = TRUE /\ tele' = "shut"
  /\ UNCHANGED <<flags, radio, login, errors, main, web, owed, world>>

(* TeleClientUDP::shutdown() ends one radio: the modem not if WiFi is joined.*)
Shutdown == IF Joined THEN WifiEnd /\ UNCHANGED modem ELSE CellEnd /\ UNCHANGED wlan

Shut ==
  /\ tele = "shut"
  /\ IF flags \cap Links # {} THEN Shutdown ELSE UNCHANGED radio
  /\ flags' = flags \ Links
  /\ login' = FALSE /\ tele' = "wait"
  /\ UNCHANGED <<errors, main, drained, web, owed, world>>

(* Three hours, more than the main task takes to park; nobody else clears    *)
(* the standby flag meanwhile, the wake-up restarts (RESET_AFTER_WAKEUP).    *)
Wait ==
  /\ tele = "wait" /\ main = "parked"
  /\ tele' = "report"
  /\ UNCHANGED <<flags, radio, login, errors, main, drained, web, owed, world>>

(* The position report is queued, then a link is brought up for it.          *)
Report ==
  /\ tele = "report" /\ owed' = TRUE /\ WifiConnect /\ tele' = "report_wifi"
  /\ UNCHANGED <<flags, modem, login, errors, main, drained, web, world>>

ReportWifiOnly ==
  /\ tele = "report_wifi"
  /\ \/ Joined /\ tele' = "ping" /\ UNCHANGED changes
     \/ JoinTimeout /\ tele' = "report_end"
  /\ UNCHANGED <<flags, radio, login, errors, main, drained, web, owed, around>>
ReportWifi ==
  /\ tele = "report_wifi"
  /\ \/ Joined /\ tele' = "ping" /\ UNCHANGED changes
     \/ JoinTimeout /\ tele' = "report_cell"
  /\ UNCHANGED <<flags, radio, login, errors, main, drained, web, owed, around>>

ReportCell ==
  /\ tele = "report_cell"
  /\ CellSetup
  /\ IF sky THEN flags' = flags \cup {"CELL"} /\ tele' = "ping"
            ELSE UNCHANGED flags /\ tele' = "report_end"
  /\ UNCHANGED <<wlan, login, errors, main, drained, web, owed, world>>

(* ping() && drainQueue(20000) *)
Ping ==
  /\ tele = "ping" /\ tele' = "report_end"
  /\ \/ Reaches /\ owed' = FALSE /\ UNCHANGED changes
     \/ Reaches /\ Change /\ UNCHANGED owed
     \/ ~Reaches /\ UNCHANGED <<owed, changes>>
  /\ UNCHANGED <<flags, radio, login, errors, main, drained, web, around>>

ReportEnd ==
  /\ tele = "report_end" /\ tele' = "top"
  /\ Shutdown
  /\ login' = FALSE /\ flags' = flags \ Links
  /\ UNCHANGED <<errors, main, drained, web, owed, world>>

(* wifi.setup(WIFI_JOIN_TIMEOUT) of the outer loop *)
Join ==
  /\ tele = "join" /\ tele' = "loop"
  /\ \/ Joined /\ UNCHANGED changes
     \/ JoinTimeout
  /\ UNCHANGED <<flags, radio, login, errors, main, drained, web, owed, around>>

LoopUntilAsked ==
  /\ tele = "loop"
  /\ \/ enter /\ tele' = "top" /\ UNCHANGED <<flags, errors>>
     \/ ~enter /\ tele' = "pick" /\ UNCHANGED <<flags, errors>>
  /\ UNCHANGED <<radio, login, main, drained, web, owed, world>>
Loop ==
  /\ tele = "loop"
  /\ \/ /\ "WORKING" \notin flags \/ enter
        /\ tele' = "top" /\ UNCHANGED <<flags, errors>>
     \/ /\ "WORKING" \in flags /\ ~enter
        /\ IF "WIFI" \notin flags /\ Joined
           THEN tele' = "wifi_connect" /\ errors' = 0 /\ UNCHANGED flags
           ELSE /\ flags' = IF Joined THEN flags ELSE flags \ {"WIFI"}
                /\ tele' = "pick" /\ UNCHANGED errors
  /\ UNCHANGED <<radio, login, main, drained, web, owed, world>>

(* connect(): three attempts over the radio of the moment.                   *)
ConnectFails == \/ ~Reaches /\ UNCHANGED changes
                \/ Reaches /\ Change
ConnectOk == Reaches /\ login' = TRUE /\ UNCHANGED changes

WifiLogin ==
  /\ tele = "wifi_connect" /\ tele' = "pick"
  /\ \/ /\ ConnectOk
        /\ flags' = (flags \cup {"WIFI"}) \ {"CELL"}
        /\ IF "CELL" \in flags THEN CellEnd ELSE UNCHANGED modem
     \/ ConnectFails /\ UNCHANGED <<flags, modem, login>>
  /\ UNCHANGED <<wlan, errors, main, drained, web, owed, around>>

Pick ==
  /\ tele = "pick"
  /\ IF flags \cap Links = {}
     THEN tele' = "cell_setup" /\ errors' = 0
     ELSE tele' = "send" /\ UNCHANGED errors
  /\ UNCHANGED <<flags, radio, login, main, drained, web, owed, world>>

CellInit ==
  /\ tele = "cell_setup"
  /\ CellSetup
  /\ IF sky THEN flags' = flags \cup {"CELL"} /\ tele' = "cell_connect"
            ELSE UNCHANGED flags /\ tele' = "cell_off"
  /\ UNCHANGED <<wlan, login, errors, main, drained, web, owed, world>>

CellConnect ==
  /\ tele = "cell_connect"
  /\ \/ ConnectOk /\ tele' = "send"
     \/ ConnectFails /\ tele' = "cell_off" /\ UNCHANGED login
  /\ UNCHANGED <<flags, radio, errors, main, drained, web, owed, around>>

CellOffKeepsFlag ==
  /\ tele = "cell_off"
  /\ CellEnd
  /\ IF Joined THEN UNCHANGED wlan ELSE WifiConnect
  /\ tele' = "backoff"
  /\ UNCHANGED <<flags, login, errors, main, drained, web, owed, world>>
CellOff ==
  /\ tele = "cell_off"
  /\ CellEnd /\ flags' = flags \ {"CELL"}
  /\ IF Joined THEN UNCHANGED wlan ELSE WifiConnect
  /\ tele' = "backoff"
  /\ UNCHANGED <<login, errors, main, drained, web, owed, world>>

(* WiFi joins, or the three minutes of the operator are waited out.          *)
Backoff ==
  /\ tele = "backoff" /\ tele' = "top"
  /\ \/ Joined /\ UNCHANGED changes
     \/ JoinTimeout
  /\ UNCHANGED <<flags, radio, login, errors, main, drained, web, owed, around>>

(* The signal check first, every ten seconds: WiFi is tried again, over      *)
(* cellular only near a known place, and there its network.                  *)
Nearby == Networks   \* findNearbyKnownLocation(): the network of any place
SignalCheck ==
  \E n \in IF "CELL" \in flags THEN Nearby ELSE {preferred} :
       IF "WIFI" \notin flags /\ ~Joined
       THEN Begin(n)
       ELSE preferred' = n /\ UNCHANGED <<wifi, current>>
Send ==
  /\ tele = "send" /\ tele' = "receive"
  /\ UNCHANGED wlan \/ SignalCheck
  /\ \/ owed /\ MaySend /\ errors' = 0
        /\ \/ owed' = ~Reaches
           \/ Joined /\ "WIFI" \notin flags /\ UNCHANGED owed   \* a socket never opened
     \/ owed /\ MayFail /\ errors' = errors + 1 /\ UNCHANGED owed
     \/ ~owed /\ UNCHANGED <<errors, owed>>
  /\ UNCHANGED <<flags, modem, login, main, drained, web, world>>

(* inbound(), the modem answers AT or not, silence (a loop without an answer *)
(* stands for the 120 seconds of them), too many errors.                     *)
Receive ==
  /\ tele = "receive"
  /\ \/ /\ "CELL" \in flags /\ modem \in {"off", "hung"}
        /\ flags' = flags \ {"CELL"} /\ tele' = "top" /\ UNCHANGED <<errors, login, changes>>
     \/ /\ "CELL" \in flags => modem \in {"on", "up"}
        /\ \/ Reaches /\ UNCHANGED <<errors, login, changes>>
           \/ ConnectOk /\ UNCHANGED errors
           \/ ConnectFails /\ errors' = errors + 1 /\ UNCHANGED login
        /\ tele' = IF errors' >= MaxErrors /\ flags \cap Links # {} THEN "drop" ELSE "loop"
        /\ UNCHANGED flags
  /\ UNCHANGED <<radio, main, drained, web, owed, around>>

DropConnection ==
  /\ tele = "drop" /\ tele' = "top"
  /\ IF "WIFI" \in flags THEN WifiEnd /\ flags' = flags \ {"WIFI"} /\ UNCHANGED modem
     ELSE IF "CELL" \in flags THEN CellEnd /\ flags' = flags \ {"CELL"} /\ UNCHANGED wlan
     ELSE UNCHANGED <<flags, radio>>
  /\ UNCHANGED <<login, errors, main, drained, web, owed, world>>

-----------------------------------------------------------------------------
(* The main task. *)

Process ==
  /\ main = "drive" /\ ~owed /\ owed' = TRUE
  /\ UNCHANGED <<flags, radio, login, errors, tele, main, drained, web, world>>

(* httpControlStandby(), from a page served in process()                     *)
WebControl ==
  /\ main = "drive" /\ Change
  /\ \E cmd \in Commands : enter' = (cmd = "OFF") /\ exit' = (cmd = "ON")
  /\ UNCHANGED <<flags, radio, login, errors, tele, main, drained, owed, around>>

(* The standby timer or a silent ECU, at a low voltage mostly.               *)
Park ==
  /\ main = "drive" /\ main' = "stopped"
  /\ \/ volts = "low" /\ UNCHANGED changes
     \/ volts = "high" /\ Change
  /\ flags' = flags \ {"WORKING"}
  /\ UNCHANGED <<radio, login, errors, tele, drained, web, owed, around>>

(* loop() finds WORKING gone: the web page may have asked for it.            *)
Standby ==
  /\ main \in {"drive", "stopped"} /\ "WORKING" \notin flags
  /\ drained' = FALSE /\ flags' = flags \cup {"STANDBY"} /\ main' = "flagged"
  /\ UNCHANGED <<radio, login, errors, tele, web, owed, world>>

(* The telemetry task has drained, or 15 seconds are over: it is in a call,  *)
(* or the flag was cleared under it.                                         *)
InCall == tele \notin {"top", "loop", "pick", "drained", "shut"}

WifiOff ==
  /\ main = "flagged" /\ main' = "parked"
  /\ drained \/ InCall \/ "STANDBY" \notin flags
  /\ IF "WIFI" \in flags THEN WifiEnd ELSE UNCHANGED wlan
  /\ flags' = flags \ {"WORKING", "WIFI"}
  /\ UNCHANGED <<modem, login, errors, tele, drained, web, owed, world>>

(* Two voltages in a row, then a restart: RAM and the WiFi radio start again,*)
(* the modem keeps its power; the queue is in the reserve (DeliveryQueue).   *)
Wake ==
  /\ main = "parked" /\ volts = "high" /\ main' = "drive"
  /\ flags' = {"WORKING"} /\ tele' = "top" /\ login' = FALSE /\ errors' = 0
  /\ drained' = FALSE /\ enter' = FALSE /\ exit' = FALSE
  /\ wifi' = "off" /\ preferred' = 0 /\ current' = 0
  /\ UNCHANGED <<modem, owed, world>>

-----------------------------------------------------------------------------
World     == ApChanges \/ SkyChanges \/ VoltsChange \/ WifiJoins \/ SessionLost \/ ModemHangs
Standing  == Drain \/ Drained \/ Shut \/ Wait \/ Report \/ ReportWifi \/ ReportCell \/ Ping \/ ReportEnd
Driving   == \/ Join \/ Loop \/ WifiLogin \/ Pick \/ CellInit \/ CellConnect \/ CellOff \/ Backoff
             \/ Send \/ Receive \/ DropConnection
TeleTask == Top \/ Standing \/ Driving
MainTask  == Process \/ WebControl \/ Park \/ Standby \/ WifiOff \/ Wake

Next == World \/ TeleTask \/ MainTask

Spec == Init /\ [][Next]_vars

(* The tasks run, the 15 seconds of standby() end whatever the other task    *)
(* does; a radio in range joins, the modem notices a lost network.           *)
FairSpec ==
  /\ Spec
  /\ WF_vars(TeleTask) /\ WF_vars(WifiJoins) /\ WF_vars(SessionLost)
  /\ WF_vars(Standby) /\ SF_vars(WifiOff) /\ WF_vars(Wake)

-----------------------------------------------------------------------------
(* Properties. *)

LinkTypes ==
  /\ flags \subseteq {"WORKING", "STANDBY", "WIFI", "CELL"}
  /\ wifi \in {"off", "search", "joined"} /\ modem \in {"off", "on", "up", "hung"}
  /\ preferred \in Networks /\ current \in Networks
  /\ errors \in 0..MaxErrors + 1
WorldTypes ==
  /\ ap \in Access /\ place \in Networks
  /\ volts \in {"high", "low"} /\ changes \in 0..MaxChange
PlaceTypes ==
  /\ main \in {"drive", "stopped", "flagged", "parked"}
  /\ tele \in {"top", "drain", "drained", "shut", "wait", "report", "report_wifi",
              "report_cell", "ping", "report_end", "join", "loop", "wifi_connect", "pick",
              "cell_setup", "cell_connect", "cell_off", "backoff", "send", "receive", "drop"}
SwitchTypes ==
  /\ login \in BOOLEAN /\ drained \in BOOLEAN /\ enter \in BOOLEAN /\ exit \in BOOLEAN
  /\ owed \in BOOLEAN /\ sky \in BOOLEAN

TypeOK == LinkTypes /\ WorldTypes /\ PlaceTypes /\ SwitchTypes

(* Records are sent only in a session the server was told of, whatever link  *)
(* came, went or was replaced before (teleclient.cpp:391, reset() forgets).  *)
LoggedIn == tele \in {"send", "receive"} => login

(* With a usable link in the end, what is queued gets to the server, driving *)
(* or parked (telelogger.ino:3598-3628): no change of networks, hung modem   *)
(* or handover between the tasks leaves the device without one.              *)
Usable    == ap # "dead" /\ ((ap = "good" /\ place = preferred) \/ sky)
Delivered == <>[]Usable => (owed ~> ~owed)

(* A parked device reports its position, every three hours and whatever the  *)
(* telemetry task was doing when it was parked (telelogger.ino:3164).        *)
ParkedReported == [](main = "parked" => <>(tele = "report" \/ main # "parked"))
=============================================================================
