--------------------------- MODULE TelemetryProofs ---------------------------
(***************************************************************************)
(* What holds of the links for every number of connection errors and of    *)
(* changes of the surroundings, every kind of access point and command.    *)
(***************************************************************************)
EXTENDS Telemetry, TLAPS

(* WiFi takes the flags over from the modem (WifiLogin); the modem is set up *)
(* and the report begun without a link.                                      *)
OneLink ==
  /\ ~(Links \subseteq flags)
  /\ tele \in {"wait", "report", "report_wifi", "report_cell", "cell_setup"}
       => flags \cap Links = {}
  /\ tele \in {"cell_connect", "cell_off"} => "WIFI" \notin flags

(* connErrors is below its limit before each send, and beyond it only until  *)
(* the link is dropped or is seen to be gone.                                *)
ErrorsBounded ==
  /\ tele \in {"wifi_connect", "cell_setup", "cell_connect", "cell_off"} => errors = 0
  /\ tele = "send" => errors < MaxErrors
  /\ tele = "receive" => errors <= MaxErrors
  /\ tele \notin {"receive", "drop", "ping", "report_end"} /\ errors >= MaxErrors
       => flags \cap Links = {}

TypeInv == TypeOK /\ OneLink /\ ErrorsBounded

(* A link's flag stands for a login, but for the calls in which the modem    *)
(* has a session and the login is still to come, or has just failed.         *)
LinkMeansLogin ==
  flags \cap Links # {} => login \/ tele \in {"cell_connect", "cell_off", "ping", "report_end"}

LoginInv == LinkMeansLogin /\ LoggedIn

-----------------------------------------------------------------------------
(* Everything starts with its type, and without a link.                      *)
LEMMA InitTelemetry == Init => TypeInv /\ LoginInv
<1> SUFFICES ASSUME Init PROVE TypeInv /\ LoginInv
  OBVIOUS
<1> USE BoundsAssumption, AccessAssumption DEF Init
<1>1. LinkTypes
  BY DEF LinkTypes, Networks
<1>2. WorldTypes
  BY DEF WorldTypes, Networks
<1>3. PlaceTypes
  BY DEF PlaceTypes
<1>4. SwitchTypes
  BY Zenon DEF SwitchTypes
<1>5. OneLink /\ ErrorsBounded
  BY DEF OneLink, ErrorsBounded, Links
<1>6. LoginInv
  BY DEF LoginInv, LinkMeansLogin, LoggedIn, Links
<1> QED BY <1>1, <1>2, <1>3, <1>4, <1>5, <1>6 DEF TypeInv, TypeOK

(* Every step keeps the flags and the radios among their values.             *)
LEMMA NextLinkTypes ==
  ASSUME TypeInv, [Next]_vars PROVE LinkTypes'
<1> USE BoundsAssumption
    DEF TypeInv, TypeOK, LinkTypes, WorldTypes, Networks, around, world, wlan, radio, web,
        Change, Begin, WifiConnect, WifiEnd, CellEnd, CellSetup, Shutdown
<1>1. CASE World
  BY <1>1 DEF World, ApChanges, SkyChanges, VoltsChange, WifiJoins, GotIp, SessionLost, ModemHangs
<1>2. CASE Top
  BY <1>2 DEF Top
<1>3. CASE Drain \/ Drained \/ Wait \/ ReportWifi \/ Ping
  BY <1>3 DEF Drain, Drained, Wait, ReportWifi, Ping
<1>4. CASE Shut \/ ReportEnd
  BY <1>4 DEF Shut, ReportEnd
<1>5. CASE Report \/ ReportCell
  BY <1>5 DEF Report, ReportCell
<1>6. CASE Join \/ Backoff \/ Loop \/ Pick
  <2>1. flags' \subseteq flags /\ UNCHANGED radio
    BY <1>6 DEF Join, Backoff, Loop, Pick
  <2>2. errors' = errors \/ errors' = 0
    BY <1>6 DEF Join, Backoff, Loop, Pick
  <2> QED BY <2>1, <2>2
<1>7. CASE WifiLogin
  BY <1>7 DEF WifiLogin
<1>8. CASE CellInit \/ CellConnect \/ CellOff
  BY <1>8 DEF CellInit, CellConnect, CellOff
<1>9. CASE DropConnection
  BY <1>9 DEF DropConnection
<1>10. CASE Send
  <2>1. errors' \in 0..MaxErrors + 1
    BY <1>10 DEF Send, ErrorsBounded
  <2>2. wifi' \in {"off", "search", "joined"} /\ preferred' \in Networks /\ current' \in Networks
    BY <1>10 DEF Send, SignalCheck, Nearby
  <2> QED BY <1>10, <2>1, <2>2 DEF Send
<1>11. CASE Receive
  <2>1. errors' \in 0..MaxErrors + 1
    BY <1>11 DEF Receive, ConnectOk, ConnectFails, ErrorsBounded
  <2>2. flags' \subseteq flags
    BY <1>11 DEF Receive
  <2> QED BY <1>11, <2>1, <2>2 DEF Receive
<1>12. CASE MainTask
  <2>1. CASE Process \/ WebControl \/ Park
    BY <2>1 DEF Process, WebControl, Park
  <2>2. CASE Standby \/ WifiOff
    BY <2>2 DEF Standby, WifiOff
  <2>3. CASE Wake
    BY <2>3 DEF Wake
  <2> QED BY <1>12, <2>1, <2>2, <2>3 DEF MainTask
<1>13. CASE UNCHANGED vars
  BY <1>13 DEF vars
<1> QED BY <1>1, <1>2, <1>3, <1>4, <1>5, <1>6, <1>7, <1>8, <1>9, <1>10, <1>11, <1>12, <1>13
        DEF Next, TeleTask, Standing, Driving

(* ... the surroundings ...                                                  *)
LEMMA NextWorldTypes ==
  ASSUME TypeInv, [Next]_vars PROVE WorldTypes'
<1> USE BoundsAssumption
    DEF TypeInv, TypeOK, WorldTypes, Networks, around, world, Change, JoinTimeout
<1>1. CASE World
  BY <1>1 DEF World, ApChanges, SkyChanges, VoltsChange, WifiJoins, SessionLost, ModemHangs
<1>2. CASE Top \/ Standing
  BY <1>2 DEF Top, Standing, Drain, Drained, Shut, Wait, Report, ReportWifi, ReportCell, Ping, ReportEnd
<1>3. CASE Driving
  BY <1>3 DEF Driving, Join, Loop, WifiLogin, Pick, CellInit, CellConnect, CellOff, Backoff, Send,
              Receive, DropConnection, ConnectOk, ConnectFails
<1>4. CASE MainTask
  <2>1. CASE Process \/ Standby \/ WifiOff \/ Wake
    BY <2>1 DEF Process, Standby, WifiOff, Wake
  <2>2. CASE WebControl \/ Park
    BY <2>2 DEF WebControl, Park
  <2> QED BY <1>4, <2>1, <2>2 DEF MainTask
<1>5. CASE UNCHANGED vars
  BY <1>5 DEF vars
<1> QED BY <1>1, <1>2, <1>3, <1>4, <1>5 DEF Next, TeleTask

(* ... where the tasks are ...                                               *)
LEMMA NextPlaceTypes ==
  ASSUME TypeInv, [Next]_vars PROVE PlaceTypes'
<1> USE DEF TypeInv, TypeOK, PlaceTypes
<1>1. CASE World
  BY <1>1 DEF World, ApChanges, SkyChanges, VoltsChange, WifiJoins, SessionLost, ModemHangs
<1>2. CASE Top \/ Standing
  BY <1>2 DEF Top, Standing, Drain, Drained, Shut, Wait, Report, ReportWifi, ReportCell, Ping, ReportEnd
<1>3. CASE Driving
  BY <1>3 DEF Driving, Join, Loop, WifiLogin, Pick, CellInit, CellConnect, CellOff, Backoff, Send,
              Receive, DropConnection
<1>4. CASE MainTask
  BY <1>4 DEF MainTask, Process, WebControl, Park, Standby, WifiOff, Wake
<1>5. CASE UNCHANGED vars
  BY <1>5 DEF vars
<1> QED BY <1>1, <1>2, <1>3, <1>4, <1>5 DEF Next, TeleTask

(* ... and the switches.                                                     *)
LEMMA NextSwitchTypes ==
  ASSUME TypeInv, [Next]_vars PROVE SwitchTypes'
<1> USE DEF TypeInv, TypeOK, SwitchTypes, around, world, web
<1>1. CASE World
  BY Zenon, <1>1 DEF World, ApChanges, SkyChanges, VoltsChange, WifiJoins, SessionLost, ModemHangs
<1>2. CASE Top \/ Standing
  BY Zenon, <1>2 DEF Top, Standing, Drain, Drained, Shut, Wait, Report, ReportWifi, ReportCell, Ping, ReportEnd
<1>3. CASE Driving
  BY Zenon, <1>3 DEF Driving, Join, Loop, WifiLogin, Pick, CellInit, CellConnect, CellOff, Backoff, Send,
              Receive, DropConnection, ConnectOk, ConnectFails
<1>4. CASE MainTask
  BY Zenon, <1>4 DEF MainTask, Process, WebControl, Park, Standby, WifiOff, Wake
<1>5. CASE UNCHANGED vars
  BY Zenon, <1>5 DEF vars
<1> QED BY <1>1, <1>2, <1>3, <1>4, <1>5 DEF Next, TeleTask

(* Only WifiLogin sets the one flag and only CellInit and ReportCell set the *)
(* other: the first clears the other, these find none.                       *)
LEMMA NextOneLink ==
  ASSUME TypeInv, [Next]_vars PROVE OneLink'
<1> USE DEF TypeInv, OneLink, Links
<1>1. CASE World
  BY <1>1 DEF World, ApChanges, SkyChanges, VoltsChange, WifiJoins, SessionLost, ModemHangs
<1>2. CASE Top
  BY <1>2 DEF Top
<1>3. CASE Standing
  BY <1>3 DEF Standing, Drain, Drained, Shut, Wait, Report, ReportWifi, ReportCell, Ping, ReportEnd
<1>4. CASE Driving
  BY <1>4 DEF Driving, Join, Loop, WifiLogin, Pick, CellInit, CellConnect, CellOff, Backoff, Send,
              Receive, DropConnection
<1>5. CASE MainTask
  BY <1>5 DEF MainTask, Process, WebControl, Park, Standby, WifiOff, Wake
<1>6. CASE UNCHANGED vars
  BY <1>6 DEF vars
<1> QED BY <1>1, <1>2, <1>3, <1>4, <1>5, <1>6 DEF Next, TeleTask

(* An error is counted twice a round at most, by Send and by Receive, and    *)
(* Receive drops the link at the limit; without one Pick begins from zero.   *)
LEMMA NextErrors ==
  ASSUME TypeInv, [Next]_vars PROVE ErrorsBounded'
<1> USE BoundsAssumption DEF TypeInv, TypeOK, LinkTypes, OneLink, ErrorsBounded, Links
<1>1. CASE World
  BY <1>1 DEF World, ApChanges, SkyChanges, VoltsChange, WifiJoins, SessionLost, ModemHangs
<1>2. CASE Top
  BY <1>2 DEF Top
<1>3. CASE Standing
  BY <1>3 DEF Standing, Drain, Drained, Shut, Wait, Report, ReportWifi, ReportCell, Ping, ReportEnd
<1>4. CASE Join \/ Loop \/ WifiLogin \/ Pick \/ CellInit \/ CellConnect \/ CellOff \/ Backoff
  <2>1. CASE Join \/ Loop \/ Pick \/ Backoff
    BY <2>1 DEF Join, Loop, Pick, Backoff
  <2>2. CASE WifiLogin
    BY <2>2 DEF WifiLogin
  <2>3. CASE CellInit \/ CellConnect \/ CellOff
    BY <2>3 DEF CellInit, CellConnect, CellOff
  <2> QED BY <1>4, <2>1, <2>2, <2>3
<1>5. CASE Send
  BY <1>5 DEF Send
<1>6. CASE Receive
  BY <1>6 DEF Receive, ConnectOk, ConnectFails
<1>7. CASE DropConnection
  BY <1>7 DEF DropConnection
<1>8. CASE MainTask
  BY <1>8 DEF MainTask, Process, WebControl, Park, Standby, WifiOff, Wake
<1>9. CASE UNCHANGED vars
  BY <1>9 DEF vars
<1> QED BY <1>1, <1>2, <1>3, <1>4, <1>5, <1>6, <1>7, <1>8, <1>9 DEF Next, TeleTask, Driving

(* Every step keeps the types.                                               *)
LEMMA NextTypes == TypeInv /\ [Next]_vars => TypeInv'
BY NextLinkTypes, NextWorldTypes, NextPlaceTypes, NextSwitchTypes, NextOneLink, NextErrors
DEF TypeInv, TypeOK

(* Only the ends of a link forget the login, and they clear its flag.        *)
LEMMA NextLogin == TypeInv /\ LoginInv /\ [Next]_vars => LoginInv'
<1> SUFFICES ASSUME TypeInv, LoginInv, [Next]_vars PROVE LoginInv'
  OBVIOUS
<1> USE DEF TypeInv, LoginInv, LinkMeansLogin, LoggedIn, OneLink, Links
<1>1. CASE World
  BY <1>1 DEF World, ApChanges, SkyChanges, VoltsChange, WifiJoins, SessionLost, ModemHangs
<1>2. CASE Top
  BY <1>2 DEF Top
<1>3. CASE Standing
  BY <1>3 DEF Standing, Drain, Drained, Shut, Wait, Report, ReportWifi, ReportCell, Ping, ReportEnd
<1>4. CASE Join \/ Loop \/ WifiLogin \/ Pick \/ CellInit \/ CellConnect \/ CellOff \/ Backoff
  <2>1. CASE Join \/ Loop \/ Pick \/ Backoff
    BY <2>1 DEF Join, Loop, Pick, Backoff
  <2>2. CASE WifiLogin
    BY <2>2 DEF WifiLogin, ConnectOk
  <2>3. CASE CellInit \/ CellConnect \/ CellOff
    BY <2>3 DEF CellInit, CellConnect, CellOff, ConnectOk
  <2> QED BY <1>4, <2>1, <2>2, <2>3
<1>5. CASE Send \/ Receive \/ DropConnection
  BY <1>5 DEF Send, Receive, ConnectOk, DropConnection
<1>6. CASE MainTask
  BY <1>6 DEF MainTask, Process, WebControl, Park, Standby, WifiOff, Wake
<1>7. CASE UNCHANGED vars
  BY <1>7 DEF vars
<1> QED BY <1>1, <1>2, <1>3, <1>4, <1>5, <1>6, <1>7 DEF Next, TeleTask, Driving

-----------------------------------------------------------------------------
(* Type correctness; the errors of a connection never exceed the limit by    *)
(* more than one, for every limit.                                           *)
THEOREM TypeCorrect == Spec => []TypeOK
<1>1. TypeInv => TypeOK
  BY DEF TypeInv
<1> QED BY InitTelemetry, NextTypes, <1>1, PTL DEF Spec

(* Records are sent only in a session the server was told of: no order of    *)
(* links that come, go and are replaced, of the main task's parking and of   *)
(* commands leads the telemetry task to txqNextPacket() without a login.     *)
THEOREM LoginFirst == Spec => []LoggedIn
<1>1. TypeInv /\ LoginInv => LoggedIn
  BY DEF LoginInv
<1> QED BY InitTelemetry, NextTypes, NextLogin, <1>1, PTL DEF Spec
=============================================================================
