------------------------------ MODULE OtaHttp ------------------------------
(***************************************************************************)
(* The HTTP clients of the firmware update (FreematicsNetwork.cpp WifiHTTP *)
(* and CellHTTP on the SIM7670) and the requests telelogger.ino makes with *)
(* them: the known locations, the offer (meta.json), the image with Range  *)
(* and the confirmation.                                                   *)
(*                                                                         *)
(* WiFi keeps one TLS session from request to request.  The modem has one  *)
(* CCH session, which outlives a reset of the ESP32, and caches what       *)
(* arrives until AT+CCHRECV reads it.  A byte of an answer is the number   *)
(* of its request and its place; place 0 is the block of headers, places   *)
(* below it headers of another kind.  Bytes arrive one by one, a read      *)
(* takes as many as fit.  There is one host, no low heap, and the request  *)
(* itself is sent whole or not.                                            *)
(***************************************************************************)
EXTENDS Integers, Sequences, SequencesExt

CONSTANTS
  ImageLen,    (* bytes of the image                                       *)
  MetaLen,     (* bytes of the offer                                       *)
  LocLen,      (* bytes of the known locations                             *)
  Chunk,       (* PULL_OTA_CHUNK_SIZE                                      *)
  MetaRoom,    (* metaBuf, RECV_BUF_SIZE                                   *)
  LocRoom,     (* buf of syncKnownLocations()                              *)
  MaxSync,     (* bound: syncs of the known locations                      *)
  MaxFault,    (* bound: faults                                            *)
  Faults       (* which faults may happen: "drop" (the connection breaks), *)
               (* "slow" (a wait ends before the bytes come), "garbled" (a *)
               (* read of the modem fails), "refused" (an answer other     *)
               (* than 200), "close" (the server ends the session after an *)
               (* answer), "closing" (it may do so after each one), "late" *)
               (* (the modem opens a session after open() gave up), "reset"*)
               (* (of the ESP32)                                           *)

ASSUME OtaHttpAssumption ==
  /\ {ImageLen, MetaLen, LocLen, Chunk, MetaRoom, LocRoom} \subseteq Nat \ {0}
  /\ MetaRoom > MetaLen + 1              \* 2 KB for an offer of some 500 bytes
  /\ MaxSync \in Nat /\ MaxFault \in Nat
  /\ Faults \subseteq {"drop", "slow", "garbled", "refused", "close", "closing", "late",
                       "reset"}

Transport == {"wifi", "cell"}
Tags      == 0..2                \* numbers of requests, used again in turn
KeepAlive == 0                   \* headers of a 200 or 206
Close     == -1                  \* ... with "Connection: close"
Refusal   == -2                  \* headers of another code
IsHead(b) == b[2] <= 0

VARIABLES
  conn,     (* the TLS sessions: open; way: bytes under way; in: bytes that *)
            (* came and nobody read; fin: the server has closed; late: the  *)
            (* modem's, and open() reported an error                        *)
  st,       (* m_state of each client                                       *)
  started,  (* m_cchStarted                                                 *)
  left,     (* m_buffer from m_streamBodyPos to m_streamBodyLen             *)
  job,      (* the request in work: its step, transport, what it asks for,  *)
            (* number, first byte asked for; seen: bytes in the buffer;     *)
            (* head: the headers found; got: the body so far                *)
  file,     (* /ota_fw.bin                                                  *)
  done,     (* the server knows that the image is here                      *)
  syncs, faults

vars == <<conn, st, started, left, job, file, done, syncs, faults>>

NoConn == [open |-> FALSE, way |-> <<>>, in |-> <<>>, fin |-> FALSE, late |-> FALSE]
Fresh  == [NoConn EXCEPT !.open = TRUE]
Late   == [Fresh EXCEPT !.late = TRUE]
Idle(tag) == [pc |-> "idle", via |-> "wifi", what |-> "meta", tag |-> tag, from |-> 0,
              seen |-> 0, head |-> Refusal, got |-> <<>>]

Init ==
  /\ conn = [t \in Transport |-> NoConn] /\ st = [t \in Transport |-> "disconnected"]
  /\ started = FALSE /\ left = <<>> /\ job = Idle(0)
  /\ file = <<>> /\ done = FALSE /\ syncs = 0 /\ faults = 0

Fault(f) == f \in Faults /\ faults < MaxFault /\ faults' = faults + 1
NoFault  == UNCHANGED faults

Length(what) == CASE what = "loc" -> LocLen [] what = "meta" -> MetaLen
                  [] what = "image" -> ImageLen [] what = "confirm" -> 1
Room(what)   == IF what = "loc" THEN LocRoom ELSE MetaRoom
Wanted       == Length(job.what) - job.from

via      == job.via
Here     == conn[via]
Set(c)   == conn' = [conn EXCEPT ![via] = c]
State(s) == st' = [st EXCEPT ![via] = s]
Go(pc)   == job' = [job EXCEPT !.pc = pc]
Stop     == job' = Idle(job.tag)
TakeIn(n) == Set([Here EXCEPT !.in = SubSeq(@, n + 1, Len(@))])
Prefix(n) == SubSeq(Here.in, 1, n)
Quiet    == Here.in = <<>> /\ Here.way = <<>>

-----------------------------------------------------------------------------
(* The server and the network.  The server closes after an answer it said   *)
(* so with, and may close or lose a connection at any time.                  *)

Answer(head) ==
  <<<<job.tag, head>>>> \o
    (IF head = Refusal THEN <<>>
     ELSE [k \in 1..Wanted |-> <<job.tag, job.from + k>>])

Answers ==
  \/ Set([Here EXCEPT !.way = @ \o Answer(KeepAlive)]) /\ NoFault
  \/ /\ Set([Here EXCEPT !.way = @ \o Answer(Close)])
     /\ ("closing" \in Faults /\ NoFault) \/ Fault("close")
  \/ Set([Here EXCEPT !.way = @ \o Answer(Refusal)]) /\ Fault("refused")

Arrive(t) ==
  /\ conn[t].way # <<>>
  /\ conn' = [conn EXCEPT ![t].in = Append(@, conn[t].way[1]), ![t].way = Tail(@)]
  /\ UNCHANGED <<st, started, left, job, file, done, syncs, faults>>

ServerCloses(t) ==
  /\ conn[t].open /\ ~conn[t].fin
  /\ \/ conn[t].way = <<>> /\ conn[t].in # <<>> /\ Last(conn[t].in)[2] # KeepAlive
        /\ \E b \in ToSet(conn[t].in) : b[2] \in {Close, Refusal}
        /\ NoFault
     \/ Fault("drop")
  /\ conn' = [conn EXCEPT ![t].way = <<>>, ![t].fin = TRUE]
  /\ UNCHANGED <<st, started, left, job, file, done, syncs>>

-----------------------------------------------------------------------------
(* The requests of the telemetry task. *)

Ask(what, t) ==
  [Idle((job.tag + 1) % 3) EXCEPT !.what = what, !.via = t,
     !.pc = IF t = "cell" /\ what = "meta" THEN "init" ELSE "open"]

(* performPullOtaCheck(): over WiFi if it is up, over the modem otherwise.   *)
Check ==
  /\ job.pc = "idle" /\ ~done
  /\ \E t \in Transport : job' = Ask("meta", t)
  /\ UNCHANGED <<conn, st, started, left, file, done, syncs, faults>>

(* syncKnownLocations() *)
Sync ==
  /\ job.pc = "idle" /\ syncs < MaxSync
  /\ job' = Ask("loc", "wifi") /\ syncs' = syncs + 1
  /\ UNCHANGED <<conn, st, started, left, file, done, faults>>

(* The image from where the partial file ends. *)
AskImage ==
  /\ job' = [Ask("image", via) EXCEPT !.from = IF Len(file) < ImageLen THEN Len(file) ELSE 0]
  /\ file' = IF Len(file) < ImageLen THEN file ELSE <<>>

-----------------------------------------------------------------------------
(* WifiHTTP *)

OnWifi(pc) == via = "wifi" /\ job.pc = pc
wifiRest == <<started, left, syncs>>

(* open(): a session that is connected, or was when the server announced     *)
(* its end, is used again; client.connected() may be late with the news.     *)
WifiOpen ==
  /\ OnWifi("open")
  /\ \/ /\ \/ st["wifi"] = "connected"
           \/ st["wifi"] = "disconnected" /\ Here.open
        /\ State("connected") /\ Go("send") /\ UNCHANGED conn /\ NoFault
     \/ /\ ~(st["wifi"] = "connected")
        /\ ~(st["wifi"] = "disconnected" /\ Here.open /\ ~Here.fin)
        /\ \/ Set(Fresh) /\ State("connected") /\ Go("send") /\ NoFault
           \/ /\ Set(NoConn) /\ State("error") /\ Fault("drop")
              /\ Go(IF job.what = "confirm" THEN "close" ELSE "stop")
  /\ UNCHANGED <<wifiRest, file, done>>

(* close() *)
WifiClosed == Set(NoConn) /\ State("disconnected")

(* send(): into a session the server has closed it fails, or is not answered *)
(* the caller closes, syncKnownLocations() does not.                         *)
WifiSend ==
  /\ OnWifi("send")
  /\ \/ /\ Here.open
        /\ (~Here.fin /\ Answers) \/ (Here.fin /\ UNCHANGED conn /\ NoFault)
        /\ State("sent") /\ Go(IF job.what \in {"loc", "meta"} THEN "receive" ELSE "headers")
     \/ /\ ~Here.open \/ Here.fin
        /\ IF job.what = "loc" THEN State("disconnected") /\ UNCHANGED conn ELSE WifiClosed
        /\ Go(IF job.what = "confirm" THEN "done" ELSE "stop") /\ NoFault
  /\ UNCHANGED <<wifiRest, file, done>>

(* receive(): byte by byte into a buffer, the headers and the body they      *)
(* announce.                                                                 *)
WifiReceive ==
  /\ OnWifi("receive") /\ Here.in # <<>> /\ job.seen < Room(job.what)
  /\ LET b == Here.in[1]
         j == [job EXCEPT !.seen = @ + 1]
     IN  job' = IF job.head # Refusal THEN [j EXCEPT !.got = Append(@, b)]
                ELSE IF b[2] = Refusal THEN [j EXCEPT !.pc = "refused"]
                ELSE IF IsHead(b) THEN [j EXCEPT !.head = b[2]] ELSE j
  /\ TakeIn(1)
  /\ UNCHANGED <<wifiRest, st, file, done, faults>>

(* It ends with the body, with the buffer or with the time.                  *)
Received == job.head # Refusal /\ Len(job.got) = Wanted
TimeIsUp == (Quiet /\ NoFault) \/ (~Quiet /\ Fault("slow"))
WifiReceived ==
  /\ OnWifi("receive")
  /\ \/ Received /\ NoFault
     \/ ~Received /\ job.seen = Room(job.what) /\ NoFault
     \/ ~Received /\ job.seen < Room(job.what) /\ TimeIsUp
  /\ IF job.head = Refusal
     THEN WifiClosed /\ Stop /\ UNCHANGED file
     ELSE /\ State(IF job.head = Close THEN "disconnected" ELSE "connected") /\ UNCHANGED conn
          /\ IF job.what = "meta" /\ Received THEN AskImage ELSE Stop /\ UNCHANGED file
  /\ UNCHANGED <<wifiRest, done>>

(* An answer other than 200: syncKnownLocations() leaves the session as it   *)
(* is, the update closes it.                                                 *)
WifiRefused ==
  /\ OnWifi("refused")
  /\ IF job.what = "loc" THEN State("connected") /\ UNCHANGED conn ELSE WifiClosed
  /\ Stop
  /\ UNCHANGED <<wifiRest, file, done, faults>>

(* receiveHeaders(): everything up to the first end of headers is dropped.   *)
WifiHeaders ==
  /\ OnWifi("headers")
  /\ \/ /\ Here.in # <<>> /\ TakeIn(1) /\ NoFault
        /\ LET b == Here.in[1]
           IN  IF ~IsHead(b) THEN UNCHANGED <<st, job>>
               ELSE /\ State(IF b[2] = Refusal THEN "error" ELSE "connected")
                    /\ Go(IF job.what = "confirm" THEN "close"
                          ELSE IF b[2] = Refusal THEN "close" ELSE "body")
     \/ TimeIsUp /\ State("error") /\ Go("close") /\ UNCHANGED conn
  /\ UNCHANGED <<wifiRest, file, done>>

(* The loop over rawClient().read() into the file.                           *)
Store(bytes) ==
  /\ job' = [job EXCEPT !.got = @ \o bytes]
  /\ file' = file \o [i \in DOMAIN bytes |-> bytes[i][2]]
WifiBody ==
  /\ OnWifi("body")
  /\ \/ /\ Here.in # <<>> /\ Len(job.got) < Wanted /\ NoFault /\ UNCHANGED st
        /\ \E n \in 1..Len(Here.in) :
             n <= Chunk /\ n <= Wanted - Len(job.got) /\ Store(Prefix(n)) /\ TakeIn(n)
     \/ /\ Len(job.got) = Wanted \/ TimeIsUp
        /\ Len(job.got) < Wanted \/ NoFault
        /\ Go("close") /\ UNCHANGED <<conn, st, file>>
  /\ UNCHANGED <<wifiRest, done>>

-----------------------------------------------------------------------------
(* CellHTTP on the SIM7670 *)

OnCell(pc) == via = "cell" /\ job.pc = pc

(* init(): the CCH service is started once; a session an earlier boot left   *)
(* is closed first.                                                          *)
CellInitKeepsSession ==
  /\ OnCell("init")
  /\ Go("open") /\ started' = TRUE
  /\ UNCHANGED <<conn, st, left, file, done, faults, syncs>>
CellInit ==
  /\ OnCell("init")
  /\ \/ started /\ NoFault /\ UNCHANGED <<started, conn, st>>
     \/ ~started /\ NoFault /\ started' = TRUE /\ Set(NoConn) /\ UNCHANGED st
     \/ ~started /\ Fault("garbled") /\ State("error") /\ Set(NoConn) /\ UNCHANGED started
  /\ Go("open")
  /\ UNCHANGED <<left, file, done, syncs>>

(* open(): AT+CCHOPEN needs the service, and no session.  The server may     *)
(* close at once; the result may come too late or garbled, and the session   *)
(* is there.  Who asks for the confirmation closes all the same, the others  *)
(* do not.                                                                   *)
CellOpen ==
  /\ OnCell("open")
  /\ \/ /\ started /\ ~Here.open
        /\ Set(Fresh) /\ State("connected") /\ Go("send") /\ NoFault
     \/ /\ started /\ ~Here.open /\ Fault("drop")
        /\ Set(NoConn) /\ State("disconnected") /\ Go(IF job.what = "confirm" THEN "close" ELSE "stop")
     \/ /\ started /\ ~Here.open /\ Fault("late")
        /\ Set(Late)
        /\ State("error") /\ Go(IF job.what = "confirm" THEN "close" ELSE "stop")
     \/ /\ ~started \/ Here.open
        /\ State("error") /\ Go(IF job.what = "confirm" THEN "close" ELSE "stop")
        /\ UNCHANGED conn /\ NoFault
  /\ UNCHANGED <<started, left, file, done, syncs>>

(* send(): not if the news of the end has come; if it comes with the answer  *)
(* to AT+CCHSEND, receiving goes on from the cache.                          *)
CellSend ==
  /\ OnCell("send")
  /\ \/ /\ ~Here.fin
        /\ Answers /\ State("sent") /\ Go("headers")
     \/ Here.fin /\ NoFault /\ State("disconnected") /\ Go("close") /\ UNCHANGED conn
     \/ ~Here.fin /\ Fault("garbled") /\ State("error") /\ Go("close") /\ UNCHANGED conn
  /\ UNCHANGED <<started, left, file, done, syncs>>

(* cchRecvRaw(): what the cache has, at most `room`, or a read that fails    *)
(* with what it asked for; the news of the end may come with it.             *)
Cached(room) == IF Len(Here.in) < room THEN Len(Here.in) ELSE room
CellRead(room) == Here.in # <<>> /\ NoFault /\ TakeIn(Cached(room))
CellReadFails(room) ==
  /\ Fault("garbled")
  /\ \E n \in 0..Len(Here.in) : n <= room /\ TakeIn(n)
  /\ Go("close")
(* receiveHeaders(): the body that came with the headers stays in m_buffer.  *)
AfterHeaders(bytes) ==
  LET h == CHOOSE i \in DOMAIN bytes : IsHead(bytes[i]) /\ \A k \in 1..(i - 1) : ~IsHead(bytes[k])
  IN  /\ left' = SubSeq(bytes, h + 1, Len(bytes))
      /\ State(IF bytes[h][2] = Refusal THEN "error" ELSE "connected")
      /\ Go(IF bytes[h][2] = Refusal \/ job.what = "confirm" THEN "close" ELSE "body")
CellHeaders ==
  /\ OnCell("headers")
  /\ \/ CellRead(MetaRoom) /\ AfterHeaders(Prefix(Cached(MetaRoom)))
     \/ CellReadFails(MetaRoom) /\ State("error") /\ left' = <<>>
     \/ TimeIsUp /\ State("error") /\ Go("close") /\ left' = <<>> /\ UNCHANGED conn
  /\ UNCHANGED <<started, file, done, syncs>>

(* receiveBodyBytes(): first what is in m_buffer, then the cache.  Of the    *)
(* offer the text is kept, the image goes to the file.                       *)
CellRoom == IF job.what = "image" /\ Chunk < Wanted - Len(job.got)
            THEN Chunk ELSE Wanted - Len(job.got)
Keep(bytes) ==
  IF job.what = "image" THEN Store(bytes)
  ELSE job' = [job EXCEPT !.got = @ \o bytes] /\ UNCHANGED file
Buffered == IF Len(left) < CellRoom THEN Len(left) ELSE CellRoom
FromBufferAgain ==
  /\ Keep(SubSeq(left, 1, Buffered))
  /\ left' = IF Buffered = Len(left) THEN <<>> ELSE left
FromBuffer ==
  /\ Keep(SubSeq(left, 1, Buffered))
  /\ left' = SubSeq(left, Buffered + 1, Len(left))
CellBody ==
  /\ OnCell("body") /\ UNCHANGED st
  /\ \/ Len(job.got) < Wanted /\ left # <<>> /\ FromBuffer /\ UNCHANGED conn /\ NoFault
     \/ /\ Len(job.got) < Wanted /\ left = <<>> /\ UNCHANGED left
        /\ CellRead(CellRoom) /\ Keep(Prefix(Cached(CellRoom)))
     \/ Len(job.got) < Wanted /\ left = <<>> /\ CellReadFails(CellRoom) /\ UNCHANGED <<left, file>>
     \/ /\ Len(job.got) < Wanted /\ left = <<>> /\ TimeIsUp
        /\ Go("close") /\ UNCHANGED <<conn, left, file>>
     \/ Len(job.got) = Wanted /\ Go("close") /\ NoFault /\ UNCHANGED <<conn, left, file>>
  /\ UNCHANGED <<started, done, syncs>>

-----------------------------------------------------------------------------
(* The end of a request: close(), then what the answer leads to.             *)

CloseSession ==
  /\ job.pc = "close"
  /\ Set(NoConn) /\ State("disconnected")
  /\ Go(IF job.what = "confirm" THEN "done" ELSE "stop")
  /\ UNCHANGED <<started, left, file, done, syncs, faults>>

Finish ==
  /\ job.pc = "stop"
  /\ IF Len(job.got) < Wanted THEN Stop /\ UNCHANGED file
     ELSE IF job.what = "meta" THEN AskImage
     ELSE job' = Ask("confirm", via) /\ UNCHANGED file
  /\ UNCHANGED <<conn, st, started, left, done, syncs, faults>>

(* The image is whole, the confirmation was tried: the update goes on.       *)
Complete ==
  /\ job.pc = "done"
  /\ done' = TRUE /\ Stop
  /\ UNCHANGED <<conn, st, started, left, file, syncs, faults>>

(* A reset of the ESP32: the session of the modem stays, the next init()     *)
(* closes it.                                                                *)
Reset ==
  /\ Fault("reset")
  /\ conn' = [conn EXCEPT !["wifi"] = NoConn] /\ st' = [t \in Transport |-> "disconnected"]
  /\ started' = FALSE /\ left' = <<>> /\ Stop
  /\ UNCHANGED <<file, done, syncs>>

Wifi == \/ WifiOpen \/ WifiSend \/ WifiReceive \/ WifiReceived \/ WifiRefused
        \/ WifiHeaders \/ WifiBody
Cell == CellInit \/ CellOpen \/ CellSend \/ CellHeaders \/ CellBody
Task == Wifi \/ Cell \/ CloseSession \/ Finish \/ Complete

Next ==
  \/ Check \/ Sync \/ Task \/ Reset
  \/ \E t \in Transport : Arrive(t) \/ ServerCloses(t)

Spec == Init /\ [][Next]_vars

(* The task runs, bytes under way arrive, the check comes again.             *)
FairSpec ==
  /\ Spec /\ WF_vars(Task) /\ SF_vars(Check)
  /\ \A t \in Transport : WF_vars(Arrive(t))

-----------------------------------------------------------------------------
TypeOK ==
  /\ \A t \in Transport :
       /\ conn[t].open \in BOOLEAN /\ conn[t].fin \in BOOLEAN /\ conn[t].late \in BOOLEAN
       /\ \A b \in ToSet(conn[t].in \o conn[t].way) : b \in Tags \X (Refusal..(ImageLen + LocLen + MetaLen))
  /\ st \in [Transport -> {"disconnected", "connected", "sent", "error"}]
  /\ started \in BOOLEAN /\ done \in BOOLEAN
  /\ job.pc \in {"idle", "init", "open", "send", "receive", "refused", "headers", "body",
                 "close", "stop", "done"}
  /\ job.via \in Transport /\ job.what \in {"loc", "meta", "image", "confirm"} /\ job.tag \in Tags
  /\ file \in Seq(1..ImageLen)
  /\ syncs \in 0..MaxSync /\ faults \in 0..MaxFault

(* What a request gets is its own answer, from the byte it asked for and     *)
(* without a gap, and the image on the card is the image: over a session     *)
(* that still holds the end of an earlier answer, behind headers that came   *)
(* with part of the body, and over a read that failed.                       *)
InPlace ==
  /\ \A i \in DOMAIN job.got : job.got[i] = <<job.tag, job.from + i>>
  /\ \A i \in DOMAIN file : file[i] = i
  /\ Len(file) <= ImageLen

(* However a request ends, the next check can use the clients again, and the *)
(* image is here at last; but for a session of the modem that open() takes   *)
(* for failed: nothing closes it before the next reset.                      *)
Downloaded == <>(done /\ Len(file) = ImageLen) \/ <>[]conn["cell"].late

=============================================================================
