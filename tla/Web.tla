--------------------------------- MODULE Web ---------------------------------
(***************************************************************************)
(* The web server of the device: httpd.c and the download handlers of      *)
(* dataserver.cpp.  The main task calls mwHttpLoop() between records; a    *)
(* pass closes connections that expired, reads or writes one piece of each *)
(* that is ready, and takes one waiting client.  The steps of a pass are   *)
(* actions here, in any order.                                             *)
(*                                                                         *)
(* A file is a header and blocks of lines, a buffer has Room for some of   *)
(* them, an item <<f, k>> is block k of file f.  Clients send a request    *)
(* whole or in two parts, may leave at any time, and wait for the answer   *)
(* before they ask again.                                                  *)
(***************************************************************************)
EXTENDS Naturals, Sequences, FiniteSets, SequencesExt, TLC

CONSTANTS
  Clients,    (* remote programs                                             *)
  MaxClients, (* connections the server has (httpParam.maxClients)           *)
  KeepAlive,  (* HTTP_KEEPALIVE_MAX                                          *)
  MaxRequest, (* bound: requests                                             *)
  MaxLeave,   (* bound: clients that leave                                   *)
  Files,      (* numbers of the files on the card                            *)
  Empty,      (* those of them that have nothing                             *)
  Blocks,     (* blocks of the others                                        *)
  Room,       (* blocks in a buffer                                          *)
  Windows,    (* last block a request may ask for                            *)
  Kinds,      (* requests that are made: "log", "data", "sniff", "text", ... *)
  Stalls,     (* connections that may expire: "idle", "receiving", "sending" *)
  None        (* no client, request or context                               *)

ASSUME BoundsAssumption ==
  /\ MaxClients \in Nat \ {0} /\ KeepAlive \in Nat \ {0}
  /\ MaxRequest \in Nat /\ MaxLeave \in Nat
  /\ Files \subseteq Nat \ {0} /\ Empty \subseteq Files
  /\ Blocks \in Nat \ {0} /\ Room \in Nat \ {0, 1} /\ Windows \subseteq 1..Blocks
ASSUME EventsAssumption ==
  /\ Kinds \subseteq {"log", "data", "sniff", "text", "page", "unknown", "reset"}
  /\ Stalls \subseteq {"idle", "receiving", "sending"}

Slots == 1..MaxClients

VARIABLES
  backlog,    (* clients waiting to be accepted                              *)
  conn,       (* of a slot: its client                                       *)
  state,      (* FLAG_RECEIVING, FLAG_SENDING or neither                     *)
  streams,    (* FLAG_DATA_STREAM                                            *)
  closes,     (* FLAG_CONN_CLOSE                                             *)
  ptr,        (* hs->ptr: the open file of a download                        *)
  data,       (* pucData .. contentLength: what is still to be sent          *)
  late,       (* tmExpirationTime has passed                                 *)
  served,     (* reqCount                                                    *)
  asked,      (* of a client: its last request                               *)
  wire,       (* what the server has not read of it: "none", "part", "whole"     *)
  rest,       (* the client has sent only the first part                     *)
  got, ended, (* the items it received, and "no", "eof" or "cut"             *)
  gone,       (* it closed its side                                          *)
  requests, leaves

clientVars == <<asked, wire, rest, got, ended, gone>>
slotVars   == <<conn, state, streams, closes, ptr, data, late, served>>
bounds     == <<requests, leaves>>
vars == <<backlog, slotVars, clientVars, bounds>>

Init ==
  /\ backlog = <<>> /\ requests = 0 /\ leaves = 0
  /\ conn = [s \in Slots |-> None] /\ state = [s \in Slots |-> "idle"]
  /\ streams = [s \in Slots |-> FALSE] /\ closes = [s \in Slots |-> FALSE]
  /\ ptr = [s \in Slots |-> None] /\ data = [s \in Slots |-> <<>>]
  /\ late = [s \in Slots |-> FALSE] /\ served = [s \in Slots |-> 0]
  /\ asked = [c \in Clients |-> None] /\ wire = [c \in Clients |-> "none"]
  /\ rest = [c \in Clients |-> FALSE] /\ got = [c \in Clients |-> <<>>]
  /\ ended = [c \in Clients |-> "eof"] /\ gone = [c \in Clients |-> FALSE]

-----------------------------------------------------------------------------
(* Requests and what the handlers make of them. *)

Size(f)  == IF f \in Empty THEN 0 ELSE Blocks
Opening  == <<0, 1>>      \* "[" of a JSON answer
Closing  == <<0, 2>>      \* and its "]"
Text     == <<0, 3>>      \* an answer made in one go

(* A download names a file and the part of it that is wanted: /api/log/<n>   *)
(* all of it, /api/data/<n> the values up to a time, /api/sniff/<n> the      *)
(* frames of a time span (from 0: from the file's header on).                *)
Requests ==
  [kind : Kinds \ {"log", "data", "sniff"}, file : {0}, from : {0}, to : {0}]
    \cup [kind : Kinds \cap {"log"}, file : Files, from : {1}, to : {Blocks}]
    \cup [kind : Kinds \cap {"data"}, file : Files \ Empty, from : {1}, to : Windows]
    \cup [kind : Kinds \cap {"sniff"}, file : Files, from : {0, 2}, to : Windows]

Items(f, from, to) == [i \in 1..(to + 1 - from) |-> <<f, from + i - 1>>]
Least(m, n)        == IF m < n THEN m ELSE n

(* LogDataContext, SniffFileContext *)
Contexts ==
  [kind : {"log", "data", "sniff"}, file : Files, to : Nat, from : Nat, pos : Nat,
   head : BOOLEAN, done : BOOLEAN]
NewContext(r) ==
  [kind |-> r.kind, file |-> r.file, to |-> r.to, from |-> r.from,
   pos |-> IF r.kind = "sniff" THEN 0 ELSE 1, head |-> r.kind = "log" \/ r.from = 0, done |-> FALSE]

(* The next pieces of an open file; none: the handler returns 0.             *)
Unread(x, n) == Items(x.file, x.pos, Least(x.pos + n - 1, Size(x.file)))

LogFile(x) == LET d == Unread(x, Room) IN [ctx |-> [x EXCEPT !.pos = @ + Len(d)], data |-> d]

(* Lines are read until the buffer is full or the file ends; those outside   *)
(* the window give nothing.                                                  *)
LogData(x) ==
  LET start == IF x.head THEN <<>> ELSE <<Opening>>
      d     == start \o Items(x.file, x.pos, Least(x.pos + Room - Len(start) - 1, x.to))
  IN  IF Len(d) = Room
      THEN [ctx |-> [x EXCEPT !.head = TRUE, !.pos = @ + Len(d) - Len(start)], data |-> d]
      ELSE [ctx |-> [x EXCEPT !.head = TRUE, !.pos = x.to + 1],
            data |-> IF d = <<>> THEN <<>> ELSE d \o <<Closing>>]

SniffFile(x) ==
  IF x.done THEN [ctx |-> x, data |-> <<>>]
  ELSE IF ~x.head
  THEN [ctx |-> [x EXCEPT !.head = TRUE, !.pos = x.from], data |-> <<<<x.file, 0>>>>]
  ELSE LET last == x.pos + Len(Unread(x, Room)) - 1
       IN  [ctx |-> [x EXCEPT !.pos = last + 1, !.done = x.to < last],
            data |-> Items(x.file, x.pos, Least(last, x.to))]

Handler(x) ==
  CASE x.kind = "log" -> LogFile(x) [] x.kind = "data" -> LogData(x) [] x.kind = "sniff" -> SniffFile(x)

(* What the client of a request should get.                                  *)
Body(r) ==
  CASE r.kind = "log"   -> Items(r.file, 1, Size(r.file))
    [] r.kind = "data"  -> <<Opening>> \o Items(r.file, 1, r.to) \o <<Closing>>
    [] r.kind = "sniff" -> (IF r.from = 0 THEN <<>> ELSE <<<<r.file, 0>>>>)
                             \o Items(r.file, r.from, Least(r.to, Size(r.file)))
    [] OTHER            -> <<Text>>
ASSUME NoneAssumption == None \notin Clients \cup Requests \cup Contexts

IsStream(r) == r.kind \in {"log", "data", "sniff"}

-----------------------------------------------------------------------------
(* Clients. *)

Connected(c) == (\E s \in Slots : conn[s] = c) \/ c \in ToSet(backlog)
Waits(c)     == asked[c] # None /\ ended[c] = "no"

Connect(c) ==
  /\ ~Connected(c) /\ requests < MaxRequest
  /\ backlog' = Append(backlog, c) /\ gone' = [gone EXCEPT ![c] = FALSE]
  /\ UNCHANGED <<slotVars, asked, wire, rest, got, ended, bounds>>

Ask(c, r) ==
  /\ Connected(c) /\ ~gone[c] /\ ~Waits(c)
  /\ requests < MaxRequest /\ requests' = requests + 1
  /\ asked' = [asked EXCEPT ![c] = r] /\ got' = [got EXCEPT ![c] = <<>>]
  /\ ended' = [ended EXCEPT ![c] = "no"]
  /\ \E part \in BOOLEAN : /\ rest' = [rest EXCEPT ![c] = part]
                           /\ wire' = [wire EXCEPT ![c] = IF part THEN "part" ELSE "whole"]
  /\ UNCHANGED <<backlog, slotVars, gone, leaves>>

SendRest(c) ==
  /\ Waits(c) /\ rest[c] /\ ~gone[c]
  /\ rest' = [rest EXCEPT ![c] = FALSE] /\ wire' = [wire EXCEPT ![c] = "whole"]
  /\ UNCHANGED <<backlog, slotVars, asked, got, ended, gone, bounds>>

Leave(c) ==
  /\ Connected(c) /\ ~gone[c] /\ leaves < MaxLeave
  /\ gone' = [gone EXCEPT ![c] = TRUE] /\ leaves' = leaves + 1
  /\ UNCHANGED <<backlog, slotVars, asked, wire, rest, got, ended, requests>>

-----------------------------------------------------------------------------
(* The server. *)

(* _mwInitSocketData() *)
Fresh(s) ==
  /\ state' = [state EXCEPT ![s] = "idle"] /\ streams' = [streams EXCEPT ![s] = FALSE]
  /\ closes' = [closes EXCEPT ![s] = FALSE] /\ data' = [data EXCEPT ![s] = <<>>]
  /\ late' = [late EXCEPT ![s] = FALSE]

(* _mwCloseSocket(): the handler of a stream closes its file; then the       *)
(* connection is kept for another request, or closed.                        *)
CloseLeavesFile(s, stream, close, how) ==
  /\ Fresh(s) /\ UNCHANGED ptr
  /\ conn' = [conn EXCEPT ![s] = IF close \/ served[s] >= KeepAlive THEN None ELSE @]
  /\ served' = [served EXCEPT ![s] = IF close \/ @ >= KeepAlive THEN 0 ELSE @]
  /\ ended' = [ended EXCEPT ![conn[s]] = IF @ = "no" THEN how ELSE @]
  /\ wire' = [wire EXCEPT ![conn[s]] = IF close THEN "none" ELSE @]
  /\ rest' = [rest EXCEPT ![conn[s]] = FALSE]
Close(s, stream, close, how) ==
  /\ Fresh(s) /\ ptr' = [ptr EXCEPT ![s] = IF stream THEN None ELSE @]
  /\ conn' = [conn EXCEPT ![s] = IF close \/ served[s] >= KeepAlive THEN None ELSE @]
  /\ served' = [served EXCEPT ![s] = IF close \/ @ >= KeepAlive THEN 0 ELSE @]
  /\ ended' = [ended EXCEPT ![conn[s]] = IF @ = "no" THEN how ELSE @]
  /\ wire' = [wire EXCEPT ![conn[s]] = IF close THEN "none" ELSE @]
  /\ rest' = [rest EXCEPT ![conn[s]] = FALSE]

(* A connection that expired: all its flags are replaced.                    *)
ExpireIdleOnly(s) ==
  /\ conn[s] # None /\ late[s] /\ state[s] = "idle"
  /\ Close(s, FALSE, TRUE, "cut") /\ UNCHANGED <<backlog, asked, got, gone, bounds>>
Expire(s) ==
  /\ conn[s] # None /\ late[s]
  /\ Close(s, FALSE, TRUE, "cut") /\ UNCHANGED <<backlog, asked, got, gone, bounds>>

Elapse(s) ==
  /\ conn[s] # None /\ ~late[s] /\ state[s] \in Stalls
  /\ late' = [late EXCEPT ![s] = TRUE]
  /\ UNCHANGED <<backlog, conn, state, streams, closes, ptr, data, served, clientVars, bounds>>

(* _mwProcessReadSocket(): the first part of a request ...                   *)
ReadPart(s) ==
  LET c == conn[s] IN
  /\ c # None /\ state[s] # "sending" /\ wire[c] = "part"
  /\ state' = [state EXCEPT ![s] = "receiving"] /\ late' = [late EXCEPT ![s] = FALSE]
  /\ wire' = [wire EXCEPT ![c] = "none"]
  /\ UNCHANGED <<backlog, conn, streams, closes, ptr, data, served, asked, rest, got, ended, gone,
                 bounds>>

(* ... the end of a client ...                                               *)
ReadEnd(s) ==
  LET c == conn[s] IN
  /\ c # None /\ state[s] # "sending" /\ wire[c] = "none" /\ gone[c]
  /\ Close(s, FALSE, TRUE, "cut") /\ UNCHANGED <<backlog, asked, got, gone, bounds>>

(* ... a request: _mwCheckUrlHandlers() calls its handler, and the answer    *)
(* starts.  A stream goes on until the connection closes, and so does the    *)
(* page; a client may ask for that too.                                      *)
Answer(s, r, ptrs, first, close) ==
  /\ ptr' = ptrs /\ data' = [data EXCEPT ![s] = first]
  /\ state' = [state EXCEPT ![s] = "sending"] /\ late' = [late EXCEPT ![s] = FALSE]
  /\ streams' = [streams EXCEPT ![s] = IsStream(r)] /\ closes' = [closes EXCEPT ![s] = close]
  /\ served' = [served EXCEPT ![s] = @ + 1] /\ wire' = [wire EXCEPT ![conn[s]] = "none"]
  /\ UNCHANGED <<conn, rest, ended>>

(* No handler answers: the file is not in the flash either, the error page   *)
(* is sent and the connection closed.                                        *)
NotFound(s, ptrs) ==
  /\ ptr' = ptrs /\ Fresh(s)
  /\ conn' = [conn EXCEPT ![s] = None] /\ served' = [served EXCEPT ![s] = 0]
  /\ ended' = [ended EXCEPT ![conn[s]] = "cut"] /\ wire' = [wire EXCEPT ![conn[s]] = "none"]
  /\ UNCHANGED rest

(* A download goes on with the context the connection has.                   *)
ReadStream(s) ==
  LET c == conn[s] IN
  /\ c # None /\ state[s] # "sending" /\ wire[c] = "whole" /\ IsStream(asked[c])
  /\ LET res == Handler(IF ptr[s] = None THEN NewContext(asked[c]) ELSE ptr[s])
         now == [ptr EXCEPT ![s] = res.ctx]
     IN  IF res.data = <<>> THEN NotFound(s, now) ELSE Answer(s, asked[c], now, res.data, TRUE)
  /\ UNCHANGED <<backlog, asked, got, gone, bounds>>

ReadOther(s) ==
  LET c == conn[s] IN
  /\ c # None /\ state[s] # "sending" /\ wire[c] = "whole"
  /\ \/ asked[c].kind = "unknown" /\ NotFound(s, ptr)
     \/ asked[c].kind \in {"text", "page"}
        /\ \E close \in BOOLEAN : /\ asked[c].kind = "page" => close
                                  /\ Answer(s, asked[c], ptr, <<Text>>, close)
  /\ UNCHANGED <<backlog, asked, got, gone, bounds>>

(* cmd=RESET: the answer is never sent.                                      *)
Reset(s) ==
  LET c == conn[s] IN
  /\ c # None /\ state[s] # "sending" /\ wire[c] = "whole" /\ asked[c].kind = "reset"
  /\ conn' = [t \in Slots |-> None] /\ state' = [t \in Slots |-> "idle"]
  /\ streams' = [t \in Slots |-> FALSE] /\ closes' = [t \in Slots |-> FALSE]
  /\ ptr' = [t \in Slots |-> None] /\ data' = [t \in Slots |-> <<>>]
  /\ late' = [t \in Slots |-> FALSE] /\ served' = [t \in Slots |-> 0]
  /\ ended' = [d \in Clients |-> IF Connected(d) /\ ended[d] = "no" THEN "cut" ELSE ended[d]]
  /\ wire' = [d \in Clients |-> "none"] /\ rest' = [d \in Clients |-> FALSE]
  /\ backlog' = <<>>
  /\ UNCHANGED <<asked, got, gone, bounds>>

(* _mwSendRawDataChunk(): what the socket takes ...                          *)
WriteForgetsRest(s) ==
  LET c == conn[s] IN
  /\ state[s] = "sending" /\ data[s] # <<>> /\ ~gone[c]
  /\ \E n \in 1..Len(data[s]) :
       /\ got' = [got EXCEPT ![c] = @ \o SubSeq(data[s], 1, n)]
       /\ data' = [data EXCEPT ![s] = <<>>]
  /\ late' = [late EXCEPT ![s] = FALSE]
  /\ UNCHANGED <<backlog, conn, state, streams, closes, ptr, served, asked, wire, rest, ended, gone,
                 bounds>>
Write(s) ==
  LET c == conn[s] IN
  /\ state[s] = "sending" /\ data[s] # <<>> /\ ~gone[c]
  /\ \E n \in 1..Len(data[s]) :
       /\ got' = [got EXCEPT ![c] = @ \o SubSeq(data[s], 1, n)]
       /\ data' = [data EXCEPT ![s] = SubSeq(@, n + 1, Len(@))]
  /\ late' = [late EXCEPT ![s] = FALSE]
  /\ UNCHANGED <<backlog, conn, state, streams, closes, ptr, served, asked, wire, rest, ended, gone,
                 bounds>>

(* ... nothing, from a client that left ...                                  *)
WriteFails(s) ==
  /\ state[s] = "sending" /\ data[s] # <<>> /\ gone[conn[s]]
  /\ Close(s, streams[s], TRUE, "cut") /\ UNCHANGED <<backlog, asked, got, gone, bounds>>

(* ... the next piece of a stream, or its end ...                            *)
Load(s) ==
  /\ state[s] = "sending" /\ data[s] = <<>> /\ streams[s]
  /\ LET res == Handler(ptr[s]) IN
     IF res.data = <<>>
     THEN Close(s, TRUE, TRUE, "eof")
     ELSE /\ data' = [data EXCEPT ![s] = res.data] /\ ptr' = [ptr EXCEPT ![s] = res.ctx]
          /\ late' = [late EXCEPT ![s] = FALSE]
          /\ UNCHANGED <<conn, state, streams, closes, served, wire, rest, ended>>
  /\ UNCHANGED <<backlog, asked, got, gone, bounds>>

(* ... or the end of another answer.                                         *)
WriteEnd(s) ==
  /\ state[s] = "sending" /\ data[s] = <<>> /\ ~streams[s]
  /\ Close(s, FALSE, closes[s], "eof") /\ UNCHANGED <<backlog, asked, got, gone, bounds>>

(* A waiting client gets a free slot, or that of an idle connection.         *)
Accept(s) ==
  /\ backlog # <<>> /\ conn[s] = None /\ \A t \in 1..(s - 1) : conn[t] # None
  /\ conn' = [conn EXCEPT ![s] = backlog[1]] /\ backlog' = SubSeq(backlog, 2, Len(backlog))
  /\ Fresh(s)
  /\ UNCHANGED <<ptr, served, clientVars, bounds>>

Evict(s) ==
  /\ backlog # <<>> /\ (\A t \in Slots : conn[t] # None) /\ state[s] = "idle"
  /\ conn' = [conn EXCEPT ![s] = backlog[1]] /\ backlog' = SubSeq(backlog, 2, Len(backlog))
  /\ Fresh(s) /\ served' = [served EXCEPT ![s] = 0]
  /\ ended' = [ended EXCEPT ![conn[s]] = IF @ = "no" THEN "cut" ELSE @]
  /\ wire' = [wire EXCEPT ![conn[s]] = "none"] /\ rest' = [rest EXCEPT ![conn[s]] = FALSE]
  /\ UNCHANGED <<ptr, asked, got, gone, bounds>>

-----------------------------------------------------------------------------
Serve(s) ==
  \/ Expire(s) \/ ReadPart(s) \/ ReadEnd(s) \/ ReadStream(s) \/ ReadOther(s) \/ Reset(s)
  \/ Write(s) \/ WriteFails(s) \/ Load(s) \/ WriteEnd(s)
Take == \E s \in Slots : Accept(s) \/ Evict(s)

Next ==
  \/ \E c \in Clients : Connect(c) \/ SendRest(c) \/ Leave(c) \/ \E r \in Requests : Ask(c, r)
  \/ \E s \in Slots : Elapse(s) \/ Serve(s)
  \/ Take

Spec == Init /\ [][Next]_vars

(* Clients are alike. *)
Symmetry == Permutations(Clients)

-----------------------------------------------------------------------------
Item == Nat \X Nat
SlotTypes ==
  /\ conn \in [Slots -> Clients \cup {None}] /\ state \in [Slots -> {"idle", "receiving", "sending"}]
  /\ streams \in [Slots -> BOOLEAN] /\ closes \in [Slots -> BOOLEAN] /\ late \in [Slots -> BOOLEAN]
  /\ ptr \in [Slots -> Contexts \cup {None}] /\ served \in [Slots -> 0..KeepAlive]
  /\ data \in [Slots -> Seq(Item)] /\ \A s \in Slots : Len(data[s]) <= Room
ClientTypes ==
  /\ asked \in [Clients -> Requests \cup {None}] /\ wire \in [Clients -> {"none", "part", "whole"}]
  /\ rest \in [Clients -> BOOLEAN] /\ gone \in [Clients -> BOOLEAN]
  /\ got \in [Clients -> Seq(Item)] /\ ended \in [Clients -> {"no", "eof", "cut"}]
TypeOK ==
  /\ backlog \in Seq(Clients) /\ SlotTypes /\ ClientTypes
  /\ requests \in 0..MaxRequest /\ leaves \in 0..MaxLeave

(* A client gets what its request names, in order, and all of it when the    *)
(* answer came to its end: each connection reads its own file through its    *)
(* own context, whatever was sent in pieces, who used the connection before  *)
(* and how that ended (httpd.c, handlerLogFile, handlerLogData,              *)
(* handlerSniff).                                                            *)
AnswersMatch ==
  \A c \in Clients : asked[c] # None =>
    /\ IsPrefix(got[c], Body(asked[c]))
    /\ ended[c] = "eof" => got[c] = Body(asked[c])

(* Only a download that is running has its file open: every way a connection *)
(* ends calls the handler a last time ("connection to be closed, final       *)
(* calling, cleanup", dataserver.cpp:187).                                   *)
FilesClosed == \A s \in Slots : ptr[s] # None => conn[s] # None /\ streams[s]
=============================================================================
