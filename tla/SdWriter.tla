------------------------------ MODULE SdWriter ------------------------------
(***************************************************************************)
(* The SD writer (sdwriter.cpp), the only task that writes to the card.    *)
(*                                                                         *)
(* Any task appends lines to a ring and marks the end of a record; the     *)
(* writer appends what it finds to the file, and only when write() and     *)
(* fsync() have succeeded moves the ring's tail and confirms the records   *)
(* to the delivery queue.  After a failure the file is reopened and cut    *)
(* back to its confirmed length; a card that fails for 30 s is given up.   *)
(* Opening and closing a file are requests to the writer, one at a time,   *)
(* with a timeout.                                                         *)
(*                                                                         *)
(* A line is its number and a byte count is a line count: the ring has     *)
(* Ring lines.  Of the sniffer's channel there are the opening and the     *)
(* closing of its file, without the blocks.  A log file is always new.     *)
(***************************************************************************)
EXTENDS Integers, Sequences, FiniteSets

CONSTANTS
  MaxLine,      (* bound: lines of records offered                           *)
  PerRec,       (* lines of a record                                         *)
  Ring,         (* SDW_DATA_RING                                             *)
  Marks,        (* MARKS                                                     *)
  MaxFail,      (* bound: failures of the card                               *)
  MaxSniff,     (* bound: sessions of the sniffer                            *)
  Timeouts      (* the waits of the main task that may time out: "open"      *)
                (* (sdwDataOpen, sdwSniffOpen), "close", "sync", "finish"    *)
                (* (sdwSniffClose)                                           *)

ASSUME SizesAssumption ==
  /\ MaxLine \in Nat /\ PerRec \in Nat \ {0} /\ Ring \in Nat \ {0} /\ Marks \in Nat \ {0}
  /\ MaxFail \in Nat /\ MaxSniff \in Nat
ASSUME TimeoutsAssumption == Timeouts \subseteq {"open", "close", "sync", "finish"}

Line       == 1..MaxLine
ErrLine    == 0                 \* an FE,SD_ERR line of the writer itself
Rec        == 1..(MaxLine \div PerRec)
LinesOf(r) == ((r - 1) * PerRec + 1)..(r * PerRec)

Request == {"data_open", "data_close", "sniff_open"}
NoReq   == "none"

VARIABLES
  slots,      (* s_ring                                                      *)
  head, tail, (* s_head, s_tail                                              *)
  marks,      (* s_marks from s_markTail to s_markHead                       *)
  dataOpen,   (* s_dataOpen                                                  *)
  dead,       (* s_dead                                                      *)
  fd,         (* s_data.fd >= 0                                              *)
  card,       (* the lines in the file                                       *)
  good,       (* s_data.confirmed                                            *)
  failing,    (* s_dataFailSince # 0                                         *)
  sniffOpen,  (* s_sniffOpen                                                 *)
  writer,     (* the writer task: where it is, the h and t of dataWrite(),   *)
              (* the r of handleRequest()                                    *)
  producer,   (* the task that logs: where it is, lines logged so far        *)
  main,       (* the task that opens and closes: where it is, for what       *)
  mid,        (* m_id # 0: the log believes its file is open                 *)
  fileOk,     (* s_fileOk: the sniffer believes its file is open             *)
  req,        (* s_req                                                       *)
  result,     (* s_reqResult                                                 *)
  fails,      (* how often the card failed                                   *)
  active,     (* s_active: a session of the sniffer runs                     *)
  closing,    (* s_closing: its file is to be finished                       *)
  sniffs,     (* sessions started so far                                     *)
  lost,       (* history: lines s_lostBytes counts                           *)
  confirmed   (* history: records reported with txqSdConfirmed()             *)

ringVars   == <<slots, head, tail, marks>>
fileVars   == <<fd, card, good>>
stateVars  == <<dataOpen, dead, failing, sniffOpen>>
sniffVars  == <<fileOk, active, closing, sniffs>>
mainVars   == <<main, mid, sniffVars>>
reqVars    == <<req, result>>
historyVars == <<lost, confirmed>>
vars == <<ringVars, fileVars, stateVars, writer, producer, mainVars, reqVars, fails,
          historyVars>>

Idle == [pc |-> "idle", t |-> 0, h |-> 0, job |-> NoReq]

Init ==
  /\ slots = [i \in 0..(Ring - 1) |-> ErrLine] /\ head = 0 /\ tail = 0 /\ marks = <<>>
  /\ fd = FALSE /\ card = <<>> /\ good = 0
  /\ dataOpen = FALSE /\ dead = FALSE /\ failing = FALSE /\ sniffOpen = FALSE
  /\ writer = Idle
  /\ producer = [pc |-> "idle", n |-> 0]
  /\ main = [pc |-> "boot", op |-> NoReq]
  /\ mid = FALSE
  /\ fileOk = FALSE /\ active = FALSE /\ closing = FALSE /\ sniffs = 0
  /\ req = NoReq /\ result = "none"
  /\ fails = 0 /\ lost = {} /\ confirmed = {}

(* Bytes t to h of the ring. *)
Chunk(t, h) == [k \in 1..(h - t) |-> slots[(t + k - 1) % Ring]]
InRing == {slots[i % Ring] : i \in tail..(head - 1)}

PutUncounted(l) ==
  /\ UNCHANGED lost
  /\ IF head - tail + 1 > Ring THEN UNCHANGED <<slots, head>>
     ELSE slots' = [slots EXCEPT ![head % Ring] = l] /\ head' = head + 1

(* Line l at the ring's head, or, when it is full, only in the count. *)
Put(l) ==
  \/ /\ head - tail + 1 > Ring
     /\ lost' = lost \cup {l}
     /\ UNCHANGED <<slots, head>>
  \/ /\ head - tail + 1 <= Ring
     /\ slots' = [slots EXCEPT ![head % Ring] = l]
     /\ head' = head + 1
     /\ UNCHANGED lost

-----------------------------------------------------------------------------
(* The tasks that log: the lines of a record, then its mark.                 *)

(* sdwDataWrite() looks at s_dataOpen and s_dead before it takes the mutex.  *)
CheckLine ==
  /\ producer.pc = "idle" /\ producer.n < MaxLine /\ mid
  /\ dataOpen /\ ~dead
  /\ producer' = [producer EXCEPT !.pc = "put"]
  /\ UNCHANGED <<ringVars, fileVars, stateVars, writer, mainVars, reqVars, fails, historyVars>>

AfterLine(n) == IF n % PerRec = 0 THEN "mark" ELSE "idle"

(* A line for a dead card is counted, one while no file is open is not.      *)
RefuseLine ==
  /\ producer.pc = "idle" /\ producer.n < MaxLine /\ mid
  /\ ~dataOpen \/ dead
  /\ producer' = [pc |-> AfterLine(producer.n + 1), n |-> producer.n + 1]
  /\ lost' = IF dataOpen THEN lost \cup {producer.n + 1} ELSE lost
  /\ UNCHANGED <<ringVars, fileVars, stateVars, writer, mainVars, reqVars, fails, confirmed>>

(* sdwDataClose() may free the ring under a write that still runs; that a    *)
(* whole ring (64 KB) is logged before it ends is left out.                  *)
RoomInRing ==
  writer.pc \in {"append", "confirm"} /\ tail # writer.t => head - writer.t < Ring

PutLine ==
  /\ producer.pc = "put"
  /\ RoomInRing
  /\ Put(producer.n + 1)
  /\ producer' = [pc |-> AfterLine(producer.n + 1), n |-> producer.n + 1]
  /\ UNCHANGED <<tail, marks, fileVars, stateVars, writer, mainVars, reqVars, fails, confirmed>>

DropOldestMark(m) == IF Len(m) >= Marks THEN Tail(m) ELSE m

(* queueRecord() marks the end of the record, wherever the ring's head is.   *)
Mark ==
  /\ producer.pc = "mark"
  /\ producer' = [producer EXCEPT !.pc = "idle"]
  /\ marks' = IF dataOpen /\ ~dead
              THEN Append(DropOldestMark(marks),
                          [off |-> head, rec |-> producer.n \div PerRec])
              ELSE marks
  /\ UNCHANGED <<slots, head, tail, fileVars, stateVars, writer, mainVars, reqVars, fails,
                 historyVars>>

-----------------------------------------------------------------------------
(* The writer task: dataWrite()                                              *)

WorkWithFile == dataOpen /\ head # tail /\ fd
HasWork == dataOpen /\ head # tail

(* It reads s_head and s_tail without the mutex.                             *)
WriteBegin ==
  /\ writer.pc = "idle" /\ req = NoReq
  /\ ~dead /\ HasWork
  /\ writer' = [writer EXCEPT !.pc = "append", !.t = tail, !.h = head]
  /\ UNCHANGED <<ringVars, fileVars, stateVars, producer, mainVars, reqVars, fails, historyVars>>

Good(c) == SubSeq(c, 1, good)

AppendedUncut(chunk) == card \o chunk

(* wfAppend(): behind what the file has; after a failure it is reopened and  *)
(* first cut back to its confirmed length.                                   *)
Appended(chunk) == IF fd THEN card \o chunk ELSE Good(card) \o chunk

AppendOk ==
  /\ writer.pc = "append"
  /\ card' = Appended(Chunk(writer.t, writer.h))
  /\ good' = good + (writer.h - writer.t)
  /\ fd' = TRUE
  /\ failing' = FALSE
  /\ writer' = [writer EXCEPT !.pc = "confirm"]
  /\ UNCHANGED <<ringVars, dataOpen, dead, sniffOpen, producer, mainVars, reqVars, fails,
                 historyVars>>

(* The card takes some of it, all of it without a good fsync(), or cannot be *)
(* reopened or cut.  An FE,SD_ERR line goes out with the retry.              *)
AppendFails ==
  /\ writer.pc = "append"
  /\ fails < MaxFail
  /\ fails' = fails + 1
  /\ \/ \E k \in 0..(writer.h - writer.t) : card' = Appended(Chunk(writer.t, writer.t + k))
     \/ ~fd /\ UNCHANGED card
  /\ fd' = FALSE
  /\ failing' = TRUE
  /\ Put(ErrLine)
  /\ writer' = Idle
  /\ UNCHANGED <<tail, marks, good, dataOpen, dead, sniffOpen, producer, mainVars, reqVars,
                 confirmed>>

ReachedHead(m) == m.off <= head

(* Under the mutex: from the oldest on, the marks up to h leave, and their   *)
(* records are confirmed.                                                    *)
Reached(m) == m.off <= writer.h

Confirm ==
  /\ writer.pc = "confirm"
  /\ tail' = writer.h
  /\ \E k \in 0..Len(marks) :
       /\ \A i \in 1..k : Reached(marks[i])
       /\ k < Len(marks) => ~Reached(marks[k + 1])
       /\ marks' = SubSeq(marks, k + 1, Len(marks))
       /\ confirmed' = confirmed \cup {marks[i].rec : i \in 1..k}
  /\ writer' = Idle
  /\ UNCHANGED <<slots, head, fileVars, stateVars, producer, mainVars, reqVars, fails, lost>>

-----------------------------------------------------------------------------
(* The writer task: goDead(), 30 s after the first of the failures, of this  *)
(* file or of the sniffer's.                                                 *)

GiveUp ==
  /\ writer.pc = "idle" /\ ~dead
  /\ failing \/ (sniffOpen /\ fails < MaxFail)
  /\ dead' = TRUE
  /\ writer' = [writer EXCEPT !.pc = "clear"]
  /\ UNCHANGED <<ringVars, fileVars, dataOpen, failing, sniffOpen, producer, mainVars, reqVars,
                 fails, historyVars>>

(* Under the mutex.  txqSetFile(0) is in DeliveryQueue (GoDead).             *)
ClearRing ==
  /\ writer.pc = "clear"
  /\ lost' = lost \cup InRing
  /\ tail' = head /\ marks' = <<>>
  /\ writer' = [writer EXCEPT !.pc = "cut"]
  /\ UNCHANGED <<slots, head, fileVars, stateVars, producer, mainVars, reqVars, fails, confirmed>>

(* wfCutAndClose(): one more try, which may fail like the others.            *)
CutAndClose ==
  /\ writer.pc = "cut"
  /\ card' \in {card, Good(card)}
  /\ fd' = FALSE
  /\ sniffOpen' = FALSE
  /\ fileOk' = (fileOk /\ ~sniffOpen)       \* sniffSdDead()
  /\ closing' = (closing /\ ~sniffOpen)
  /\ writer' = Idle
  /\ UNCHANGED <<ringVars, good, dataOpen, dead, failing, producer, main, mid, active, sniffs,
                 reqVars, fails, historyVars>>

-----------------------------------------------------------------------------
(* The writer task: handleRequest()                                          *)

(* It reads s_req, then waits for the card.                                  *)
TakeRequest ==
  /\ writer.pc = "idle" /\ req # NoReq
  /\ writer' = [writer EXCEPT !.pc = "handle", !.job = req]
  /\ UNCHANGED <<ringVars, fileVars, stateVars, producer, mainVars, reqVars, fails, historyVars>>

(* Whatever is posted by now counts as done.                                 *)
Done(ok) ==
  /\ writer' = Idle
  /\ result' = IF ok THEN "ok" ELSE "failed"
  /\ req' = NoReq

DataOpened(ok) ==
  /\ writer.pc = "handle" /\ writer.job = "data_open"
  /\ head' = 0 /\ tail' = 0 /\ marks' = <<>>
  /\ failing' = FALSE
  /\ card' = <<>> /\ good' = 0
  /\ fd' = ok
  /\ dataOpen' = (dataOpen \/ ok)
  /\ fails' = IF ok THEN fails ELSE fails + 1
  /\ fails' <= MaxFail
  /\ Done(ok)
  /\ UNCHANGED <<slots, dead, sniffOpen, producer, mainVars, historyVars>>

DataClosed ==
  /\ writer.pc = "handle" /\ writer.job = "data_close"
  /\ fd' = FALSE
  /\ dataOpen' = FALSE
  /\ Done(TRUE)
  /\ UNCHANGED <<ringVars, card, good, dead, failing, sniffOpen, producer, mainVars, fails,
                 historyVars>>

SniffOpened(ok) ==
  /\ writer.pc = "handle" /\ writer.job = "sniff_open"
  /\ sniffOpen' = (sniffOpen \/ ok)
  /\ fails' = IF ok THEN fails ELSE fails + 1
  /\ fails' <= MaxFail
  /\ Done(ok)
  /\ UNCHANGED <<ringVars, fileVars, dataOpen, dead, failing, producer, mainVars, historyVars>>

(* sniffWrite(): the sniffer said that these were the last bytes.            *)
SniffLast ==
  /\ writer.pc = "idle" /\ ~dead
  /\ sniffOpen /\ closing
  /\ sniffOpen' = FALSE
  /\ UNCHANGED <<ringVars, fileVars, dataOpen, dead, failing, writer, producer, mainVars, reqVars,
                 fails, historyVars>>

-----------------------------------------------------------------------------
(* The main task: SDLogger::begin() at boot, the sniffer's files, then       *)
(* SDLogger::end() for standby.                                              *)

PostKeepsResult(op) ==
  /\ main' = [pc |-> "wait", op |-> op]
  /\ req' = op
  /\ UNCHANGED result

Post(op) ==
  /\ main' = [pc |-> "wait", op |-> op]
  /\ req' = op
  /\ result' = "none"

OpenData ==
  /\ main.pc = "boot"
  /\ Post("data_open")
  /\ UNCHANGED <<ringVars, fileVars, stateVars, writer, producer, mid, sniffVars, fails,
                 historyVars>>

(* startNow(): while the last session's file is open, sdwSniffClose() waits  *)
(* for its end.  (It first takes the SD lock, which the writer gets before   *)
(* it: a request left posted is done by then.)                               *)
StartSniff ==
  /\ main.pc = "run" /\ ~active /\ req = NoReq
  /\ sniffs < MaxSniff
  /\ sniffs' = sniffs + 1
  /\ main' = [pc |-> IF sniffOpen THEN "finish" ELSE "start", op |-> NoReq]
  /\ UNCHANGED <<ringVars, fileVars, stateVars, writer, producer, mid, fileOk, active, closing,
                 reqVars, fails, historyVars>>

RefuseSniff ==
  /\ main.pc = "finish" /\ sniffOpen
  /\ "finish" \in Timeouts \/ ~closing
  /\ main' = [main EXCEPT !.pc = "run"]
  /\ UNCHANGED <<ringVars, fileVars, stateVars, writer, producer, mid, sniffVars, reqVars, fails,
                 historyVars>>

OpenSniff ==
  /\ main.pc \in {"start", "finish"} /\ ~sniffOpen
  /\ closing' = FALSE
  /\ active' = TRUE
  /\ IF dead
     THEN fileOk' = FALSE /\ main' = [main EXCEPT !.pc = "run"] /\ UNCHANGED reqVars
     ELSE Post("sniff_open") /\ UNCHANGED fileOk
  /\ UNCHANGED <<ringVars, fileVars, stateVars, writer, producer, mid, sniffs, fails, historyVars>>

(* sniffStopNow(), closeFile()                                               *)
StopSniff ==
  /\ main.pc = "run" /\ active
  /\ active' = FALSE
  /\ closing' = (closing \/ fileOk)
  /\ main' = [main EXCEPT !.pc = IF fileOk THEN "stop" ELSE "run"]
  /\ UNCHANGED <<ringVars, fileVars, stateVars, writer, producer, mid, fileOk, sniffs, reqVars,
                 fails, historyVars>>

SniffStopped ==
  /\ main.pc = "stop"
  /\ ~sniffOpen \/ "finish" \in Timeouts
  /\ fileOk' = (fileOk /\ sniffOpen)
  /\ closing' = (closing /\ sniffOpen)
  /\ main' = [main EXCEPT !.pc = "run"]
  /\ UNCHANGED <<ringVars, fileVars, stateVars, writer, producer, mid, active, sniffs, reqVars,
                 fails, historyVars>>

CloseData ==
  /\ main.pc = "run" /\ mid /\ ~active
  /\ IF dataOpen
     THEN main' = [main EXCEPT !.pc = "sync"] /\ UNCHANGED mid
     ELSE main' = [main EXCEPT !.pc = "parked"] /\ mid' = FALSE
  /\ UNCHANGED <<ringVars, fileVars, stateVars, writer, producer, sniffVars, reqVars, fails,
                 historyVars>>

(* sdwDataSync() and what sdwDataClose() does after it.                      *)
Synced ==
  /\ main.pc = "sync" /\ head = tail
  /\ Post("data_close")
  /\ UNCHANGED <<ringVars, fileVars, stateVars, writer, producer, mid, sniffVars, fails,
                 historyVars>>

NotSynced ==
  /\ main.pc = "sync" /\ head # tail
  /\ "sync" \in Timeouts \/ dead
  /\ lost' = lost \cup InRing
  /\ tail' = head
  /\ Post("data_close")
  /\ UNCHANGED <<slots, head, marks, fileVars, stateVars, writer, producer, mid, sniffVars, fails,
                 confirmed>>

MayTimeOut == IF main.op = "data_close" THEN "close" \in Timeouts ELSE "open" \in Timeouts

(* The end of request(): answered, or timed out with the request still there.*)
Told(ok) ==
  /\ mid' = IF main.op = "data_open" THEN ok ELSE mid /\ main.op # "data_close"
  /\ fileOk' = IF main.op = "sniff_open" THEN ok ELSE fileOk
  /\ main' = [pc |-> IF main.op = "data_close" THEN "parked" ELSE "run", op |-> NoReq]

Answered ==
  /\ main.pc = "wait"
  /\ req = NoReq \/ MayTimeOut
  /\ Told(result = "ok")
  /\ UNCHANGED <<ringVars, fileVars, stateVars, writer, producer, active, closing, sniffs, reqVars,
                 fails, historyVars>>

-----------------------------------------------------------------------------
Producer == CheckLine \/ RefuseLine \/ PutLine \/ Mark

Writer ==
  \/ WriteBegin \/ AppendOk \/ AppendFails \/ Confirm
  \/ ClearRing \/ CutAndClose
  \/ TakeRequest \/ DataClosed \/ SniffLast
  \/ \E ok \in BOOLEAN : DataOpened(ok) \/ SniffOpened(ok)

Main ==
  \/ OpenData \/ CloseData \/ Synced \/ NotSynced \/ Answered
  \/ StartSniff \/ RefuseSniff \/ OpenSniff \/ StopSniff \/ SniffStopped

Next == Producer \/ Writer \/ GiveUp \/ Main

Spec == Init /\ [][Next]_vars

(* The writer wakes every 50 ms.  Nothing forces it to give the card up.     *)
FairSpec == Spec /\ WF_vars(Writer)

-----------------------------------------------------------------------------
RingTypes ==
  /\ slots \in [0..(Ring - 1) -> Line \cup {ErrLine}]
  /\ head \in Nat /\ tail \in 0..head /\ head - tail <= Ring
  /\ marks \in Seq([off : Nat, rec : Rec]) /\ Len(marks) <= Marks
FileTypes == card \in Seq(Line \cup {ErrLine}) /\ good \in 0..Len(card)
SwitchTypes ==
  /\ fd \in BOOLEAN /\ dataOpen \in BOOLEAN /\ dead \in BOOLEAN /\ failing \in BOOLEAN
  /\ sniffOpen \in BOOLEAN /\ mid \in BOOLEAN /\ fileOk \in BOOLEAN /\ active \in BOOLEAN
  /\ closing \in BOOLEAN
TaskTypes ==
  /\ writer \in [pc : {"idle", "append", "confirm", "clear", "cut", "handle"},
                  t : Nat, h : Nat, job : Request \cup {NoReq}]
  /\ producer \in [pc : {"idle", "put", "mark"}, n : 0..MaxLine]
  /\ main \in [pc : {"boot", "wait", "run", "start", "finish", "stop", "sync", "parked"},
                op : Request \cup {NoReq}]
  /\ req \in Request \cup {NoReq} /\ result \in {"none", "ok", "failed"}
CountTypes ==
  /\ fails \in 0..MaxFail /\ sniffs \in 0..MaxSniff
  /\ lost \subseteq Line \cup {ErrLine} /\ confirmed \subseteq Rec
TypeOK == RingTypes /\ FileTypes /\ SwitchTypes /\ TaskTypes /\ CountTypes

Saved == {card[i] : i \in 1..good}

(* The file never has a hole or a duplicate and no half-written line stays   *)
(* in it while it is written to: its confirmed part has the records' lines   *)
(* in order and each once (sdwriter.h:9-11).                                 *)
FileIsStream ==
  /\ \A i, j \in 1..good : i < j /\ card[j] # ErrLine => card[i] < card[j]
  /\ fd => good = Len(card)

(* A record confirmed to the delivery queue is on the card, whatever the     *)
(* card then loses of its unconfirmed end, but for the lines counted as lost *)
(* (sdwriter.h:17).                                                          *)
ConfirmedOnCard == \A r \in confirmed : LinesOf(r) \subseteq Saved \cup lost

(* Every line logged into the file that is not in it is waiting, or counted  *)
(* (sdwriter.h:11).                                                          *)
LinesAccounted ==
  dataOpen => 1..producer.n \subseteq Saved \cup InRing \cup lost

(* Whoever is told that its file is open has an open file, or one of a card  *)
(* that has died since (sdwriter.h:44).                                      *)
AnswerTrue ==
  [][main.op = "sniff_open" /\ main'.pc = "run" /\ fileOk' => sniffOpen' \/ dead']_vars

(* While the file is open and the card alive, a line in the ring gets to the *)
(* card, or is counted.                                                      *)
LinesSettle ==
  \A l \in Line :
    l \in InRing ~> l \in Saved \cup lost \/ dead \/ ~dataOpen

=============================================================================
