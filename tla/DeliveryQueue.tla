---------------------------- MODULE DeliveryQueue ----------------------------
(***************************************************************************)
(* The delivery queue of the telelogger (txqueue.cpp): the one path every  *)
(* record takes to the server.                                             *)
(*                                                                         *)
(* A record is written to the CSV file of this boot and pushed into the    *)
(* queue, a reserve in PSRAM that survives resets and panics but not a     *)
(* power loss.  Queued records go out in numbered UDP packets; the server  *)
(* ACKs a packet once its records are stored.  What the queue cannot hold  *)
(* is read back from the card, from a cursor (the SD replay) that is also  *)
(* kept in NVS.                                                            *)
(*                                                                         *)
(* A record is its number: numbers follow (boot, ts), the identity the     *)
(* server knows it by, and the queue keeps its entries in that order, so   *)
(* the queue is a set and its oldest entry is its least number.  A byte    *)
(* position of the code (packet size, ring offset, cursor pos) is not      *)
(* modelled: RecordRing has the bytes of the ring.                         *)
(***************************************************************************)
EXTENDS Naturals, FiniteSets

CONSTANTS
  MaxRec,       (* bound: records made in a behaviour                        *)
  MaxBoot,      (* bound: boots in a behaviour                               *)
  Cap,          (* entries the reserve holds                                 *)
  SbCap,        (* standby records the SPIFFS file holds (SB_MAX_BYTES)      *)
  PacketRecs,   (* records that fit into a packet (TXQ_PACKET_MAX)           *)
  MaxInflight,  (* TXQ_MAX_INFLIGHT                                          *)
  PacketNo,     (* packet numbers; one is reused only when nothing carries it *)
  Events        (* what may happen to the device, see EventKinds             *)

(* "standby"     the device is parked: standby and its position reports      *)
(* "purge"       the card runs full and old files are deleted                *)
(* "panic"       reset without prepareRestart(), the replay's cursor saved   *)
(* "unsaved"     ... and also while NVS does not know of the running replay  *)
(* "damage"      a reset after which only the oldest entries check out       *)
(* "powerloss"   the reserve is gone, NVS names a file                       *)
(* "nocursor"    ... and also while NVS names none                           *)
(* "nocard"      a boot without a card                                       *)
(* "nofile"      a boot whose card cannot take a new file                    *)
(* "dead"        the card stops answering for good (sdwriter goDead)         *)
(* "loss", "dup" packets and ACKs are lost or duplicated                     *)
(* "resend"      the server asks for a file again, no older one is waiting   *)
(* "resendany"   ... and also while records of an older file wait            *)
EventKinds == {"standby", "purge", "panic", "unsaved", "damage", "powerloss",
               "nocursor", "nocard", "nofile", "dead", "loss", "dup", "resend",
               "resendany"}

Rec  == 1..MaxRec
Boot == 1..MaxBoot
File == 1..MaxBoot     \* a boot opens at most one new file

ASSUME BoundsAssumption ==
  /\ MaxRec \in Nat /\ MaxBoot \in Nat \ {0}
  /\ Cap \in Nat \ {0, 1} /\ SbCap \in Nat /\ SbCap <= Cap
  /\ PacketRecs \in Nat \ {0} /\ MaxInflight \in Nat \ {0}
ASSUME PacketAssumption == PacketNo \subseteq Nat \ {0}
ASSUME EventsAssumption == Events \subseteq EventKinds

VARIABLES
  boot,       (* s_boot                                                      *)
  mode,       (* "run" or "standby" (STATE_STANDBY)                          *)
  made,       (* records finished so far: 1..made                            *)
  logging,    (* record made + 1 is being written to the card's ring         *)
  rec,        (* rec[r]: its boot, the file of its lines, QEnt.file          *)
  disk,       (* how much of a record's lines the card has                   *)
  files,      (* the /DATA files on the card                                 *)
  card,       (* "ok", "none", "nofile" or "dead"                            *)
  st,         (* QEnt.state, "none" when the queue does not hold the record  *)
  pkt,        (* QEnt.packet while "inflight", else 0                        *)
  confirmed,  (* entries with F_SD                                           *)
  standby,    (* entries with F_SB                                           *)
  spiffs,     (* records in the SPIFFS file SB_PATH                          *)
  flights,    (* s_flight, the used ones                                     *)
  replay,     (* s_sdActive, s_sdFile, s_sdTs                                *)
  saved,      (* NVS blob TXQ_CUR: file, ts, sdActive                        *)
  lastFile,   (* NVS FILE_ID                                                 *)
  file,       (* s_file                                                      *)
  maxFile,    (* s_maxFile                                                   *)
  fileKnown,  (* s_fileKnown                                                 *)
  deferred,   (* s_replayDeferred                                            *)
  net,        (* packets under way to the server                             *)
  acks,       (* ACKs under way to the box                                   *)
  stored,     (* history: <<boot, record>> the server has stored             *)
  lost,       (* history: records s_lost counts                              *)
  excused     (* history: records given up as documented, see Excuse         *)

recVars   == <<made, logging, rec>>
cardVars  == <<disk, files, card>>
queueVars == <<st, pkt, confirmed, standby>>
fileVars  == <<file, maxFile, fileKnown, deferred, lastFile>>
netVars   == <<net, acks>>
history   == <<stored, lost, excused>>
vars == <<boot, mode, recVars, cardVars, queueVars, spiffs, flights, replay,
          saved, fileVars, netVars, history>>

-----------------------------------------------------------------------------
(* Helpers                                                                   *)

Queue      == {r \in Rec : st[r] # "none"}
Waiting    == {r \in Queue : st[r] # "acked"}
Pending    == {r \in Queue : st[r] = "pending"}
WithFile   == {r \in Queue : rec[r].file # 0}
Stored(r)  == <<rec[r].boot, r>> \in stored

IsLeast(x, S) == x \in S /\ \A y \in S : x <= y
IsLast(x, S)  == x \in S /\ \A y \in S : y <= x

(* (f, t) comes before (g, u) on the card.                                   *)
Before(f, t, g, u) == f < g \/ (f = g /\ t < u)

NoReplay == [on |-> FALSE, file |-> 0, ts |-> 0]
NoCursor == [file |-> 0, ts |-> 0, on |-> FALSE]
NewRec   == [boot |-> 0, home |-> 0, file |-> 0]

ReplayAt(f, t) == [on |-> TRUE, file |-> f, ts |-> t]
NextFile       == ReplayAt(replay.file + 1, 0)

(* The entry's file has the record as a whole and is still there.            *)
OnCard(r) == disk[r] = "full" /\ rec[r].file \in files

(* The cursor has not passed the record.                                     *)
Ahead(r, cursor) == ~Before(rec[r].file, r, cursor.file, cursor.ts)

(* Records of a file the replay cannot open: with a card that died they are  *)
(* given up (s_replayAbandoned), a deleted file has none left to send.       *)
GivenUp(f) == {r \in 1..made : rec[r].file = f /\ OnCard(r) /\ ~Stored(r) /\ st[r] = "none"}

(* SD.open of a /DATA file succeeds.                                         *)
Readable(f) == f \in files /\ card \in {"ok", "nofile"}

-----------------------------------------------------------------------------
(* Boot: txqEarlyInit(), txqBegin().                                         *)

(* The standby records' file stays while one of them waits for the server.   *)
SbFileGone(queued) == {}
SbFileAfter(queued) ==
  IF \E r \in standby : queued[r] \notin {"none", "acked"} THEN spiffs ELSE {}

(* validateRing(): the entries of S survived; what was in flight is pending. *)
Revalidated(S) ==
  [r \in Rec |-> IF r \notin S THEN "none"
                 ELSE IF st[r] = "inflight" THEN "pending" ELSE st[r]]

ReplayFromLostReserve(cursor, kept) ==
  IF cursor.file # 0 /\ ~kept THEN ReplayAt(cursor.file, cursor.ts) ELSE NoReplay

ReplayFrom(cursor, kept) ==
  IF cursor.file # 0 /\ (cursor.on \/ ~kept) THEN ReplayAt(cursor.file, cursor.ts)
                                             ELSE NoReplay

(* Everything in RAM starts anew; a record half made is gone with it.        *)
Reboot(cursor, kept) ==
  /\ boot < MaxBoot
  /\ boot' = boot + 1
  /\ mode' = "run"
  /\ logging' = FALSE
  /\ made' = IF logging THEN made + 1 ELSE made
  /\ card' = "none"
  /\ pkt' = [r \in Rec |-> 0]
  /\ flights' = {} /\ net' = {} /\ acks' = {}
  /\ file' = 0 /\ maxFile' = 0 /\ fileKnown' = FALSE /\ deferred' = FALSE
  /\ saved' = cursor
  /\ replay' = ReplayFrom(cursor, kept)
  /\ UNCHANGED <<rec, files, lastFile, stored, lost>>

(* The reserve survived, at least its entries S.                             *)
KeptReboot(cursor, S) ==
  /\ Reboot(cursor, TRUE)
  /\ st' = Revalidated(S)
  /\ confirmed' = confirmed \cap S
  /\ standby' = standby \cap S
  /\ spiffs' = SbFileAfter(Revalidated(S))
  /\ excused' = IF logging THEN excused \cup {made + 1} ELSE excused

(* initialize(): the card is there and takes a new file, or not: txqSetFile(). *)
CardsAtBoot == {"ok"} \cup (Events \cap {"nocard", "nofile"})

SetFile(c) ==
  /\ ~fileKnown
  /\ fileKnown' = TRUE
  /\ card' = IF c = "nocard" THEN "none" ELSE c
  /\ IF c = "ok"
     THEN /\ lastFile' = lastFile + 1
          /\ file' = lastFile + 1
          /\ maxFile' = lastFile + 1
          /\ files' = files \cup {lastFile + 1}
     ELSE UNCHANGED <<lastFile, file, maxFile, files>>
  /\ UNCHANGED <<boot, mode, recVars, disk, queueVars, spiffs, flights, replay,
                 saved, deferred, netVars, history>>

-----------------------------------------------------------------------------
(* Records: process(), emitEngineEvent(), buildStandbyReport(), queueRecord() *)

(* The lines of record made + 1 go into the SD writer's ring, one by one.    *)
LogBegin ==
  /\ mode = "run" /\ fileKnown /\ card = "ok" /\ ~logging /\ made < MaxRec
  /\ logging' = TRUE
  /\ rec' = [rec EXCEPT ![made + 1] = [boot |-> boot, home |-> file, file |-> 0]]
  /\ UNCHANGED <<boot, mode, made, cardVars, queueVars, spiffs, flights, replay,
                 saved, fileVars, netVars, history>>

(* dropTail(): a record the card has is left to the SD replay, which starts  *)
(* here unless it runs already; any other one is counted lost.               *)
DropUnconfirmed(o) ==
  IF st[o] = "acked" THEN UNCHANGED <<replay, lost>>
  ELSE IF rec[o].file # 0
  THEN /\ replay' = IF replay.on THEN replay ELSE ReplayAt(rec[o].file, o)
       /\ UNCHANGED lost
  ELSE /\ lost' = lost \cup {o}
       /\ UNCHANGED replay

Drop(o) ==
  IF st[o] = "acked" THEN UNCHANGED <<replay, lost>>
  ELSE IF rec[o].file # 0 /\ o \in confirmed
  THEN /\ replay' = IF replay.on THEN replay ELSE ReplayAt(rec[o].file, o)
       /\ UNCHANGED lost
  ELSE /\ lost' = lost \cup {o}
       /\ UNCHANGED replay

Overflows == Cardinality(Queue) >= Cap
Dropped   == {o \in Queue : Overflows /\ IsLeast(o, Queue)}

(* pushLocked() of record r: the oldest entry goes when the reserve is full. *)
PushLocked(r, flagged) ==
  /\ st' = [x \in Rec |-> IF x = r THEN "pending"
                          ELSE IF x \in Dropped THEN "none" ELSE st[x]]
  /\ pkt' = [x \in Rec |-> IF x \in Dropped THEN 0 ELSE pkt[x]]
  /\ confirmed' = confirmed \ Dropped
  /\ standby' = (standby \ Dropped) \cup (IF flagged THEN {r} ELSE {})
  /\ IF Dropped = {} THEN UNCHANGED <<replay, lost>>
     ELSE \E o \in Dropped : Drop(o)

(* txqPushEx(): without a file and from 80 % on a record may be thinned out. *)
MayThin == file = 0 /\ 5 * Cardinality(Queue) >= 4 * Cap

(* The SD writer syncs every few seconds and gives the card up after 30 s,   *)
(* the reserve holds an hour: a full queue is never all ahead of the card.   *)
KeepsUp == Cardinality({r \in WithFile : rec[r].file = file /\ disk[r] # "full"}) < Cap - 1

Home(r) == IF logging THEN rec[r].home ELSE 0

Finish(r) ==
  /\ made' = r
  /\ logging' = FALSE
  /\ rec' = [rec EXCEPT ![r] = [boot |-> boot, home |-> Home(r), file |-> file]]
  /\ UNCHANGED <<boot, mode, cardVars, flights, saved, fileVars, netVars, stored>>

Push ==
  /\ mode = "run" /\ fileKnown /\ made < MaxRec
  /\ logging \/ card # "ok"
  /\ KeepsUp
  /\ Finish(made + 1)
  /\ \/ PushLocked(made + 1, FALSE) /\ UNCHANGED excused
     \/ /\ MayThin
        /\ excused' = excused \cup {made + 1}
        /\ UNCHANGED <<queueVars, replay, lost>>
  /\ UNCHANGED spiffs

(* buildStandbyReport(): also into the SPIFFS file, while that has room.     *)
StandbyPush ==
  /\ mode = "standby" /\ made < MaxRec
  /\ Finish(made + 1)
  /\ \/ /\ PushLocked(made + 1, TRUE)
        /\ spiffs' = IF Cardinality(spiffs) < SbCap THEN spiffs \cup {made + 1} ELSE spiffs
        /\ UNCHANGED excused
     \/ /\ MayThin
        /\ excused' = excused \cup {made + 1}
        /\ UNCHANGED <<queueVars, spiffs, replay, lost>>

-----------------------------------------------------------------------------
(* SD writer task                                                            *)

Flushed == [r \in Rec |-> IF r <= made /\ rec[r].home = file /\ file # 0 THEN "full" ELSE disk[r]]

(* dataWrite(): everything appended so far; of the record being logged as    *)
(* many lines as there are.                                                  *)
SdFlush ==
  /\ card = "ok" /\ mode = "run" /\ file # 0
  /\ \/ disk' = Flushed
     \/ /\ logging /\ disk[made + 1] # "full"
        /\ \E part \in {"part", "full"} : disk' = [Flushed EXCEPT ![made + 1] = part]
  /\ disk' # disk
  /\ UNCHANGED <<boot, mode, recVars, files, card, queueVars, spiffs, flights,
                 replay, saved, fileVars, netVars, history>>

(* txqSdConfirmed(): entries of this boot whose lines are on the card.       *)
Confirmable(r) == rec[r].boot = boot /\ rec[r].file # 0 /\ disk[r] = "full"

Confirm ==
  LET new == {r \in Queue \ confirmed : Confirmable(r)}
  IN /\ card = "ok" /\ new # {}
     /\ confirmed' = confirmed \cup new
     /\ UNCHANGED <<boot, mode, recVars, cardVars, st, pkt, standby, spiffs,
                    flights, replay, saved, fileVars, netVars, history>>

(* goDead(): no SD copy any more, txqSetFile(0).                             *)
GoDead ==
  /\ "dead" \in Events /\ card = "ok" /\ mode = "run"
  /\ card' = "dead"
  /\ file' = 0
  /\ UNCHANGED <<boot, mode, recVars, disk, files, queueVars, spiffs, flights,
                 replay, saved, maxFile, fileKnown, deferred, lastFile, netVars,
                 history>>

(* standby(): the log is synced and closed, txqSetFile(0).                   *)
EnterStandby ==
  /\ "standby" \in Events /\ mode = "run" /\ fileKnown /\ ~logging
  /\ mode' = "standby"
  /\ disk' = IF card = "ok" THEN Flushed ELSE disk
  /\ file' = 0
  /\ UNCHANGED <<boot, recVars, files, card, queueVars, spiffs, flights, replay,
                 saved, maxFile, fileKnown, deferred, lastFile, netVars, history>>

(* txqOldestFileNeeded() keeps file f: it or an older one is still needed.   *)
NeededByReplay(f) == replay.on /\ replay.file # 0 /\ replay.file <= f
Needed(f) ==
  \/ replay.on /\ replay.file # 0 /\ replay.file <= f
  \/ \E r \in Waiting : rec[r].file # 0 /\ rec[r].file <= f
  \/ saved.file # 0 /\ saved.file <= f

(* SDLogger::purgeOldFiles() from process(): the oldest file but the open one. *)
Purge ==
  /\ "purge" \in Events /\ mode = "run" /\ card = "ok"
  /\ \E f \in files \ {file} :
       /\ IsLeast(f, files \ {file})
       /\ ~Needed(f)
       /\ files' = files \ {f}
  /\ UNCHANGED <<boot, mode, recVars, disk, card, queueVars, spiffs, flights,
                 replay, saved, fileVars, netVars, history>>

-----------------------------------------------------------------------------
(* Telemetry task: txqNextPacket()                                           *)

(* Packet numbers only grow in the code: here the least one nothing carries. *)
InUse        == {fl.no : fl \in flights} \cup {p.no : p \in net} \cup acks
NoNewNo(n)   == IsLeast(n, PacketNo \ {fl.no : fl \in flights})
NewNo(n)     == IsLeast(n, PacketNo \ InUse)
FlightUsed   == Cardinality(flights) >= MaxInflight
Blocked      == replay.on /\ ~fileKnown
CanBuild     == ~Blocked /\ ~FlightUsed
SdBusy       == \E fl \in flights : fl.sd

QueueFlight(n) == [no |-> n, sd |-> FALSE, next |-> 0, eof |-> FALSE, done |-> FALSE]
Packet(n, b, R) == [no |-> n, boot |-> b, recs |-> R]

(* Queue entries R leave as packet n of boot b.                              *)
SendEntries(n, b, R) ==
  /\ st' = [r \in Rec |-> IF r \in R THEN "inflight" ELSE st[r]]
  /\ pkt' = [r \in Rec |-> IF r \in R THEN n ELSE pkt[r]]
  /\ flights' = flights \cup {QueueFlight(n)}
  /\ net' = net \cup {Packet(n, b, R)}

(* 1. the newest record first when a backlog is being worked off             *)
SendNewest ==
  /\ CanBuild
  /\ \E l \in Pending, f \in Queue, n \in PacketNo :
       /\ IsLast(l, Queue) /\ IsLeast(f, Queue) /\ l # f
       /\ rec[l].boot = rec[f].boot
       /\ NewNo(n)
       /\ SendEntries(n, rec[l].boot, {l})
  /\ UNCHANGED <<boot, mode, recVars, cardVars, confirmed, standby, spiffs,
                 replay, saved, fileVars, acks, history>>

(* 3. queued records, oldest first, of one boot, as many as fit              *)
AnyBoot(R) == TRUE
OneBoot(R) == \A r, q \in R : rec[r].boot = rec[q].boot
Oldest(R)  == \A r \in R, q \in Pending \ R : r < q

Fits(R) ==
  /\ R # {} /\ Cardinality(R) <= PacketRecs
  /\ Oldest(R) /\ OneBoot(R)

QueuePacket ==
  \E f \in Pending, R \in SUBSET Pending, n \in PacketNo :
    /\ IsLeast(f, Pending)
    /\ Fits(R)
    /\ NewNo(n)
    /\ SendEntries(n, rec[f].boot, R)

SendQueued ==
  /\ CanBuild /\ ~replay.on
  /\ QueuePacket
  /\ UNCHANGED <<boot, mode, recVars, cardVars, confirmed, standby, spiffs,
                 replay, saved, fileVars, acks, history>>

(* ... or nothing: no entry is pending, or the clock is not set yet.         *)
QueuePacketOrNone == QueuePacket \/ UNCHANGED <<st, pkt, flights, net>>

-----------------------------------------------------------------------------
(* 2. SD replay: buildSdPacket()                                             *)

(* sdStopKey(): the queue's oldest entry with an SD copy takes over here.    *)
StopsAt(f, r) == \E q \in WithFile : IsLeast(q, WithFile) /\ ~Before(f, r, rec[q].file, q)

Lines   == {r \in Rec : rec[r].home = replay.file /\ disk[r] # "none" /\ r >= replay.ts}
Stops   == {r \in Lines : StopsAt(replay.file, r)}
ToSend  == Lines \ Stops

(* The records read are the oldest ones, up to the packet's limit.           *)
ReadUpTo(R) ==
  /\ \A r \in R, q \in ToSend \ R : r < q
  /\ IF Cardinality(ToSend) <= PacketRecs THEN R = ToSend ELSE Cardinality(R) = PacketRecs

AtEof(R) == R = ToSend /\ Stops = {}

(* The last record of the file being written may still grow: not sent now.   *)
GrowingSent(R) == {}
Growing(R) == IF AtEof(R) /\ replay.file = file THEN {r \in R : IsLast(r, R)} ELSE {}

NextTs(R, t) ==
  IF AtEof(R) /\ Growing(R) = {}
  THEN IF R = {} THEN t = replay.ts ELSE t > 0 /\ IsLast(t - 1, R)
  ELSE IsLeast(t, (Lines \ R) \cup Growing(R))

ReplayFlight(n, R, t) ==
  [no |-> n, sd |-> TRUE, next |-> t, eof |-> AtEof(R), done |-> R = ToSend /\ Stops # {}]

Building == CanBuild /\ replay.on /\ ~SdBusy

SendReplay ==
  /\ Building /\ Readable(replay.file)
  /\ \E R \in SUBSET ToSend, n \in PacketNo, t \in 0..MaxRec + 1 :
       /\ ReadUpTo(R) /\ R \ Growing(R) # {}
       /\ NewNo(n) /\ NextTs(R, t)
       /\ flights' = flights \cup {ReplayFlight(n, R, t)}
       /\ \E r \in R : net' = net \cup {Packet(n, rec[r].boot, R \ Growing(R))}
  /\ UNCHANGED <<boot, mode, recVars, cardVars, queueVars, spiffs, replay, saved,
                 fileVars, acks, history>>

(* Nothing to send in a file that was read to its end or to the queue.       *)
NothingLeft == \A r \in ToSend : Growing(ToSend) = {r}

ReplayEnds ==
  /\ Building /\ Readable(replay.file)
  /\ NothingLeft
  /\ Stops # {} \/ replay.file >= maxFile
  /\ replay' = NoReplay
  /\ QueuePacketOrNone
  /\ UNCHANGED <<boot, mode, recVars, cardVars, confirmed, standby, spiffs, saved,
                 fileVars, acks, history>>

ReplayNextFile ==
  /\ Building
  /\ replay.file < maxFile
  /\ \/ Readable(replay.file) /\ NothingLeft /\ Stops = {} /\ UNCHANGED excused
     \/ ~Readable(replay.file) /\ excused' = excused \cup GivenUp(replay.file)
  /\ replay' = NextFile
  /\ UNCHANGED <<boot, mode, recVars, cardVars, queueVars, spiffs, flights, saved,
                 fileVars, netVars, stored, lost>>

ReplayAbandoned ==
  /\ Building /\ ~Readable(replay.file)
  /\ maxFile # 0 /\ replay.file >= maxFile
  /\ replay' = NoReplay
  /\ excused' = excused \cup GivenUp(replay.file)
  /\ QueuePacketOrNone
  /\ UNCHANGED <<boot, mode, recVars, cardVars, confirmed, standby, spiffs, saved,
                 fileVars, acks, stored, lost>>

(* No SD file this boot: the cursor stays in NVS for a boot with the card.   *)
ReplayDeferred ==
  /\ Building /\ ~Readable(replay.file)
  /\ maxFile = 0
  /\ replay' = NoReplay
  /\ deferred' = TRUE
  /\ saved' = [file |-> replay.file, ts |-> replay.ts, on |-> TRUE]
  /\ QueuePacketOrNone
  /\ UNCHANGED <<boot, mode, recVars, cardVars, confirmed, standby, spiffs,
                 file, maxFile, fileKnown, lastFile, acks, history>>

-----------------------------------------------------------------------------
(* The network and the server (external): UDP, the server ACKs a packet once *)
(* its records are stored under the packet's boot number.                    *)

Deliver(p) ==
  /\ stored' = stored \cup {<<p.boot, r>> : r \in p.recs}
  /\ acks' = acks \cup {p.no}
  /\ \/ net' = net \ {p}
     \/ "dup" \in Events /\ UNCHANGED net
  /\ UNCHANGED <<boot, mode, recVars, cardVars, queueVars, spiffs, flights,
                 replay, saved, fileVars, lost, excused>>

Lose ==
  /\ "loss" \in Events
  /\ \/ \E p \in net : net' = net \ {p} /\ UNCHANGED acks
     \/ \E n \in acks : acks' = acks \ {n} /\ UNCHANGED net
  /\ UNCHANGED <<boot, mode, recVars, cardVars, queueVars, spiffs, flights,
                 replay, saved, fileVars, history>>

-----------------------------------------------------------------------------
(* txqOnAck(), expire(), txqSendFailed(), txqSave(), txqResendRequest()      *)

Acked(n) == [r \in Rec |-> IF st[r] = "inflight" /\ pkt[r] = n THEN "acked" ELSE st[r]]

(* releaseAcked(): the tail moves over the entries the server has confirmed. *)
Released(s) ==
  [r \in Rec |-> IF \A q \in Rec : q <= r => s[q] \in {"none", "acked"} THEN "none" ELSE s[r]]
Entries(s) == {r \in Rec : s[r] # "none"}

AckToNextFile(fl) ==
  IF fl.eof /\ ~fl.done THEN NextFile ELSE [replay EXCEPT !.ts = fl.next]
AckStays(fl) == replay

AfterReplayAck(fl) ==
  IF fl.eof /\ ~fl.done /\ replay.file < maxFile THEN NextFile
                                                 ELSE [replay EXCEPT !.ts = fl.next]

AckReplay(fl) ==
  /\ fl.sd
  /\ replay' = AfterReplayAck(fl)
  /\ UNCHANGED <<queueVars, spiffs>>

AckEntries(fl) ==
  /\ ~fl.sd
  /\ st' = Released(Acked(fl.no))
  /\ pkt' = [r \in Rec |-> IF pkt[r] = fl.no THEN 0 ELSE pkt[r]]
  /\ confirmed' = confirmed \cap Entries(st')
  /\ standby' = standby \cap Entries(st')
  /\ spiffs' = SbFileAfter(st')
  /\ UNCHANGED replay

OnAck(n) ==
  /\ acks' = acks \ {n}
  /\ \E fl \in flights :
       /\ fl.no = n
       /\ flights' = flights \ {fl}
       /\ AckReplay(fl) \/ AckEntries(fl)
  /\ UNCHANGED <<boot, mode, recVars, cardVars, saved, fileVars, net, history>>

(* An ACK that comes after its flight expired or was given up: nothing.      *)
OnLateAck(n) ==
  /\ \A fl \in flights : fl.no # n
  /\ acks' = acks \ {n}
  /\ UNCHANGED <<boot, mode, recVars, cardVars, queueVars, spiffs, flights,
                 replay, saved, fileVars, net, history>>

(* The packet's entries go out again.                                        *)
KeptInFlight(fl) == st
Returned(fl) ==
  [r \in Rec |-> IF ~fl.sd /\ st[r] = "inflight" /\ pkt[r] = fl.no THEN "pending" ELSE st[r]]

(* After TXQ_ACK_TIMEOUT_MS, or at once when the packet did not go out.      *)
Expire ==
  /\ \E fl \in flights :
       /\ flights' = flights \ {fl}
       /\ st' = Returned(fl)
       /\ pkt' = [r \in Rec |-> IF pkt[r] = fl.no THEN 0 ELSE pkt[r]]
  /\ UNCHANGED <<boot, mode, recVars, cardVars, confirmed, standby, spiffs,
                 replay, saved, fileVars, netVars, history>>

(* What txqSave() writes: the running replay, or the oldest entry that has a *)
(* file and no ACK, or the place of the next record, or no cursor at all.    *)
UnconfirmedPending == {r \in Pending : rec[r].file # 0}
Unconfirmed == {r \in Waiting : rec[r].file # 0}
Cursor == [file : 0..MaxBoot, ts : 0..MaxRec + 1, on : BOOLEAN]

CursorIs(c) ==
  IF replay.on THEN c = [file |-> replay.file, ts |-> replay.ts, on |-> TRUE]
  ELSE IF Unconfirmed # {}
  THEN \E r \in Unconfirmed :
         IsLeast(r, Unconfirmed) /\ c = [file |-> rec[r].file, ts |-> r, on |-> FALSE]
  ELSE c = IF file # 0 THEN [file |-> file, ts |-> made + 1, on |-> FALSE] ELSE NoCursor

(* A deferred replay's cursor stays as it is.                                *)
Saves(c) == IF deferred THEN c = saved ELSE CursorIs(c)

Save ==
  /\ \E c \in Cursor : Saves(c) /\ saved' = c
  /\ saved' # saved
  /\ UNCHANGED <<boot, mode, recVars, cardVars, queueVars, spiffs, flights,
                 replay, fileVars, netVars, history>>

(* The server asks for file f and the later ones again: the replay restarts  *)
(* there unless it runs already and will come to f.                          *)
Covered(f) == replay.on /\ replay.file # 0 /\ replay.file <= f

Resend(f) ==
  /\ "resend" \in Events
  /\ "resendany" \in Events \/ \A r \in Unconfirmed : f <= rec[r].file
  /\ ~Covered(f)
  /\ replay' = ReplayAt(f, 0)
  /\ flights' = {fl \in flights : ~fl.sd}
  /\ saved' = IF deferred THEN saved ELSE [file |-> f, ts |-> 0, on |-> TRUE]
  /\ UNCHANGED <<boot, mode, recVars, cardVars, queueVars, spiffs, fileVars,
                 netVars, history>>

-----------------------------------------------------------------------------
(* Resets                                                                    *)

(* prepareRestart(): the card is synced, if it answers in time, and the      *)
(* cursor is saved.                                                          *)
Restart ==
  /\ \/ card = "ok" /\ mode = "run" /\ disk' = Flushed
     \/ UNCHANGED disk
  /\ \E c \in Cursor : Saves(c) /\ KeptReboot(c, Queue)

(* A panic or the watchdog: NVS has what txqSave() wrote last.               *)
Panic ==
  /\ "panic" \in Events
  /\ "unsaved" \in Events \/ (replay.on => saved.on)
  /\ UNCHANGED disk
  /\ KeptReboot(saved, Queue)

(* ... and the reserve checks out only up to entry k.                        *)
Damage ==
  /\ "damage" \in Events
  /\ UNCHANGED disk
  /\ \E k \in {0} \cup Queue : KeptReboot(saved, {r \in Queue : r <= k})

(* Only what is on the card, in SPIFFS and in NVS is left; a record that is  *)
(* nowhere there is gone, as documented.                                     *)
OnlyInRam == {r \in Waiting \ spiffs : ~OnCard(r)}

PowerLoss ==
  /\ "powerloss" \in Events
  /\ "nocursor" \in Events \/ saved.file # 0
  /\ Reboot(saved, FALSE)
  /\ st' = [r \in Rec |-> IF r \in spiffs THEN "pending" ELSE "none"]
  /\ confirmed' = {}
  /\ standby' = spiffs
  /\ excused' = excused \cup OnlyInRam \cup (IF logging THEN {made + 1} ELSE {})
  /\ UNCHANGED <<disk, spiffs>>

-----------------------------------------------------------------------------
Init ==
  /\ boot = 1 /\ mode = "run" /\ made = 0 /\ logging = FALSE
  /\ rec = [r \in Rec |-> NewRec]
  /\ disk = [r \in Rec |-> "none"] /\ files = {} /\ card = "none"
  /\ st = [r \in Rec |-> "none"] /\ pkt = [r \in Rec |-> 0]
  /\ confirmed = {} /\ standby = {} /\ spiffs = {}
  /\ flights = {} /\ replay = NoReplay /\ saved = NoCursor
  /\ file = 0 /\ maxFile = 0 /\ fileKnown = FALSE /\ deferred = FALSE /\ lastFile = 0
  /\ net = {} /\ acks = {}
  /\ stored = {} /\ lost = {} /\ excused = {}

MainTask      == LogBegin \/ Push \/ EnterStandby \/ Purge \/ \E c \in CardsAtBoot : SetFile(c)
SdWriterTask  == SdFlush \/ Confirm \/ GoDead
NextInOrder   == \/ SendQueued \/ SendReplay \/ ReplayEnds \/ ReplayNextFile
                 \/ ReplayAbandoned \/ ReplayDeferred
NextPacket    == SendNewest \/ NextInOrder
TelemetryTask == \/ StandbyPush \/ NextPacket \/ Expire \/ Save
                 \/ \E n \in acks : OnAck(n) \/ OnLateAck(n)
                 \/ \E f \in files : Resend(f)
Network       == (\E p \in net : Deliver(p)) \/ Lose
Reset         == Restart \/ Panic \/ Damage \/ PowerLoss

Next == MainTask \/ SdWriterTask \/ TelemetryTask \/ Network \/ Reset

Spec == Init /\ [][Next]_vars

(* setup() comes to the card, the telemetry loop goes round: SendNewest at   *)
(* most every 5 s, the other packets in between; a flight ends after 8 s.    *)
(* The network is not down for ever: of the packets sent in order one gets   *)
(* through and is ACKed in time, again and again.                            *)
InOrder(n) ==
  \E fl \in flights : fl.no = n /\ (fl.sd \/ \E r \in Rec : IsLeast(r, Waiting) /\ pkt[r] = n)

Fairness ==
  /\ WF_vars(\E c \in CardsAtBoot : SetFile(c))
  /\ WF_vars(Expire) /\ SF_vars(NextInOrder)
  /\ SF_vars(\E p \in net : InOrder(p.no) /\ Deliver(p))
  /\ SF_vars(\E n \in acks : InOrder(n) /\ OnAck(n))
  /\ WF_vars(\E p \in net : Deliver(p))
  /\ WF_vars(\E n \in acks : OnLateAck(n))

FairSpec == Spec /\ Fairness

-----------------------------------------------------------------------------
(* Properties                                                                *)

Flight == [no : PacketNo, sd : BOOLEAN, next : 0..MaxRec + 1, eof : BOOLEAN, done : BOOLEAN]
State  == {"none", "pending", "inflight", "acked"}

RecordTypes ==
  /\ boot \in Boot /\ mode \in {"run", "standby"}
  /\ made \in 0..MaxRec
  /\ rec \in [Rec -> [boot : 0..MaxBoot, home : 0..MaxBoot, file : 0..MaxBoot]]
CardTypes ==
  /\ disk \in [Rec -> {"none", "part", "full"}]
  /\ files \subseteq File /\ card \in {"none", "ok", "nofile", "dead"}
QueueTypes ==
  /\ st \in [Rec -> State] /\ pkt \in [Rec -> {0} \cup PacketNo]
  /\ confirmed \subseteq Rec /\ standby \subseteq Rec /\ spiffs \subseteq Rec
ReplayTypes ==
  /\ flights \subseteq Flight
  /\ replay \in [on : BOOLEAN, file : 0..MaxBoot, ts : 0..MaxRec + 1]
  /\ saved \in Cursor
FileTypes ==
  /\ file \in 0..MaxBoot /\ maxFile \in 0..MaxBoot /\ lastFile \in 0..MaxBoot
SwitchTypes ==
  logging \in BOOLEAN /\ fileKnown \in BOOLEAN /\ deferred \in BOOLEAN
ServerTypes ==
  /\ net \subseteq [no : PacketNo, boot : 0..MaxBoot, recs : SUBSET Rec]
  /\ acks \subseteq PacketNo
  /\ stored \subseteq (0..MaxBoot) \X Rec
  /\ lost \subseteq Rec /\ excused \subseteq Rec

(* Every variable has its type; the files are the ones this device made.     *)
TypeOK ==
  /\ RecordTypes /\ CardTypes /\ QueueTypes /\ ReplayTypes
  /\ FileTypes /\ SwitchTypes /\ ServerTypes

(* txqueue.h:4-8: a finished record that the server has not stored, that was *)
(* not counted lost and not given up as documented is in the queue, or on    *)
(* the card where the running or the deferred SD replay still comes to it.   *)
OnItsWay(r) ==
  \/ r \in Waiting
  \/ OnCard(r) /\ replay.on /\ Ahead(r, replay)
  \/ OnCard(r) /\ deferred /\ saved.on /\ Ahead(r, saved)

NoSilentLoss == \A r \in 1..made : Stored(r) \/ r \in lost \cup excused \/ OnItsWay(r)

(* The queue lets go of an entry on the server's word only: what is marked   *)
(* acked has been stored, under its own boot number.                         *)
AckedIsStored == \A r \in Rec : st[r] = "acked" => Stored(r)

(* An entry in flight has a flight to end it, by an ACK or by its timeout:   *)
(* none is left that nothing would ever send again.                          *)
NeverStranded ==
  \A r \in Rec : st[r] = "inflight" => \E fl \in flights : ~fl.sd /\ fl.no = pkt[r]

(* ARCHITECTURE.md:383-387: after a loss of the reserve the cursor in NVS is *)
(* enough to find every record the card has and the server has not.          *)
CursorCovers ==
  saved.file # 0 => \A r \in 1..made :
    Stored(r) \/ r \in lost \cup excused \/ ~OnCard(r) \/ Ahead(r, saved)

(* No record reaches the server under another boot number than its own.      *)
IdentityRight == \A s \in stored : s[1] = rec[s[2]].boot

(* A record of this boot is never sent while its lines are still being       *)
(* written: the server would keep the half it got first.                     *)
SentWhole ==
  \A p \in net : p.boot = boot => \A r \in p.recs : r <= made \/ disk[r] = "full"

(* What the device has finished reaches the server in the end, whatever was  *)
(* lost or repeated on the way.                                              *)
AllDelivered == \A r \in Rec : r <= made ~> (Stored(r) \/ r \in lost \cup excused)

(* The records the server does not have yet.                                 *)
Undelivered == {r \in 1..made : ~Stored(r) /\ r \notin lost \cup excused}

(* The cleanup of the card deletes no file with a record the server does not *)
(* have yet.                                                                 *)
PurgeSparesUndelivered ==
  [][\A f \in files \ files' : \A r \in Undelivered : rec[r].file # f]_vars

(* A standby record's copy in the internal flash is deleted only once the    *)
(* server has the record (or it was counted lost).                           *)
FlashCopyKept == [][\A r \in spiffs \ spiffs' : r \notin Undelivered]_vars
=============================================================================
