---------------------------- MODULE SdWriterProofs ----------------------------
(***************************************************************************)
(* What holds of the SD writer for every number of lines, failures and     *)
(* sessions, every size of the ring and of the table of marks and every    *)
(* set of timeouts: the file is a prefix of the stream, a confirmed record *)
(* is on the card, and no line is lost uncounted.                          *)
(***************************************************************************)
EXTENDS SdWriter, SequenceTheorems, TLAPS

At(i) == slots[i % Ring]
Ringed(a, b) == {At(i) : i \in a..(b - 1)}

(* The first byte of the ring that is not to be overwritten; the first that  *)
(* is not in the file.                                                       *)
Base == IF writer.pc \in {"append", "confirm"} THEN writer.t ELSE tail
From == IF writer.pc = "confirm" THEN writer.h ELSE Base

(* The write in work lies in the ring, even when its end has been given up.  *)
RingInv ==
  /\ writer.pc \in {"append", "confirm"} =>
       writer.t <= writer.h /\ writer.h <= head /\ writer.t <= tail
  /\ head - Base <= Ring

(* Nothing is logged before the file is open, and it is opened once.         *)
OpenInv ==
  /\ main.pc = "boot" => req = NoReq /\ writer.pc # "handle"
  /\ main.pc = "boot" \/ req = "data_open" =>
       /\ ~mid /\ ~active /\ result # "ok" /\ main.pc \in {"boot", "wait", "run"}
       /\ (main.pc = "wait" => main.op = "data_open")
       /\ producer.pc = "idle" /\ producer.n = 0
       /\ ~dataOpen /\ writer.pc \notin {"append", "confirm"} /\ confirmed = {}
  /\ writer.pc = "handle" => req # NoReq
  /\ writer.pc = "handle" /\ writer.job = "data_open" => req = "data_open"

(* The file and, behind it, the ring have the lines in their order.          *)
StreamInv ==
  /\ FileIsStream
  /\ \A i \in 1..good : card[i] <= producer.n
  /\ \A p \in From..(head - 1) : At(p) <= producer.n
  /\ \A i \in 1..good, p \in From..(head - 1) : At(p) # ErrLine => card[i] < At(p)
  /\ \A p, q \in From..(head - 1) : p < q /\ At(q) # ErrLine => At(p) < At(q)

(* What the ring gives up is counted, what it has written is on the card.    *)
GivenInv ==
  /\ LinesAccounted
  /\ writer.pc = "append" => Ringed(writer.t, tail) \subseteq lost
  /\ writer.pc = "confirm" => Ringed(writer.t, writer.h) \subseteq Saved

(* The lines of a mark's record are before it, or have left the ring.        *)
MarkSafe(m) ==
  /\ m.off <= head
  /\ LinesOf(m.rec) \subseteq Saved \cup lost \cup Ringed(Base, m.off)
MarkInv ==
  /\ \A k \in 1..Len(marks) : MarkSafe(marks[k])
  /\ producer.pc = "mark" => producer.n > 0 /\ producer.n % PerRec = 0
  /\ producer.pc = "put" => producer.n < MaxLine

SdInv == TypeOK /\ RingInv /\ OpenInv /\ StreamInv /\ GivenInv /\ MarkInv /\ ConfirmedOnCard

-----------------------------------------------------------------------------
(* The writer task without a job.                                            *)
LEMMA IdleType ==
  /\ Idle \in [pc : {"idle", "append", "confirm", "clear", "cut", "handle"},
               t : Nat, h : Nat, job : Request \cup {NoReq}]
  /\ Idle.pc = "idle"
BY DEF Idle

(* A multiple of n less than another one is less by n at least.              *)
LEMMA Multiples ==
  ASSUME NEW x \in Int, NEW y \in Int, NEW n \in Nat, y < x
  PROVE  y * n + n <= x * n
OBVIOUS

(* Two bytes less than a ring apart have different places in it.             *)
LEMMA Places ==
  ASSUME NEW a \in Nat, NEW b \in Nat, a < b, b - a < Ring
  PROVE  a % Ring # b % Ring /\ a % Ring \in 0..(Ring - 1)
<1> DEFINE p == a \div Ring
           q == b \div Ring
<1>1. /\ p \in Int /\ q \in Int
      /\ a % Ring = a - p * Ring /\ b % Ring = b - q * Ring
  BY SizesAssumption
<1> HIDE DEF p, q
<1>2. ASSUME a % Ring = b % Ring
      PROVE  FALSE
  <2>1. p * Ring \in Int /\ q * Ring \in Int
    BY <1>1, SizesAssumption
  <2>2. q * Ring - p * Ring = b - a
    BY <1>1, <1>2, <2>1
  <2>3. ~(q < p)
    BY <1>1, <2>1, <2>2, SizesAssumption, Multiples
  <2>4. ~(p < q)
    BY <1>1, <2>1, <2>2, SizesAssumption, Multiples
  <2>5. p = q
    BY <1>1, <2>3, <2>4
  <2> QED BY <2>1, <2>2, <2>5
<1> QED BY <1>2, SizesAssumption

(* A line is put behind the others, and leaves those in the ring alone, or   *)
(* is counted.                                                               *)
LEMMA PutEffect ==
  ASSUME RingTypes, NEW l \in Line \cup {ErrLine}, Put(l), NEW b \in 0..head,
         head - tail + 1 <= Ring => head - b < Ring
  PROVE  \/ /\ head' = head /\ lost' = lost \cup {l} /\ \A p \in b..(head - 1) : At(p)' = At(p)
         \/ /\ head' = head + 1 /\ lost' = lost /\ head - b < Ring /\ head - tail < Ring
            /\ slots'[head % Ring] = l /\ \A p \in b..(head - 1) : At(p)' = At(p)
<1> USE DEF RingTypes
<1>1. CASE head - tail + 1 > Ring
  BY <1>1, SizesAssumption DEF Put, At
<1>2. CASE head - tail + 1 <= Ring
  <2>1. slots' = [slots EXCEPT ![head % Ring] = l] /\ head' = head + 1 /\ lost' = lost
    BY <1>2, SizesAssumption DEF Put
  <2>2. head % Ring \in 0..(Ring - 1)
    BY SizesAssumption
  <2>3. slots'[head % Ring] = l
    BY <2>1, <2>2
  <2>4. ASSUME NEW p \in b..(head - 1)
        PROVE  At(p)' = At(p)
    <3>1. p \in Nat /\ p < head /\ head - p < Ring
      BY <1>2, SizesAssumption
    <3>2. p % Ring # head % Ring /\ p % Ring \in 0..(Ring - 1)
      BY <3>1, Places
    <3> QED BY <2>1, <3>2 DEF At
  <2> QED BY <1>2, <2>1, <2>3, <2>4, SizesAssumption
<1> QED BY <1>1, <1>2, SizesAssumption

(* What lies in the ring is a line.                                          *)
LEMMA AtType ==
  ASSUME RingTypes, NEW i \in Nat
  PROVE  At(i) \in Line \cup {ErrLine}
<1>1. i % Ring \in 0..(Ring - 1)
  BY SizesAssumption
<1> QED BY <1>1 DEF RingTypes, At

-----------------------------------------------------------------------------
(* The flags stay Boolean.                                                   *)
LEMMA NextSwitchTypes ==
  ASSUME SdInv, [Next]_vars
  PROVE  SwitchTypes'
<1>0. SwitchTypes
  BY DEF SdInv, TypeOK
<1> USE DEF SwitchTypes
<1>1. CASE CheckLine
  BY Zenon, <1>0, <1>1
  DEF CheckLine, ringVars, fileVars, stateVars, mainVars, reqVars, historyVars, sniffVars
<1>2. CASE RefuseLine
  BY Zenon, <1>0, <1>2 DEF RefuseLine, ringVars, fileVars, stateVars, mainVars, reqVars, sniffVars
<1>3. CASE PutLine
  BY Zenon, <1>0, <1>3 DEF PutLine, Put, fileVars, stateVars, mainVars, reqVars, sniffVars
<1>4. CASE Mark
  BY Zenon, <1>0, <1>4 DEF Mark, fileVars, stateVars, mainVars, reqVars, historyVars, sniffVars
<1>5. CASE WriteBegin
  BY Zenon, <1>0, <1>5
  DEF WriteBegin, ringVars, fileVars, stateVars, mainVars, reqVars, historyVars, sniffVars
<1>6. CASE AppendOk
  BY Zenon, <1>0, <1>6 DEF AppendOk, ringVars, mainVars, reqVars, historyVars, sniffVars
<1>7. CASE AppendFails
  BY Zenon, <1>0, <1>7 DEF AppendFails, Put, mainVars, reqVars, sniffVars
<1>8. CASE Confirm
  BY Zenon, <1>0, <1>8 DEF Confirm, fileVars, stateVars, mainVars, reqVars, sniffVars
<1>9. CASE GiveUp
  BY Zenon, <1>0, <1>9 DEF GiveUp, ringVars, fileVars, mainVars, reqVars, historyVars, sniffVars
<1>10. CASE ClearRing
  BY Zenon, <1>0, <1>10 DEF ClearRing, fileVars, stateVars, mainVars, reqVars, sniffVars
<1>11. CASE CutAndClose
  BY Zenon, <1>0, <1>11 DEF CutAndClose, ringVars, reqVars, historyVars
<1>12. CASE TakeRequest
  BY Zenon, <1>0, <1>12
  DEF TakeRequest, ringVars, fileVars, stateVars, mainVars, reqVars, historyVars, sniffVars
<1>13. CASE \E ok \in BOOLEAN : DataOpened(ok)
  BY Zenon, <1>0, <1>13 DEF DataOpened, Done, mainVars, historyVars, sniffVars
<1>14. CASE DataClosed
  BY Zenon, <1>0, <1>14 DEF DataClosed, Done, ringVars, mainVars, historyVars, sniffVars
<1>15. CASE \E ok \in BOOLEAN : SniffOpened(ok)
  BY Zenon, <1>0, <1>15 DEF SniffOpened, Done, ringVars, fileVars, mainVars, historyVars, sniffVars
<1>16. CASE SniffLast
  BY Zenon, <1>0, <1>16 DEF SniffLast, ringVars, fileVars, mainVars, reqVars, historyVars, sniffVars
<1>17. CASE OpenData
  BY Zenon, <1>0, <1>17 DEF OpenData, Post, ringVars, fileVars, stateVars, sniffVars, historyVars
<1>18. CASE StartSniff
  BY Zenon, <1>0, <1>18 DEF StartSniff, ringVars, fileVars, stateVars, reqVars, historyVars
<1>19. CASE RefuseSniff
  BY Zenon, <1>0, <1>19
  DEF RefuseSniff, ringVars, fileVars, stateVars, sniffVars, reqVars, historyVars
<1>20. CASE OpenSniff
  BY Zenon, <1>0, <1>20 DEF OpenSniff, Post, ringVars, fileVars, stateVars, reqVars, historyVars
<1>21. CASE StopSniff
  BY Zenon, <1>0, <1>21 DEF StopSniff, ringVars, fileVars, stateVars, reqVars, historyVars
<1>22. CASE SniffStopped
  BY Zenon, <1>0, <1>22 DEF SniffStopped, ringVars, fileVars, stateVars, reqVars, historyVars
<1>23. CASE CloseData
  BY Zenon, <1>0, <1>23
  DEF CloseData, ringVars, fileVars, stateVars, sniffVars, reqVars, historyVars
<1>24. CASE Synced
  BY Zenon, <1>0, <1>24 DEF Synced, Post, ringVars, fileVars, stateVars, sniffVars, historyVars
<1>25. CASE NotSynced
  BY Zenon, <1>0, <1>25 DEF NotSynced, Post, fileVars, stateVars, sniffVars
<1>26. CASE Answered
  BY Zenon, <1>0, <1>26 DEF Answered, Told, ringVars, fileVars, stateVars, reqVars, historyVars
<1>27. CASE UNCHANGED vars
  BY Zenon, <1>0, <1>27
  DEF vars, ringVars, fileVars, stateVars, mainVars, reqVars, historyVars, sniffVars
<1> QED BY <1>1, <1>2, <1>3, <1>4, <1>5, <1>6, <1>7, <1>8, <1>9, <1>10, <1>11, <1>12, <1>13,
           <1>14, <1>15, <1>16, <1>17, <1>18, <1>19, <1>20, <1>21, <1>22, <1>23, <1>24, <1>25,
           <1>26, <1>27
        DEF Next, Producer, Writer, Main

(* The tasks keep the types of their places, jobs and requests.              *)
LEMMA NextTaskTypes ==
  ASSUME SdInv, [Next]_vars
  PROVE  TaskTypes'
<1>0. TaskTypes /\ head \in Nat /\ tail \in Nat /\ (producer.pc = "put" => producer.n < MaxLine)
  BY DEF SdInv, TypeOK, RingTypes, MarkInv
<1> USE DEF TaskTypes, Request
<1>1. CASE CheckLine \/ Mark
  BY <1>0, <1>1
  DEF CheckLine, ringVars, fileVars, stateVars, mainVars, reqVars, historyVars, sniffVars, Mark
<1>2. CASE RefuseLine \/ PutLine
  BY <1>0, <1>2, SizesAssumption
  DEF AfterLine, RefuseLine, ringVars, fileVars, stateVars, mainVars, reqVars, sniffVars,
      PutLine, Put
<1>3. CASE WriteBegin \/ AppendOk
  BY <1>0, <1>3
  DEF WriteBegin, ringVars, fileVars, stateVars, mainVars, reqVars, historyVars, sniffVars,
      AppendOk
<1>4. CASE AppendFails \/ Confirm \/ CutAndClose
  BY <1>0, <1>4, IdleType
  DEF AppendFails, Put, mainVars, reqVars, sniffVars, Confirm, fileVars, stateVars, CutAndClose,
      ringVars, historyVars
<1>5. CASE GiveUp \/ ClearRing \/ TakeRequest \/ SniffLast
  BY <1>0, <1>5
  DEF GiveUp, ringVars, fileVars, mainVars, reqVars, historyVars, sniffVars, ClearRing,
      stateVars, TakeRequest, SniffLast
<1>6. CASE (\E ok \in BOOLEAN : DataOpened(ok)) \/ DataClosed \/ (\E ok \in BOOLEAN :
            SniffOpened(ok))
  BY <1>0, <1>6, IdleType
  DEF DataOpened, Done, mainVars, historyVars, sniffVars, DataClosed, ringVars, SniffOpened,
      fileVars
<1>7. CASE OpenData \/ StartSniff \/ RefuseSniff
  BY <1>0, <1>7
  DEF OpenData, Post, ringVars, fileVars, stateVars, sniffVars, historyVars, StartSniff,
      reqVars, RefuseSniff
<1>8. CASE OpenSniff \/ StopSniff \/ SniffStopped
  BY <1>0, <1>8
  DEF OpenSniff, Post, ringVars, fileVars, stateVars, reqVars, historyVars, StopSniff,
      SniffStopped
<1>9. CASE CloseData \/ Synced \/ NotSynced \/ Answered
  BY <1>0, <1>9
  DEF CloseData, ringVars, fileVars, stateVars, sniffVars, reqVars, historyVars, Synced, Post,
      NotSynced, Answered, Told
<1>10. CASE UNCHANGED vars
  BY <1>0, <1>10 DEF vars, ringVars, fileVars, stateVars, mainVars, reqVars, historyVars, sniffVars
<1> QED BY <1>1, <1>2, <1>3, <1>4, <1>5, <1>6, <1>7, <1>8, <1>9, <1>10
        DEF Next, Producer, Writer, Main

(* Nothing is logged before the file is open, and it is opened once.         *)
LEMMA NextOpenInv ==
  ASSUME SdInv, [Next]_vars
  PROVE  OpenInv'
<1>0. /\ OpenInv
      /\ writer \in [pc : {"idle", "append", "confirm", "clear", "cut", "handle"},
                     t : Nat, h : Nat, job : Request \cup {NoReq}]
      /\ producer \in [pc : {"idle", "put", "mark"}, n : 0..MaxLine]
      /\ main \in [pc : {"boot", "wait", "run", "start", "finish", "stop", "sync", "parked"},
                   op : Request \cup {NoReq}]
  BY DEF SdInv, TypeOK, TaskTypes
<1> USE DEF OpenInv, NoReq
<1>1. CASE CheckLine \/ RefuseLine \/ PutLine \/ Mark
  BY <1>0, <1>1
  DEF CheckLine, ringVars, fileVars, stateVars, mainVars, reqVars, historyVars, sniffVars,
      RefuseLine, PutLine, Put, Mark
<1>2. CASE WriteBegin
  BY <1>0, <1>2
  DEF HasWork, WriteBegin, ringVars, fileVars, stateVars, mainVars, reqVars, historyVars,
      sniffVars
<1>3. CASE AppendOk
  BY <1>0, <1>3 DEF AppendOk, ringVars, mainVars, reqVars, historyVars, sniffVars
<1>4. CASE AppendFails \/ Confirm \/ CutAndClose
  BY <1>0, <1>4, IdleType
  DEF AppendFails, Put, mainVars, reqVars, sniffVars, Confirm, fileVars, stateVars, CutAndClose,
      ringVars, historyVars
<1>5. CASE GiveUp
  BY <1>0, <1>5 DEF GiveUp, ringVars, fileVars, mainVars, reqVars, historyVars, sniffVars
<1>6. CASE ClearRing
  BY <1>0, <1>6 DEF ClearRing, fileVars, stateVars, mainVars, reqVars, sniffVars
<1>7. CASE TakeRequest
  BY <1>0, <1>7
  DEF TakeRequest, ringVars, fileVars, stateVars, mainVars, reqVars, historyVars, sniffVars
<1>8. CASE SniffLast
  BY <1>0, <1>8 DEF SniffLast, ringVars, fileVars, mainVars, reqVars, historyVars, sniffVars
<1>9. CASE (\E ok \in BOOLEAN : DataOpened(ok)) \/ DataClosed \/ (\E ok \in BOOLEAN :
            SniffOpened(ok))
  BY <1>0, <1>9, IdleType
  DEF DataOpened, Done, mainVars, historyVars, sniffVars, DataClosed, ringVars, SniffOpened,
      fileVars
<1>10. CASE OpenData \/ StartSniff \/ RefuseSniff
  BY <1>0, <1>10
  DEF OpenData, Post, ringVars, fileVars, stateVars, sniffVars, historyVars, StartSniff,
      reqVars, RefuseSniff
<1>11. CASE OpenSniff \/ StopSniff \/ SniffStopped
  BY <1>0, <1>11
  DEF OpenSniff, Post, ringVars, fileVars, stateVars, reqVars, historyVars, StopSniff,
      SniffStopped
<1>12. CASE CloseData \/ Synced \/ NotSynced
  BY <1>0, <1>12
  DEF CloseData, ringVars, fileVars, stateVars, sniffVars, reqVars, historyVars, Synced, Post,
      NotSynced
<1>13. CASE Answered
  <2>1. UNCHANGED <<writer, producer, req, result, active, dataOpen, confirmed>> /\ main.pc = "wait" /\ main'.pc # "boot"
    BY <1>0, <1>13 DEF Answered, Told, reqVars, fileVars, stateVars, historyVars
  <2>2. ASSUME req = "data_open"
        PROVE  main.op = "data_open" /\ main'.pc = "run"
    BY <1>0, <1>13, <2>1, <2>2 DEF Answered, Told
  <2>3. ASSUME req = "data_open"
        PROVE  ~mid'
    <3>1. mid' = (result = "ok") /\ result # "ok"
      BY <1>0, <1>13, <2>2, <2>3 DEF Answered, Told
    <3>2. (result = "ok") = FALSE
      BY <3>1
    <3> QED BY <3>1, <3>2, Zenon
  <2> QED BY <1>0, <2>1, <2>2, <2>3
<1>14. CASE UNCHANGED vars
  BY <1>0, <1>14 DEF vars, ringVars, fileVars, stateVars, mainVars, reqVars, historyVars, sniffVars
<1> QED BY <1>1, <1>2, <1>3, <1>4, <1>5, <1>6, <1>7, <1>8, <1>9, <1>10, <1>11, <1>12, <1>13,
           <1>14
        DEF Next, Producer, Writer, Main

-----------------------------------------------------------------------------
(* A line that is put finds a place behind the write in work.                *)
LEMMA RoomForLine ==
  ASSUME RingTypes, RingInv, RoomInRing, TaskTypes
  PROVE  Base \in 0..head /\ (head - tail + 1 <= Ring => head - Base < Ring)
<1>1. writer.t \in Nat /\ head \in Nat /\ tail \in 0..head /\ Ring \in Nat
  BY SizesAssumption DEF TaskTypes, RingTypes
<1> QED BY <1>1 DEF RingInv, RoomInRing, Base

(* The write in work stays in the ring, which never holds more than it can.  *)
LEMMA NextRing ==
  ASSUME SdInv, [Next]_vars
  PROVE  /\ slots' \in [0..(Ring - 1) -> Line \cup {ErrLine}]
         /\ head' \in Nat /\ tail' \in 0..head' /\ head' - tail' <= Ring /\ RingInv'
<1> DEFINE Goal == /\ slots' \in [0..(Ring - 1) -> Line \cup {ErrLine}]
                   /\ head' \in Nat /\ tail' \in 0..head' /\ head' - tail' <= Ring /\ RingInv'
           Writing == {"append", "confirm"}
<1>0. /\ slots \in [0..(Ring - 1) -> Line \cup {ErrLine}]
      /\ head \in Nat /\ tail \in 0..head /\ head - tail <= Ring /\ RingInv /\ Ring \in Nat
      /\ writer \in [pc : {"idle", "append", "confirm", "clear", "cut", "handle"},
                     t : Nat, h : Nat, job : Request \cup {NoReq}]
  BY SizesAssumption DEF SdInv, TypeOK, RingTypes, TaskTypes
<1>a. RingTypes /\ TaskTypes
  BY DEF SdInv, TypeOK
<1>1. ASSUME UNCHANGED <<slots, head>>, tail' \in 0..head, head - tail' <= Ring,
             writer'.pc \notin Writing
      PROVE  Goal
  BY <1>0, <1>1 DEF RingInv, Base
<1>2. ASSUME UNCHANGED <<slots, head>>, tail' \in {tail, head}, UNCHANGED writer
      PROVE  Goal
  <2>1. CASE tail' = tail
    BY <1>0, <1>2, <2>1 DEF RingInv, Base
  <2>2. CASE tail' = head
    <3>1. writer.pc \in Writing => writer.t <= writer.h /\ writer.h <= head /\ head - writer.t <= Ring
      BY <1>0 DEF RingInv, Base
    <3> QED BY <1>0, <1>2, <2>2, <3>1 DEF RingInv, Base
  <2> QED BY <1>2, <2>1, <2>2
<1>3. CASE CheckLine \/ RefuseLine \/ Mark \/ SniffLast
  <2>1. UNCHANGED <<slots, head, tail, writer>>
    BY <1>3 DEF CheckLine, RefuseLine, Mark, SniffLast, ringVars
  <2> QED BY <1>2, <2>1
<1>4. CASE OpenData \/ StartSniff \/ RefuseSniff \/ OpenSniff \/ StopSniff \/ SniffStopped \/
            CloseData \/ Synced \/ NotSynced \/ Answered \/ UNCHANGED vars
  <2>1. UNCHANGED <<slots, head, writer>> /\ tail' \in {tail, head}
    BY <1>4
    DEF OpenData, StartSniff, RefuseSniff, OpenSniff, StopSniff, SniffStopped, CloseData, Synced,
        NotSynced, Answered, ringVars, vars
  <2> QED BY <1>2, <2>1
<1>5. CASE PutLine
  <2>1. producer.n + 1 \in Line
    BY <1>5, SizesAssumption DEF PutLine, SdInv, TypeOK, TaskTypes, MarkInv, Line
  <2>2. Put(producer.n + 1) /\ UNCHANGED <<tail, writer>>
    BY <1>5 DEF PutLine
  <2>3. slots' \in [0..(Ring - 1) -> Line \cup {ErrLine}]
    BY <1>0, <2>1, <2>2 DEF Put
  <2>4. \/ head' = head
        \/ head' = head + 1 /\ head - Base < Ring /\ head - tail < Ring
    BY <1>a, <1>5, <2>1, <2>2, RoomForLine, PutEffect DEF SdInv, PutLine
  <2> QED BY <1>0, <2>2, <2>3, <2>4 DEF RingInv, Base
<1>6. CASE AppendFails
  <2>1. Put(ErrLine) /\ UNCHANGED tail /\ writer'.pc = "idle"
    BY <1>6, IdleType DEF AppendFails
  <2>2. slots' \in [0..(Ring - 1) -> Line \cup {ErrLine}]
    BY <1>0, <2>1 DEF Put
  <2>3. head' = head \/ (head' = head + 1 /\ head - tail < Ring)
    BY <1>0, <1>a, <2>1, PutEffect
  <2> QED BY <1>0, <2>1, <2>2, <2>3 DEF RingInv, Base
<1>7. CASE WriteBegin
  <2>1. /\ UNCHANGED <<slots, head, tail>> /\ writer'.pc = "append"
        /\ writer'.t = tail /\ writer'.h = head
    BY <1>0, <1>7 DEF WriteBegin, ringVars
  <2> QED BY <1>0, <2>1 DEF RingInv, Base
<1>12. CASE AppendOk
  <2>1. /\ UNCHANGED <<slots, head, tail>> /\ writer.pc = "append" /\ writer'.pc = "confirm"
        /\ writer'.t = writer.t /\ writer'.h = writer.h
    BY <1>0, <1>12 DEF AppendOk, ringVars
  <2> QED BY <1>0, <2>1 DEF RingInv, Base
<1>8. CASE Confirm
  <2>1. UNCHANGED <<slots, head>> /\ tail' = writer.h /\ writer.pc = "confirm" /\ writer'.pc = "idle"
    BY <1>8, IdleType DEF Confirm
  <2>2. writer.t <= writer.h /\ writer.h <= head /\ head - writer.t <= Ring
    BY <1>0, <2>1 DEF RingInv, Base
  <2> QED BY <1>0, <1>1, <2>1, <2>2
<1>9. CASE GiveUp \/ ClearRing \/ CutAndClose \/ TakeRequest
  <2>1. UNCHANGED <<slots, head>> /\ tail' \in {tail, head} /\ writer'.pc \notin Writing
    BY <1>0, <1>9, IdleType DEF GiveUp, ClearRing, CutAndClose, TakeRequest, ringVars
  <2>2. tail' \in 0..head /\ head - tail' <= Ring
    <3>1. CASE tail' = tail
      BY <1>0, <3>1
    <3>2. CASE tail' = head
      BY <1>0, <3>2
    <3> QED BY <2>1, <3>1, <3>2
  <2> QED BY <1>1, <2>1, <2>2
<1>10. CASE \E ok \in BOOLEAN : DataOpened(ok)
  BY <1>0, <1>10, IdleType DEF DataOpened, Done, RingInv, Base
<1>11. CASE DataClosed \/ \E ok \in BOOLEAN : SniffOpened(ok)
  <2>1. UNCHANGED <<slots, head, tail>> /\ writer'.pc \notin Writing
    BY <1>11, IdleType DEF DataClosed, SniffOpened, Done, ringVars
  <2> QED BY <1>0, <1>1, <2>1
<1> QED BY <1>3, <1>4, <1>5, <1>6, <1>7, <1>8, <1>9, <1>10, <1>11, <1>12
        DEF Next, Producer, Writer, Main

(* A quotient of lines is the number of a record.                            *)
LEMMA RecordOf ==
  ASSUME NEW n \in 0..MaxLine, n > 0, n % PerRec = 0
  PROVE  /\ n \div PerRec \in Rec
         /\ LinesOf(n \div PerRec) \subseteq 1..n
<1>1. n \div PerRec \in Nat /\ (n \div PerRec) * PerRec <= n /\ n \div PerRec >= 1
  BY SizesAssumption
<1>2. n \div PerRec <= MaxLine \div PerRec /\ MaxLine \div PerRec \in Nat
  BY SizesAssumption
<1>3. n \div PerRec \in Rec
  BY <1>1, <1>2 DEF Rec
<1>4. ((n \div PerRec) - 1) * PerRec >= 0
  BY <1>1, SizesAssumption
<1>5. LinesOf(n \div PerRec) \subseteq 1..n
  <2> DEFINE a == ((n \div PerRec) - 1) * PerRec
             b == (n \div PerRec) * PerRec
  <2>1. a \in Int /\ b \in Int /\ a >= 0 /\ b <= n /\ n \in Nat
    BY <1>1, <1>4, SizesAssumption
  <2>2. LinesOf(n \div PerRec) = (a + 1)..b
    BY DEF LinesOf
  <2> HIDE DEF a, b
  <2> QED BY <2>1, <2>2
<1> QED BY <1>3, <1>5

(* The table of marks keeps to its size.                                     *)
LEMMA NextMarkTypes ==
  ASSUME SdInv, [Next]_vars
  PROVE  marks' \in Seq([off : Nat, rec : Rec]) /\ Len(marks') <= Marks
<1>0. /\ marks \in Seq([off : Nat, rec : Rec]) /\ Len(marks) <= Marks /\ Len(marks) \in Nat
      /\ <<>> \in Seq([off : Nat, rec : Rec]) /\ Len(<<>>) = 0 /\ Marks \in Nat \ {0}
  BY EmptySeq, LenProperties, SizesAssumption DEF SdInv, TypeOK, RingTypes
<1>1. CASE Mark
  <2>1. CASE marks' = marks
    BY <1>0, <2>1
  <2>2. CASE marks' = Append(DropOldestMark(marks), [off |-> head, rec |-> producer.n \div PerRec])
    <3>1. head \in Nat /\ producer.n \div PerRec \in Rec
      BY <1>1, RecordOf DEF SdInv, TypeOK, RingTypes, TaskTypes, MarkInv, Mark
    <3>2. [off |-> head, rec |-> producer.n \div PerRec] \in [off : Nat, rec : Rec]
      BY <3>1
    <3>3. DropOldestMark(marks) \in Seq([off : Nat, rec : Rec]) /\ Len(DropOldestMark(marks)) < Marks
      <4>1. CASE Len(marks) >= Marks
        <5>1. marks # <<>>
          BY <1>0, <4>1
        <5>2. Tail(marks) \in Seq([off : Nat, rec : Rec]) /\ Len(Tail(marks)) = Len(marks) - 1
          BY <1>0, <5>1, HeadTailProperties
        <5> QED BY <1>0, <4>1, <5>2 DEF DropOldestMark
      <4>2. CASE Len(marks) < Marks
        BY <1>0, <4>2 DEF DropOldestMark
      <4> QED BY <1>0, <4>1, <4>2
    <3>4. \A s \in Seq([off : Nat, rec : Rec]), m \in [off : Nat, rec : Rec] :
            Append(s, m) \in Seq([off : Nat, rec : Rec]) /\ Len(Append(s, m)) = Len(s) + 1 /\ Len(s) \in Nat
      BY AppendProperties, LenProperties
    <3>5. marks' \in Seq([off : Nat, rec : Rec]) /\ Len(marks') = Len(DropOldestMark(marks)) + 1
      BY <2>2, <3>2, <3>3, <3>4
    <3> QED BY <1>0, <3>3, <3>4, <3>5
  <2> QED BY <1>1, <2>1, <2>2 DEF Mark
<1>2. CASE Confirm
  <2>1. PICK k \in 0..Len(marks) : marks' = SubSeq(marks, k + 1, Len(marks))
    BY <1>2 DEF Confirm
  <2>2. \A i \in (k + 1)..Len(marks) : marks[i] \in [off : Nat, rec : Rec]
    <3>1. \A i \in 1..Len(marks) : marks[i] \in [off : Nat, rec : Rec]
      BY <1>0, ElementOfSeq
    <3> QED BY <1>0, <3>1
  <2>3. SubSeq(marks, k + 1, Len(marks)) \in Seq([off : Nat, rec : Rec])
    BY <1>0, <2>2, SubSeqProperties
  <2>4. Len(SubSeq(marks, k + 1, Len(marks))) = IF k + 1 <= Len(marks) THEN Len(marks) - (k + 1) + 1 ELSE 0
    BY <1>0, <2>2, SubSeqProperties
  <2> QED BY <1>0, <2>1, <2>3, <2>4
<1>3. CASE ClearRing \/ \E ok \in BOOLEAN : DataOpened(ok)
  <2>1. marks' = <<>>
    BY <1>3 DEF ClearRing, DataOpened
  <2> QED BY <1>0, <2>1
<1>4. CASE CheckLine \/ RefuseLine \/ PutLine \/ WriteBegin \/ AppendOk \/ AppendFails \/ GiveUp \/ CutAndClose \/
            TakeRequest \/ DataClosed \/ SniffLast \/ (\E ok \in BOOLEAN : SniffOpened(ok)) \/
            OpenData \/ CloseData \/ Synced \/ NotSynced \/ Answered \/ StartSniff \/
            RefuseSniff \/ OpenSniff \/ StopSniff \/ SniffStopped \/ UNCHANGED vars
  BY <1>0, <1>4
  DEF CheckLine, RefuseLine, PutLine, WriteBegin, AppendOk, AppendFails, GiveUp, CutAndClose,
      TakeRequest, DataClosed, SniffLast, SniffOpened, OpenData, CloseData, Synced, NotSynced,
      Answered, StartSniff, RefuseSniff, OpenSniff, StopSniff, SniffStopped, vars, ringVars
<1> QED BY <1>1, <1>2, <1>3, <1>4 DEF Next, Producer, Writer, Main

-----------------------------------------------------------------------------
Text == Line \cup {ErrLine}

(* What is written is what lies in the ring.                                 *)
LEMMA ChunkProperties ==
  ASSUME RingTypes, NEW a \in Nat, NEW n \in Nat
  PROVE  /\ Chunk(a, a + n) \in Seq(Text) /\ Len(Chunk(a, a + n)) = n
         /\ \A k \in 1..n : Chunk(a, a + n)[k] = At(a + k - 1)
<1>1. \A k \in 1..n : At(a + k - 1) \in Text
  BY AtType DEF Text
<1>2. Chunk(a, a + n) = [k \in 1..n |-> At(a + k - 1)]
  BY DEF Chunk, At
<1>3. Chunk(a, a + n) \in [1..n -> Text]
  BY <1>1, <1>2
<1>4. \A k \in 1..n : Chunk(a, a + n)[k] = At(a + k - 1)
  BY <1>2
<1> QED BY <1>3, <1>4

(* A write goes behind the confirmed part of the file.                       *)
LEMMA AppendedProperties ==
  ASSUME FileTypes, fd => good = Len(card), NEW c \in Seq(Text)
  PROVE  /\ Appended(c) \in Seq(Text) /\ Len(Appended(c)) = good + Len(c)
         /\ \A i \in 1..good : Appended(c)[i] = card[i]
         /\ \A k \in 1..Len(c) : Appended(c)[good + k] = c[k]
<1>0. card \in Seq(Text) /\ good \in 0..Len(card) /\ Len(card) \in Nat /\ Len(c) \in Nat
  BY LenProperties DEF FileTypes, Text
<1>1. /\ Good(card) \in Seq(Text) /\ Len(Good(card)) = good
      /\ \A i \in 1..good : Good(card)[i] = card[i]
  <2>1. \A i \in 1..good : card[i] \in Text
    <3>1. \A i \in 1..Len(card) : card[i] \in Text
      BY <1>0, ElementOfSeq
    <3> QED BY <1>0, <3>1
  <2>2. Good(card) \in Seq(Text)
    BY <1>0, <2>1, SubSeqProperties DEF Good
  <2>3. Len(Good(card)) = IF 1 <= good THEN good - 1 + 1 ELSE 0
    BY <1>0, <2>1, SubSeqProperties DEF Good
  <2>4. \A i \in 1..(good - 1 + 1) : Good(card)[i] = card[1 + i - 1]
    BY <1>0, <2>1, SubSeqProperties DEF Good
  <2> QED BY <1>0, <2>2, <2>3, <2>4
<1>2. ASSUME NEW f \in Seq(Text), Len(f) = good, \A i \in 1..good : f[i] = card[i], Appended(c) = f \o c
      PROVE  /\ Appended(c) \in Seq(Text) /\ Len(Appended(c)) = good + Len(c)
             /\ \A i \in 1..good : Appended(c)[i] = card[i]
             /\ \A k \in 1..Len(c) : Appended(c)[good + k] = c[k]
  <2>1. /\ f \o c \in Seq(Text) /\ Len(f \o c) = Len(f) + Len(c)
        /\ \A i \in 1..(Len(f) + Len(c)) : (f \o c)[i] = IF i <= Len(f) THEN f[i] ELSE c[i - Len(f)]
    BY <1>2, ConcatProperties
  <2> QED BY SMTT(60), <1>0, <1>2, <2>1
<1>3. CASE fd
  BY <1>0, <1>2, <1>3 DEF Appended
<1>4. CASE ~fd
  BY <1>1, <1>2, <1>4 DEF Appended
<1> QED BY <1>3, <1>4

(* The confirmed part of the file stays and only grows, by what was written. *)
LEMMA NextFile ==
  ASSUME SdInv, [Next]_vars, ~\E ok \in BOOLEAN : DataOpened(ok)
  PROVE  /\ FileTypes' /\ (fd' => good' = Len(card')) /\ \A i \in 1..good : card'[i] = card[i]
         /\ \/ good' = good
            \/ /\ AppendOk /\ good' = good + (writer.h - writer.t)
               /\ \A k \in 1..(writer.h - writer.t) : card'[good + k] = At(writer.t + k - 1)
<1> DEFINE Same == /\ FileTypes' /\ (fd' => good' = Len(card'))
                   /\ \A i \in 1..good : card'[i] = card[i]
           Written == /\ AppendOk /\ good' = good + (writer.h - writer.t)
                      /\ \A k \in 1..(writer.h - writer.t) : card'[good + k] = At(writer.t + k - 1)
<1>0. /\ RingTypes /\ FileTypes /\ (fd => good = Len(card))
      /\ card \in Seq(Text) /\ good \in 0..Len(card) /\ Len(card) \in Nat
      /\ writer.t \in Nat /\ writer.h \in Nat
  BY LenProperties DEF SdInv, TypeOK, TaskTypes, FileTypes, Text, StreamInv, FileIsStream
<1>a. \A k \in 0..(writer.h - writer.t) :
        LET c == Chunk(writer.t, writer.t + k)
        IN  /\ Appended(c) \in Seq(Text) /\ Len(Appended(c)) = good + k
            /\ \A i \in 1..good : Appended(c)[i] = card[i]
            /\ \A i \in 1..k : Appended(c)[good + i] = At(writer.t + i - 1)
  <2> SUFFICES ASSUME NEW k \in 0..(writer.h - writer.t)
               PROVE  LET c == Chunk(writer.t, writer.t + k)
                      IN  /\ Appended(c) \in Seq(Text) /\ Len(Appended(c)) = good + k
                          /\ \A i \in 1..good : Appended(c)[i] = card[i]
                          /\ \A i \in 1..k : Appended(c)[good + i] = At(writer.t + i - 1)
    OBVIOUS
  <2>1. k \in Nat /\ writer.t + k \in Nat /\ writer.t + k - writer.t = k /\ writer.t <= writer.t + k
    BY <1>0
  <2>2. /\ Chunk(writer.t, writer.t + k) \in Seq(Text) /\ Len(Chunk(writer.t, writer.t + k)) = k
        /\ \A i \in 1..k : Chunk(writer.t, writer.t + k)[i] = At(writer.t + i - 1)
    BY <1>0, <2>1, ChunkProperties
  <2>3. PICK c \in Seq(Text) : c = Chunk(writer.t, writer.t + k)
    BY <2>2
  <2>4. /\ Appended(c) \in Seq(Text) /\ Len(Appended(c)) = good + Len(c)
        /\ \A i \in 1..good : Appended(c)[i] = card[i]
        /\ \A i \in 1..Len(c) : Appended(c)[good + i] = c[i]
    BY <1>0, AppendedProperties
  <2> QED BY <2>1, <2>2, <2>3, <2>4
<1>1. CASE AppendOk
  <2>1. /\ card' = Appended(Chunk(writer.t, writer.h)) /\ good' = good + (writer.h - writer.t)
        /\ writer.t <= writer.h
    BY <1>1 DEF AppendOk, SdInv, RingInv
  <2>2. PICK k \in 0..(writer.h - writer.t) : k = writer.h - writer.t /\ writer.t + k = writer.h
    BY <1>0, <2>1
  <2>3. /\ card' \in Seq(Text) /\ Len(card') = good + k
        /\ \A i \in 1..good : card'[i] = card[i]
        /\ \A i \in 1..k : card'[good + i] = At(writer.t + i - 1)
    BY <1>a, <2>1, <2>2
  <2>4. Same
    BY <1>0, <2>1, <2>2, <2>3 DEF FileTypes, Text
  <2>5. Written
    BY <1>1, <2>1, <2>2, <2>3
  <2> QED BY <2>4, <2>5
<1>2. CASE AppendFails
  <2>1. good' = good /\ ~fd'
    BY <1>2 DEF AppendFails
  <2>2. CASE card' = card
    BY <1>0, <2>1, <2>2 DEF FileTypes
  <2>3. ASSUME NEW k \in 0..(writer.h - writer.t), card' = Appended(Chunk(writer.t, writer.t + k))
        PROVE  Same
    <3>1. /\ card' \in Seq(Text) /\ Len(card') = good + k /\ k \in Nat
          /\ \A i \in 1..good : card'[i] = card[i]
      BY <1>0, <1>a, <2>3
    <3> QED BY <1>0, <2>1, <3>1 DEF FileTypes, Text
  <2> QED BY <1>2, <2>1, <2>2, <2>3 DEF AppendFails
<1>3. CASE CutAndClose
  <2>1. good' = good /\ ~fd'
    BY <1>3 DEF CutAndClose
  <2>2. CASE card' = card
    BY <1>0, <2>1, <2>2 DEF FileTypes
  <2>3. CASE card' = Good(card)
    <3>1. /\ \A i \in 1..Len(card) : card[i] \in Text
      BY <1>0, ElementOfSeq
    <3>2. \A i \in 1..good : card[i] \in Text
      BY <1>0, <3>1
    <3>3. card' \in Seq(Text)
      BY <1>0, <2>3, <3>2, SubSeqProperties DEF Good
    <3>4. Len(card') = IF 1 <= good THEN good - 1 + 1 ELSE 0
      BY <1>0, <2>3, <3>2, SubSeqProperties DEF Good
    <3>5. \A i \in 1..(good - 1 + 1) : card'[i] = card[1 + i - 1]
      BY <1>0, <2>3, <3>2, SubSeqProperties DEF Good
    <3> QED BY <1>0, <2>1, <3>3, <3>4, <3>5 DEF FileTypes, Text
  <2> QED BY <1>3, <2>1, <2>2, <2>3 DEF CutAndClose
<1>4. CASE DataClosed
  BY <1>0, <1>4 DEF DataClosed, FileTypes
<1>5. CASE CheckLine \/ RefuseLine \/ PutLine \/ Mark \/ WriteBegin \/ Confirm \/ GiveUp \/
            ClearRing \/ TakeRequest \/ SniffLast \/ (\E ok \in BOOLEAN : SniffOpened(ok)) \/
            OpenData \/ CloseData \/ Synced \/ NotSynced \/ Answered \/ StartSniff \/
            RefuseSniff \/ OpenSniff \/ StopSniff \/ SniffStopped \/ UNCHANGED vars
  <2>1. UNCHANGED <<fd, card, good>>
    BY <1>5
    DEF CheckLine, RefuseLine, PutLine, Mark, WriteBegin, Confirm, GiveUp, ClearRing, TakeRequest,
        SniffLast, SniffOpened, OpenData, CloseData, Synced, NotSynced, Answered, StartSniff,
        RefuseSniff, OpenSniff, StopSniff, SniffStopped, vars, fileVars
  <2> QED BY <1>0, <2>1 DEF FileTypes
<1> QED BY <1>1, <1>2, <1>3, <1>4, <1>5 DEF Next, Producer, Writer, Main

-----------------------------------------------------------------------------
(* From one place of the ring on: the lines stay there, if they have not     *)
(* left for the card or the count of the lost.                               *)
InPlace(from, to) ==
  \A p \in from..(head - 1) :
    (p >= to => At(p)' = At(p)) /\ (p >= to \/ At(p) \in Saved' \cup lost')
Kept ==
  /\ lost \subseteq lost' /\ head <= head' /\ producer.n <= producer'.n
  /\ InPlace(Base, Base') /\ InPlace(tail, tail')

(* What is on the card or counted stays so; what lies in the ring stays in   *)
(* it, or is on the card or counted.                                         *)
LEMMA NextKept ==
  ASSUME SdInv, [Next]_vars, ~\E ok \in BOOLEAN : DataOpened(ok)
  PROVE  Saved \subseteq Saved' /\ Kept
<1>0. /\ RingTypes /\ TaskTypes /\ RingInv /\ GivenInv
      /\ head \in Nat /\ tail \in 0..head /\ Base \in 0..head /\ Base <= tail
      /\ writer.t \in Nat /\ writer.h \in Nat /\ producer.n \in Nat
      /\ writer \in [pc : {"idle", "append", "confirm", "clear", "cut", "handle"},
                     t : Nat, h : Nat, job : Request \cup {NoReq}]
  BY DEF SdInv, TypeOK, RingTypes, TaskTypes, RingInv, Base
<1>a. Saved \subseteq Saved'
  <2>1. good \in Nat /\ good' \in Nat /\ good <= good' /\ \A i \in 1..good : card'[i] = card[i]
    <3>1. good \in Nat /\ (AppendOk => writer.h - writer.t \in Nat)
      BY <1>0, LenProperties DEF SdInv, TypeOK, FileTypes, AppendOk, RingInv
    <3>2. good' = good \/ (AppendOk /\ good' = good + (writer.h - writer.t))
      BY NextFile
    <3>3. \A i \in 1..good : card'[i] = card[i]
      BY NextFile
    <3> QED BY <3>1, <3>2, <3>3
  <2> QED BY <2>1 DEF Saved
<1>b. SUFFICES Kept
  BY <1>a
<1>1. ASSUME UNCHANGED <<slots, head>>, lost' = lost \cup InRing, tail' = head,
             Base' = Base \/ (Base = tail /\ Base' = head), producer' = producer
      PROVE  Kept
  <2>1. \A p \in tail..(head - 1) : At(p) \in lost'
    BY <1>1 DEF InRing, At
  <2>2. \A p \in Base..(head - 1) : At(p)' = At(p)
    BY <1>1 DEF At
  <2> QED BY <1>0, <1>1, <2>1, <2>2 DEF Kept, InPlace
<1>2. ASSUME UNCHANGED <<slots, head>>, tail' = tail, lost \subseteq lost', producer.n <= producer'.n, Base' = Base
      PROVE  Kept
  <2>1. \A p \in Base..(head - 1) : At(p)' = At(p)
    BY <1>2 DEF At
  <2> QED BY <1>0, <1>2, <2>1 DEF Kept, InPlace
<1>3. CASE CheckLine \/ RefuseLine \/ Mark \/ SniffLast
  <2>1. UNCHANGED <<slots, head, tail, writer>> /\ lost \subseteq lost' /\ producer.n <= producer'.n
    BY <1>0, <1>3 DEF TaskTypes, CheckLine, RefuseLine, Mark, SniffLast, ringVars, historyVars
  <2>2. Base' = Base
    BY <2>1 DEF Base
  <2> QED BY <1>2, <2>1, <2>2
<1>4. CASE OpenData \/ StartSniff \/ RefuseSniff \/ OpenSniff \/ StopSniff \/ SniffStopped \/
            CloseData \/ Synced \/ Answered \/ UNCHANGED vars
  <2>1. UNCHANGED <<slots, head, tail, writer, lost, producer>>
    BY <1>4
    DEF OpenData, StartSniff, RefuseSniff, OpenSniff, StopSniff, SniffStopped, CloseData, Synced,
        Answered, ringVars, historyVars, vars
  <2>2. Base' = Base
    BY <2>1 DEF Base
  <2> QED BY <1>0, <1>2, <2>1, <2>2
<1>5. CASE NotSynced
  <2>1. UNCHANGED <<slots, head, writer, producer>> /\ tail' = head /\ lost' = lost \cup InRing
    BY <1>5 DEF NotSynced
  <2>2. Base' = Base \/ (Base = tail /\ Base' = head)
    BY <2>1 DEF Base
  <2> QED BY <1>1, <2>1, <2>2
<1>6. CASE PutLine
  <2>1. producer.n + 1 \in Line
    BY <1>6, SizesAssumption DEF PutLine, SdInv, TypeOK, TaskTypes, MarkInv, Line
  <2>2. Put(producer.n + 1) /\ UNCHANGED <<tail, writer>> /\ producer'.n = producer.n + 1
    BY <1>0, <1>6 DEF PutLine
  <2>3. /\ lost \subseteq lost' /\ head <= head' /\ \A p \in Base..(head - 1) : At(p)' = At(p)
    BY <1>0, <1>6, <2>1, <2>2, RoomForLine, PutEffect DEF PutLine
  <2>4. Base' = Base
    BY <2>2 DEF Base
  <2> QED BY <1>0, <2>2, <2>3, <2>4 DEF Kept, InPlace
<1>7. CASE WriteBegin \/ AppendOk
  <2>1. UNCHANGED <<slots, head, tail, lost, producer>>
    BY <1>7 DEF WriteBegin, AppendOk, ringVars, historyVars
  <2>2. Base' = Base
    BY <1>0, <1>7, <2>1 DEF WriteBegin, AppendOk, Base
  <2> QED BY <1>0, <1>2, <2>1, <2>2
<1>8. CASE AppendFails
  <2>1. Put(ErrLine) /\ UNCHANGED <<tail, producer>> /\ Base' = tail /\ writer.pc = "append"
    BY <1>8, IdleType DEF AppendFails, Base
  <2>2. /\ lost \subseteq lost' /\ head <= head' /\ \A p \in tail..(head - 1) : At(p)' = At(p)
    <3>1. ErrLine \in Line \cup {ErrLine} /\ tail \in 0..head
          /\ (head - tail + 1 <= Ring => head - tail < Ring)
      BY <1>0, SizesAssumption
    <3> QED BY <1>0, <2>1, <3>1, PutEffect
  <2>3. \A p \in Base..(tail - 1) : At(p) \in lost
    BY <1>0, <2>1 DEF GivenInv, Ringed, Base
  <2>4. \A p \in Base..(head - 1) : p >= tail \/ At(p) \in lost'
    BY <1>0, <2>2, <2>3
  <2> QED BY <1>0, <2>1, <2>2, <2>4 DEF Kept, InPlace
<1>9. CASE Confirm
  <2>1. /\ UNCHANGED <<slots, head, lost, producer>> /\ tail' = writer.h /\ Base' = writer.h
        /\ Base = writer.t /\ writer.pc = "confirm" /\ writer.h <= head
    BY <1>0, <1>9, IdleType DEF Confirm, Base, RingInv
  <2>2. \A p \in Base..(writer.h - 1) : At(p) \in Saved'
    BY <1>0, <1>a, <2>1 DEF GivenInv, Ringed
  <2>3. \A p \in Base..(head - 1) : At(p)' = At(p)
    BY <2>1 DEF At
  <2> QED BY <1>0, <2>1, <2>2, <2>3 DEF Kept, InPlace
<1>10. CASE ClearRing
  <2>1. /\ UNCHANGED <<slots, head, producer>> /\ tail' = head /\ lost' = lost \cup InRing
        /\ Base = tail /\ Base' = head
    BY <1>0, <1>10 DEF ClearRing, Base
  <2> QED BY <1>1, <2>1
<1>11. CASE GiveUp \/ CutAndClose \/ TakeRequest \/ DataClosed \/ \E ok \in BOOLEAN : SniffOpened(ok)
  <2>1. UNCHANGED <<slots, head, tail, lost, producer>>
    BY <1>11 DEF GiveUp, CutAndClose, TakeRequest, DataClosed, SniffOpened, ringVars, historyVars
  <2>2. Base' = Base
    BY <1>0, <1>11, <2>1, IdleType
    DEF GiveUp, CutAndClose, TakeRequest, DataClosed, SniffOpened, Done, Base
  <2> QED BY <1>0, <1>2, <2>1, <2>2
<1> QED BY <1>3, <1>4, <1>5, <1>6, <1>7, <1>8, <1>9, <1>10, <1>11 DEF Next, Producer, Writer, Main

(* A line that is accounted for stays so.                                    *)
LEMMA NextGiven ==
  ASSUME SdInv, [Next]_vars, ~\E ok \in BOOLEAN : DataOpened(ok)
  PROVE  GivenInv'
<1>0. /\ RingTypes /\ TaskTypes /\ RingInv /\ GivenInv /\ LinesAccounted
      /\ head \in Nat /\ tail \in 0..head /\ producer.n \in Nat
      /\ writer.t \in Nat /\ writer.h \in Nat
      /\ writer \in [pc : {"idle", "append", "confirm", "clear", "cut", "handle"},
                     t : Nat, h : Nat, job : Request \cup {NoReq}]
  BY DEF SdInv, TypeOK, RingTypes, TaskTypes, GivenInv
<1>a. Saved \subseteq Saved' /\ lost \subseteq lost'
  BY NextKept DEF Kept
<1>b. head' \in Nat /\ tail' \in 0..head'
  BY NextRing
<1>c. InRing \subseteq Saved' \cup InRing' \cup lost'
  <2> SUFFICES ASSUME NEW p \in tail..(head - 1)
               PROVE  slots[p % Ring] \in Saved' \cup InRing' \cup lost'
    BY DEF InRing
  <2>1. (p >= tail' => At(p)' = At(p)) /\ (p >= tail' \/ At(p) \in Saved' \cup lost')
    BY NextKept DEF Kept, InPlace
  <2>2. head <= head'
    BY NextKept DEF Kept
  <2>3. ASSUME p >= tail', slots'[p % Ring] = slots[p % Ring]
        PROVE  slots[p % Ring] \in InRing'
    <3>1. p \in tail'..(head' - 1)
      BY <1>0, <1>b, <2>2, <2>3
    <3> QED BY <2>3, <3>1 DEF InRing
  <2> QED BY <2>1, <2>3 DEF At
<1>1. LinesAccounted'
  <2>1. CASE PutLine
    <3>1. producer.n + 1 \in Line
      BY <2>1, SizesAssumption DEF PutLine, SdInv, TypeOK, TaskTypes, MarkInv, Line
    <3>2. /\ Put(producer.n + 1) /\ UNCHANGED <<tail, writer, dataOpen>>
          /\ producer'.n = producer.n + 1
      BY <1>0, <2>1 DEF PutLine, stateVars
    <3>3. \/ lost' = lost \cup {producer.n + 1}
          \/ head' = head + 1 /\ slots'[head % Ring] = producer.n + 1
      BY <1>0, <2>1, <3>1, <3>2, RoomForLine, PutEffect DEF PutLine
    <3>4. producer.n + 1 \in InRing' \cup lost'
      <4>1. CASE lost' = lost \cup {producer.n + 1}
        BY <4>1
      <4>2. CASE head' = head + 1 /\ slots'[head % Ring] = producer.n + 1
        <5>1. head \in tail'..(head' - 1)
          BY <1>0, <3>2, <4>2
        <5> QED BY <4>2, <5>1 DEF InRing
      <4> QED BY <3>3, <4>1, <4>2
    <3>5. 1..(producer.n + 1) = (1..producer.n) \cup {producer.n + 1}
      BY <1>0
    <3> QED BY <1>0, <1>a, <1>c, <3>2, <3>4, <3>5 DEF LinesAccounted
  <2>2. CASE RefuseLine
    <3>1. /\ producer'.n = producer.n + 1 /\ dataOpen' = dataOpen
          /\ (dataOpen => producer.n + 1 \in lost')
      BY <1>0, <2>2 DEF RefuseLine, stateVars
    <3>2. 1..(producer.n + 1) = (1..producer.n) \cup {producer.n + 1}
      BY <1>0
    <3> QED BY <1>0, <1>a, <1>c, <3>1, <3>2 DEF LinesAccounted
  <2>3. ASSUME ~PutLine, ~RefuseLine
        PROVE  producer'.n = producer.n /\ (dataOpen' => dataOpen)
    <3>1. dataOpen' => dataOpen
      BY <2>3, Zenon
      DEF Next, Producer, Writer, Main, CheckLine, Mark, WriteBegin, AppendOk, AppendFails, Confirm,
          GiveUp, ClearRing, CutAndClose, TakeRequest, DataClosed, SniffLast, SniffOpened, OpenData,
          CloseData, Synced, NotSynced, Answered, StartSniff, RefuseSniff, OpenSniff, StopSniff,
          SniffStopped, vars, stateVars
    <3>2. CASE CheckLine \/ Mark
      BY <1>0, <3>1, <3>2 DEF TaskTypes, CheckLine, Mark
    <3>3. ASSUME ~(CheckLine \/ Mark)
          PROVE  producer' = producer
      BY <2>3, <3>3, Zenon
      DEF Next, Producer, Writer, Main, WriteBegin, AppendOk, AppendFails, Confirm, GiveUp,
          ClearRing, CutAndClose, TakeRequest, DataClosed, SniffLast, SniffOpened, OpenData,
          CloseData, Synced, NotSynced, Answered, StartSniff, RefuseSniff, OpenSniff, StopSniff,
          SniffStopped, vars
    <3> QED BY <3>1, <3>2, <3>3
  <2> QED BY <1>0, <1>a, <1>c, <2>1, <2>2, <2>3 DEF LinesAccounted
<1>2. ASSUME writer'.pc = "append"
      PROVE  Ringed(writer.t, tail)' \subseteq lost'
  <2>1. CASE WriteBegin
    BY <1>0, <2>1 DEF WriteBegin, Ringed, ringVars
  <2>2. ASSUME ~WriteBegin
        PROVE  writer.pc = "append" /\ writer'.t = writer.t /\ writer' = writer
    BY <1>0, <1>2, <2>2, IdleType
    DEF Next, Producer, Writer, Main, CheckLine, RefuseLine, PutLine, Mark, AppendOk, AppendFails,
        Confirm, GiveUp, ClearRing, CutAndClose, TakeRequest, DataClosed, SniffLast, SniffOpened,
        OpenData, CloseData, Synced, NotSynced, Answered, StartSniff, RefuseSniff, OpenSniff,
        StopSniff, SniffStopped, vars, Done
  <2>3. ASSUME ~WriteBegin
        PROVE  \A p \in writer.t..(tail - 1) : At(p)' \in lost'
    <3>1. Base = writer.t /\ Base' = writer.t
      BY <2>2, <2>3 DEF Base
    <3>2. \A p \in writer.t..(head - 1) : At(p)' = At(p)
      BY <1>0, <3>1, NextKept DEF Kept, InPlace
    <3>3. \A p \in writer.t..(tail - 1) : At(p) \in lost
      BY <2>2, <2>3, <1>0 DEF GivenInv, Ringed
    <3> QED BY <1>0, <1>a, <3>2, <3>3
  <2>4. CASE NotSynced
    <3>1. UNCHANGED <<slots, head, writer>> /\ tail' = head /\ lost' = lost \cup InRing /\ ~WriteBegin
      BY <1>2, <2>4 DEF NotSynced, WriteBegin
    <3>2. \A p \in tail..(head - 1) : At(p)' \in lost'
      BY <3>1 DEF InRing, At
    <3>3. \A p \in writer.t..(head - 1) : At(p)' \in lost'
      BY <1>0, <2>3, <3>1, <3>2
    <3> QED BY <3>1, <3>3 DEF Ringed, At
  <2>5. ASSUME ~WriteBegin, ~NotSynced
        PROVE  tail' = tail
    BY <1>0, <1>2, <2>2, <2>5
    DEF Next, Producer, Writer, Main, CheckLine, RefuseLine, PutLine, Mark, AppendOk, AppendFails,
        Confirm, GiveUp, ClearRing, CutAndClose, TakeRequest, DataClosed, SniffLast, SniffOpened,
        OpenData, CloseData, Synced, Answered, StartSniff, RefuseSniff, OpenSniff,
        StopSniff, SniffStopped, vars, Done, ringVars
  <2> QED BY <2>1, <2>2, <2>3, <2>4, <2>5 DEF Ringed, At
<1>3. ASSUME writer'.pc = "confirm"
      PROVE  Ringed(writer.t, writer.h)' \subseteq Saved'
  <2>1. CASE AppendOk
    <3>1. /\ UNCHANGED slots /\ writer'.t = writer.t /\ writer'.h = writer.h
          /\ good' = good + (writer.h - writer.t) /\ writer.h - writer.t \in Nat /\ good \in Nat
      BY <1>0, <2>1, LenProperties DEF AppendOk, ringVars, RingInv, SdInv, TypeOK, FileTypes
    <3>2. \A k \in 1..(writer.h - writer.t) : card'[good + k] = At(writer.t + k - 1)
      <4>1. writer.h - writer.t = 0 \/ good' # good
        BY <3>1
      <4> QED BY <4>1, NextFile
    <3>3. ASSUME NEW p \in writer.t..(writer.h - 1)
          PROVE  slots[p % Ring] \in Saved'
      <4>1. PICK k \in 1..(writer.h - writer.t) : k = p - writer.t + 1 /\ writer.t + k - 1 = p
        BY <1>0, <3>1
      <4>2. card'[good + k] = slots[p % Ring] /\ good + k \in 1..good'
        BY <3>1, <3>2, <4>1 DEF At
      <4> QED BY <4>2 DEF Saved
    <3> QED BY <3>1, <3>3 DEF Ringed, At
  <2>2. ASSUME ~AppendOk
        PROVE  writer.pc = "confirm" /\ writer' = writer
    BY <1>0, <1>3, <2>2, IdleType
    DEF Next, Producer, Writer, Main, CheckLine, RefuseLine, PutLine, Mark, WriteBegin, AppendFails,
        Confirm, GiveUp, ClearRing, CutAndClose, TakeRequest, DataClosed, SniffLast, SniffOpened,
        OpenData, CloseData, Synced, NotSynced, Answered, StartSniff, RefuseSniff, OpenSniff,
        StopSniff, SniffStopped, vars, Done
  <2>3. ASSUME ~AppendOk, NEW p \in writer.t..(writer.h - 1)
        PROVE  At(p)' \in Saved'
    <3>1. Base = writer.t /\ Base' = writer.t /\ writer.h <= head /\ writer.pc = "confirm"
      BY <1>0, <2>2, <2>3 DEF Base, RingInv
    <3>2. At(p)' = At(p)
      BY <1>0, <3>1, NextKept DEF Kept, InPlace
    <3>3. At(p) \in Saved
      BY <1>0, <3>1 DEF GivenInv, Ringed
    <3> QED BY <1>a, <3>2, <3>3
  <2> QED BY <2>1, <2>2, <2>3 DEF Ringed, At
<1> QED BY <1>1, <1>2, <1>3 DEF GivenInv


-----------------------------------------------------------------------------
(* A mark that is safe stays so, in a step that opens no file.               *)
LEMMA NextMarkSafe ==
  ASSUME SdInv, [Next]_vars, ~\E ok \in BOOLEAN : DataOpened(ok),
         NEW m \in [off : Nat, rec : Rec], MarkSafe(m)
  PROVE  MarkSafe(m)'
<1>0. /\ head \in Nat /\ head' \in Nat /\ Base \in Nat /\ Base' \in Nat /\ m.off \in Nat
      /\ Saved \subseteq Saved' /\ lost \subseteq lost' /\ head <= head' /\ InPlace(Base, Base')
  <2>1. Base \in Nat /\ head \in Nat
    BY DEF SdInv, TypeOK, RingTypes, TaskTypes, Base
  <2>2. tail' \in Nat /\ head' \in Nat
    BY NextRing
  <2>3. Base' \in Nat
    BY <2>2, NextTaskTypes DEF TaskTypes, Base
  <2> QED BY <2>1, <2>2, <2>3, NextKept DEF Kept
<1>1. ASSUME NEW p \in Base..(m.off - 1)
      PROVE  At(p) \in Saved' \cup lost' \cup {slots'[i % Ring] : i \in Base'..(m.off - 1)}
  <2>1. p \in Base..(head - 1)
    BY <1>0 DEF MarkSafe
  <2>2. (p >= Base' => At(p)' = At(p)) /\ (p >= Base' \/ At(p) \in Saved' \cup lost')
    BY <1>0, <2>1 DEF InPlace
  <2>3. p >= Base' => p \in Base'..(m.off - 1)
    BY <1>0
  <2> QED BY <2>2, <2>3 DEF At
<1> QED BY <1>0, <1>1 DEF MarkSafe, Ringed, At

(* A new mark's record is behind it, and one that was too much is gone.      *)
LEMMA NextMarkInv ==
  ASSUME SdInv, [Next]_vars, ~\E ok \in BOOLEAN : DataOpened(ok)
  PROVE  MarkInv'
<1>0. /\ TaskTypes /\ RingTypes /\ RingInv /\ GivenInv /\ MarkInv /\ Len(marks) \in Nat
      /\ producer \in [pc : {"idle", "put", "mark"}, n : 0..MaxLine] /\ PerRec \in Nat \ {0}
      /\ marks \in Seq([off : Nat, rec : Rec]) /\ MaxLine \in Nat
  BY LenProperties, SizesAssumption DEF SdInv, TypeOK, TaskTypes, RingTypes
<1>1. /\ producer'.pc = "mark" => producer'.n > 0 /\ producer'.n % PerRec = 0
      /\ producer'.pc = "put" => producer'.n < MaxLine
  <2>1. CASE CheckLine \/ Mark
    BY <1>0, <2>1 DEF CheckLine, Mark, MarkInv
  <2>2. CASE RefuseLine \/ PutLine
    <3>1. producer'.pc = AfterLine(producer.n + 1) /\ producer'.n = producer.n + 1
      BY <2>2 DEF RefuseLine, PutLine
    <3> QED BY <1>0, <3>1 DEF AfterLine
  <2>3. ASSUME ~(CheckLine \/ Mark \/ RefuseLine \/ PutLine)
        PROVE  producer' = producer
    BY <2>3, Zenon
    DEF Next, Producer, Writer, Main, WriteBegin, AppendOk, AppendFails, Confirm, GiveUp,
        ClearRing, CutAndClose, TakeRequest, DataClosed, SniffLast, SniffOpened, OpenData,
        CloseData, Synced, NotSynced, Answered, StartSniff, RefuseSniff, OpenSniff, StopSniff,
        SniffStopped, vars
  <2> QED BY <1>0, <2>1, <2>2, <2>3 DEF MarkInv
<1>2. ASSUME NEW k \in 1..Len(marks')
      PROVE  \/ \E j \in 1..Len(marks) : marks'[k] = marks[j]
             \/ /\ producer.pc = "mark" /\ dataOpen
                /\ marks'[k] = [off |-> head, rec |-> producer.n \div PerRec]
  <2>1. CASE Mark
    <3>1. CASE marks' = marks
      BY <1>2, <3>1
    <3>2. ASSUME dataOpen,
                 marks' = Append(DropOldestMark(marks), [off |-> head, rec |-> producer.n \div PerRec])
          PROVE  \/ \E j \in 1..Len(marks) : marks'[k] = marks[j]
                 \/ /\ producer.pc = "mark" /\ dataOpen
                    /\ marks'[k] = [off |-> head, rec |-> producer.n \div PerRec]
      <4>1. PICK d \in Seq([off : Nat, rec : Rec]) :
              /\ d = DropOldestMark(marks)
              /\ \A i \in 1..Len(d) : \E j \in 1..Len(marks) : d[i] = marks[j]
        <5>1. CASE Len(marks) >= Marks
          <6>1. marks # <<>>
            BY <1>0, <5>1, EmptySeq, SizesAssumption
          <6>2. /\ Tail(marks) \in Seq([off : Nat, rec : Rec]) /\ Len(Tail(marks)) = Len(marks) - 1
                /\ \A i \in 1..Len(Tail(marks)) : Tail(marks)[i] = marks[i + 1]
            BY <1>0, <6>1, HeadTailProperties
          <6>3. \A i \in 1..Len(Tail(marks)) : i + 1 \in 1..Len(marks)
            BY <1>0, <6>2
          <6> QED BY <5>1, <6>2, <6>3 DEF DropOldestMark
        <5>2. CASE ~(Len(marks) >= Marks)
          BY <1>0, <5>2 DEF DropOldestMark
        <5> QED BY <5>1, <5>2
      <4>2. PICK m \in [off : Nat, rec : Rec] : m = [off |-> head, rec |-> producer.n \div PerRec]
        <5>1. head \in Nat /\ producer.n \div PerRec \in Rec
          BY <1>0, <2>1, RecordOf DEF RingTypes, MarkInv, Mark
        <5> QED BY <5>1
      <4>3. /\ marks' = Append(d, m) /\ Len(marks') = Len(d) + 1 /\ Len(d) \in Nat
            /\ \A i \in 1..Len(d) : marks'[i] = d[i]
            /\ marks'[Len(d) + 1] = m
        BY <3>2, <4>1, <4>2, AppendProperties, LenProperties
      <4>4. k \in 1..Len(d) \/ k = Len(d) + 1
        BY <1>2, <4>3
      <4> QED BY <2>1, <3>2, <4>1, <4>2, <4>3, <4>4 DEF Mark
    <3> QED BY <1>2, <2>1, <3>1, <3>2 DEF Mark
  <2>2. CASE Confirm
    <3>1. PICK n \in 0..Len(marks) : marks' = SubSeq(marks, n + 1, Len(marks))
      BY <2>2 DEF Confirm
    <3>2. \A i \in (n + 1)..Len(marks) : marks[i] \in [off : Nat, rec : Rec]
      <4>1. \A i \in 1..Len(marks) : marks[i] \in [off : Nat, rec : Rec]
        BY <1>0, ElementOfSeq
      <4> QED BY <1>0, <4>1
    <3>3. Len(marks') = IF n + 1 <= Len(marks) THEN Len(marks) - (n + 1) + 1 ELSE 0
      BY <1>0, <3>1, <3>2, SubSeqProperties
    <3>4. \A i \in 1..(Len(marks) - (n + 1) + 1) : marks'[i] = marks[n + 1 + i - 1]
      BY <1>0, <3>1, <3>2, SubSeqProperties
    <3>5. k \in 1..(Len(marks) - (n + 1) + 1) /\ n + 1 + k - 1 \in 1..Len(marks)
      BY <1>0, <1>2, <3>3
    <3> QED BY <3>4, <3>5
  <2>3. CASE marks' = <<>>
    BY <1>2, <2>3, EmptySeq
  <2>4. CASE marks' = marks
    BY <1>2, <2>4
  <2>5. Mark \/ Confirm \/ marks' = <<>> \/ marks' = marks
    BY Zenon
    DEF Next, Producer, Writer, Main, CheckLine, RefuseLine, PutLine, WriteBegin, AppendOk,
        AppendFails, GiveUp, ClearRing, CutAndClose, TakeRequest, DataClosed, SniffLast,
        SniffOpened, OpenData, CloseData, Synced, NotSynced, Answered, StartSniff, RefuseSniff,
        OpenSniff, StopSniff, SniffStopped, vars, ringVars
  <2> QED BY <2>1, <2>2, <2>3, <2>4, <2>5
<1>3. ASSUME producer.pc = "mark", dataOpen,
             NEW m \in [off : Nat, rec : Rec], m = [off |-> head, rec |-> producer.n \div PerRec]
      PROVE  MarkSafe(m)
  <2>1. LinesOf(m.rec) \subseteq 1..producer.n /\ m.off = head
    BY <1>0, <1>3, RecordOf DEF MarkInv
  <2>2. 1..producer.n \subseteq Saved \cup InRing \cup lost
    BY <1>0, <1>3 DEF GivenInv, LinesAccounted
  <2>3. InRing \subseteq Ringed(Base, head)
    <3>1. \A i \in tail..(head - 1) : i \in Base..(head - 1)
      BY <1>0 DEF TaskTypes, RingTypes, RingInv, Base
    <3> QED BY <3>1 DEF InRing, Ringed, At
  <2> QED BY <1>0, <2>1, <2>2, <2>3 DEF MarkSafe, RingTypes
<1>4. ASSUME NEW k \in 1..Len(marks')
      PROVE  \E m : m = marks'[k] /\ MarkSafe(m)'
  <2>1. PICK m : m = marks'[k]
    OBVIOUS
  <2>2. m \in [off : Nat, rec : Rec]
    <3>1. marks' \in Seq([off : Nat, rec : Rec])
      BY NextMarkTypes
    <3> QED BY <1>4, <2>1, <3>1, ElementOfSeq
  <2>3. MarkSafe(m)
    BY <1>0, <1>2, <1>3, <1>4, <2>1, <2>2 DEF MarkInv
  <2>4. MarkSafe(m)'
    BY <2>2, <2>3, NextMarkSafe
  <2> QED BY <2>1, <2>4
<1>5. \A k \in 1..Len(marks') : MarkSafe(marks[k])'
  BY <1>4 DEF MarkSafe
<1> QED BY <1>1, <1>5 DEF MarkInv

(* What is confirmed was on the card before its mark was reached.            *)
LEMMA NextConfirmed ==
  ASSUME SdInv, [Next]_vars, ~\E ok \in BOOLEAN : DataOpened(ok)
  PROVE  ConfirmedOnCard'
<1>0. Saved \subseteq Saved' /\ lost \subseteq lost' /\ ConfirmedOnCard
  BY NextKept DEF Kept, SdInv
<1>1. CASE Confirm
  <2>0. /\ writer.pc = "confirm" /\ GivenInv /\ MarkInv /\ Len(marks) \in Nat
        /\ writer.t \in Nat /\ writer.h \in Nat
        /\ marks \in Seq([off : Nat, rec : Rec])
    BY <1>1, LenProperties DEF Confirm, SdInv, TypeOK, TaskTypes, RingTypes
  <2>1. PICK k \in 0..Len(marks) :
          /\ \A i \in 1..k : Reached(marks[i])
          /\ confirmed' = confirmed \cup {marks[i].rec : i \in 1..k}
    BY <1>1 DEF Confirm
  <2>2. ASSUME NEW i \in 1..k
        PROVE  LinesOf(marks[i].rec) \subseteq Saved' \cup lost'
    <3>1. i \in 1..Len(marks) /\ marks[i].off \in Nat /\ marks[i].off <= writer.h
      <4>1. i \in 1..Len(marks)
        BY <2>0, <2>1
      <4>2. marks[i] \in [off : Nat, rec : Rec]
        BY <2>0, <4>1, ElementOfSeq
      <4> QED BY <2>1, <4>1, <4>2 DEF Reached
    <3>2. LinesOf(marks[i].rec) \subseteq Saved \cup lost \cup Ringed(writer.t, marks[i].off)
      BY <2>0, <3>1 DEF MarkInv, MarkSafe, Base
    <3>3. Ringed(writer.t, marks[i].off) \subseteq Ringed(writer.t, writer.h)
      BY SMTT(60), <2>0, <3>1 DEF Ringed
    <3>4. Ringed(writer.t, writer.h) \subseteq Saved
      BY <2>0 DEF GivenInv
    <3> QED BY <1>0, <3>2, <3>3, <3>4
  <2> QED BY <1>0, <2>1, <2>2 DEF ConfirmedOnCard
<1>2. ASSUME ~Confirm
      PROVE  confirmed' = confirmed
  BY <1>2, Zenon
  DEF Next, Producer, Writer, Main, CheckLine, RefuseLine, PutLine, Mark, WriteBegin, AppendOk,
      AppendFails, GiveUp, ClearRing, CutAndClose, TakeRequest, DataClosed, SniffLast,
      SniffOpened, OpenData, CloseData, Synced, NotSynced, Answered, StartSniff, RefuseSniff,
      OpenSniff, StopSniff, SniffStopped, vars, historyVars
<1> QED BY <1>0, <1>1, <1>2 DEF ConfirmedOnCard

-----------------------------------------------------------------------------
(* What is not in the file only moves up the ring.                           *)
LEMMA NextFrom ==
  ASSUME SdInv, [Next]_vars, ~\E ok \in BOOLEAN : DataOpened(ok)
  PROVE  /\ From \in Nat /\ From' \in Nat /\ From <= From' /\ Base <= From /\ Base' <= From'
         /\ Base \in Nat /\ Base' \in Nat
<1>0. /\ RingInv /\ head \in Nat /\ tail \in 0..head /\ writer.t \in Nat /\ writer.h \in Nat
      /\ writer \in [pc : {"idle", "append", "confirm", "clear", "cut", "handle"},
                     t : Nat, h : Nat, job : Request \cup {NoReq}]
  BY DEF SdInv, TypeOK, RingTypes, TaskTypes
<1>1. RingInv' /\ tail' \in Nat /\ writer'.t \in Nat /\ writer'.h \in Nat
  BY NextRing, NextTaskTypes DEF TaskTypes
<1>2. From \in Nat /\ From' \in Nat /\ Base <= From /\ Base' <= From' /\ Base \in Nat /\ Base' \in Nat
  BY <1>0, <1>1 DEF From, Base, RingInv
<1>a. SUFFICES From <= From'
  BY <1>2
<1>3. ASSUME writer' = writer, tail <= tail'
      PROVE  From <= From'
  BY <1>0, <1>1, <1>3 DEF From, Base
<1>4. CASE CheckLine \/ RefuseLine \/ PutLine \/ Mark \/ SniffLast \/ OpenData \/ StartSniff \/
            RefuseSniff \/ OpenSniff \/ StopSniff \/ SniffStopped \/ CloseData \/ Synced \/
            NotSynced \/ Answered \/ UNCHANGED vars
  <2>1. writer' = writer /\ tail' \in {tail, head}
    BY <1>4
    DEF CheckLine, RefuseLine, PutLine, Mark, SniffLast, OpenData, StartSniff, RefuseSniff,
        OpenSniff, StopSniff, SniffStopped, CloseData, Synced, NotSynced, Answered, ringVars, vars
  <2>2. tail <= head
    BY <1>0
  <2>3. tail <= tail'
    BY <1>0, <2>1, <2>2
  <2> QED BY <1>3, <2>1, <2>3
<1>5. CASE WriteBegin
  <2>1. writer.pc = "idle" /\ writer'.pc = "append" /\ writer'.t = tail
    BY <1>0, <1>5 DEF WriteBegin
  <2>2. From = tail /\ From' = tail
    BY <2>1 DEF From, Base
  <2> QED BY <1>0, <2>2
<1>6. CASE AppendOk
  <2>1. writer.pc = "append" /\ writer'.pc = "confirm" /\ writer'.h = writer.h
    BY <1>0, <1>6 DEF AppendOk
  <2>2. From = writer.t /\ From' = writer.h /\ writer.t <= writer.h
    BY <1>0, <2>1 DEF From, Base, RingInv
  <2> QED BY <1>0, <2>2
<1>7. CASE AppendFails
  <2>1. writer.pc = "append" /\ writer'.pc = "idle" /\ tail' = tail
    BY <1>7, IdleType DEF AppendFails
  <2>2. From = writer.t /\ From' = tail /\ writer.t <= tail
    BY <1>0, <2>1 DEF From, Base, RingInv
  <2> QED BY <1>0, <2>2
<1>8. CASE Confirm
  <2>1. writer.pc = "confirm" /\ writer'.pc = "idle" /\ tail' = writer.h
    BY <1>8, IdleType DEF Confirm
  <2>2. From = writer.h /\ From' = writer.h
    BY <2>1 DEF From, Base
  <2> QED BY <1>0, <2>2
<1>9. CASE GiveUp \/ ClearRing \/ CutAndClose \/ TakeRequest \/ DataClosed \/
            \E ok \in BOOLEAN : SniffOpened(ok)
  <2>1. /\ writer.pc \notin {"append", "confirm"} /\ writer'.pc \notin {"append", "confirm"}
        /\ tail' \in {tail, head}
    BY <1>0, <1>9, IdleType
    DEF GiveUp, ClearRing, CutAndClose, TakeRequest, DataClosed, SniffOpened, Done, ringVars
  <2>2. From = tail /\ From' = tail'
    BY <2>1 DEF From, Base
  <2>3. tail <= head
    BY <1>0
  <2> QED BY <1>0, <2>1, <2>2, <2>3
<1> QED BY <1>4, <1>5, <1>6, <1>7, <1>8, <1>9 DEF Next, Producer, Writer, Main

(* A line that is put is the next one, or the writer's own.                  *)
LEMMA NextHead ==
  ASSUME SdInv, [Next]_vars, ~\E ok \in BOOLEAN : DataOpened(ok)
  PROVE  \/ head' = head
         \/ /\ head' = head + 1
            /\ \/ slots'[head % Ring] = ErrLine
               \/ slots'[head % Ring] = producer.n + 1 /\ producer'.n = producer.n + 1
<1>0. /\ RingTypes /\ TaskTypes /\ RingInv /\ head \in Nat /\ tail \in 0..head
      /\ ErrLine \in Line \cup {ErrLine}
  BY DEF SdInv, TypeOK, RingTypes
<1>1. CASE PutLine
  <2>1. producer.n + 1 \in Line
    BY <1>1, SizesAssumption DEF PutLine, SdInv, TypeOK, TaskTypes, MarkInv, Line
  <2>2. Put(producer.n + 1) /\ producer'.n = producer.n + 1
    BY <1>1 DEF PutLine
  <2> QED BY <1>0, <1>1, <2>1, <2>2, RoomForLine, PutEffect DEF PutLine
<1>2. CASE AppendFails
  <2>1. Put(ErrLine) /\ (head - tail + 1 <= Ring => head - tail < Ring)
    BY <1>0, <1>2, SizesAssumption DEF AppendFails
  <2> QED BY <1>0, <2>1, PutEffect
<1>3. ASSUME ~PutLine, ~AppendFails
      PROVE  head' = head
  BY <1>3, Zenon
  DEF Next, Producer, Writer, Main, CheckLine, RefuseLine, Mark, WriteBegin, AppendOk, Confirm,
      GiveUp, ClearRing, CutAndClose, TakeRequest, DataClosed, SniffLast, SniffOpened, OpenData,
      CloseData, Synced, NotSynced, Answered, StartSniff, RefuseSniff, OpenSniff, StopSniff,
      SniffStopped, vars, ringVars
<1> QED BY <1>1, <1>2, <1>3

(* The file and the ring behind it stay in order.                            *)
LEMMA NextStream ==
  ASSUME SdInv, [Next]_vars, ~\E ok \in BOOLEAN : DataOpened(ok)
  PROVE  StreamInv'
<1>0. /\ StreamInv /\ RingInv /\ head \in Nat /\ good \in Nat /\ producer.n \in Nat /\ producer'.n \in Nat
      /\ head' \in Nat /\ good' \in Nat /\ producer.n <= producer'.n /\ head <= head'
      /\ \A i \in 1..good : card[i] \in Nat /\ card'[i] = card[i]
      /\ writer.t \in Nat /\ writer.h \in Nat
  <2>1. \A i \in 1..good : card[i] \in Nat
    <3>1. \A i \in 1..Len(card) : card[i] \in Line \cup {ErrLine}
      BY ElementOfSeq DEF SdInv, TypeOK, FileTypes
    <3>2. good \in 0..Len(card) /\ Len(card) \in Nat
      BY LenProperties DEF SdInv, TypeOK, FileTypes
    <3> QED BY <3>1, <3>2 DEF Line, ErrLine
  <2>2. producer'.n \in Nat /\ good' \in Nat /\ head' \in Nat
    BY NextTaskTypes, NextFile, NextRing, LenProperties DEF TaskTypes, FileTypes
  <2> QED BY <2>1, <2>2, NextFile, NextKept, LenProperties
          DEF SdInv, TypeOK, RingTypes, TaskTypes, FileTypes, Kept
<1>a. \A p \in Nat : At(p) \in Nat
  BY AtType DEF SdInv, TypeOK, Line, ErrLine
<1>b. From \in Nat /\ From' \in Nat /\ From <= From' /\ Base <= From /\ Base' <= From' /\ Base \in Nat /\ Base' \in Nat
  BY NextFrom
<1>c. PICK l \in Nat :
        /\ l = ErrLine \/ (l = producer.n + 1 /\ producer'.n = producer.n + 1)
        /\ \A p \in From'..(head' - 1) :
             \/ p \in From..(head - 1) /\ At(p)' = At(p)
             \/ p = head /\ head' = head + 1 /\ At(p)' = l
  <2>1. \A p \in Base..(head - 1) : p >= Base' => At(p)' = At(p)
    BY NextKept DEF Kept, InPlace
  <2>2. \A p \in From'..(head - 1) : p \in From..(head - 1) /\ At(p)' = At(p)
    BY <1>0, <1>b, <2>1
  <2>3. CASE head' = head
    BY <2>2, <2>3 DEF ErrLine
  <2>4. ASSUME NEW l \in Nat, head' = head + 1, slots'[head % Ring] = l
        PROVE  \A p \in From'..(head' - 1) :
                 \/ p \in From..(head - 1) /\ At(p)' = At(p)
                 \/ p = head /\ head' = head + 1 /\ At(p)' = l
    <3>1. \A p \in From'..(head' - 1) : p \in From'..(head - 1) \/ p = head
      BY <1>0, <1>b, <2>4
    <3> QED BY <2>2, <2>4, <3>1 DEF At
  <2> QED BY <1>0, <2>3, <2>4, NextHead DEF ErrLine
<1>1. /\ \A p \in From'..(head' - 1) : At(p)' <= producer'.n /\ At(p)' \in Nat
      /\ \A p, q \in From'..(head' - 1) : p < q /\ At(q)' # ErrLine => At(p)' < At(q)'
  <2>1. /\ \A p \in From..(head - 1) : At(p) <= producer.n /\ At(p) \in Nat /\ p \in Nat
        /\ \A p, q \in From..(head - 1) : p < q /\ At(q) # ErrLine => At(p) < At(q)
    BY <1>0, <1>a, <1>b DEF StreamInv
  <2>2. ASSUME NEW p \in From'..(head' - 1)
        PROVE  At(p)' <= producer'.n /\ At(p)' \in Nat
    <3>1. CASE p \in From..(head - 1) /\ At(p)' = At(p)
      BY <1>0, <2>1, <3>1
    <3>2. CASE At(p)' = l
      BY <1>0, <1>c, <3>2 DEF ErrLine
    <3> QED BY <1>c, <3>1, <3>2
  <2>3. ASSUME NEW p \in From'..(head' - 1), NEW q \in From'..(head' - 1), p < q, At(q)' # ErrLine
        PROVE  At(p)' < At(q)'
    <3>1. CASE q \in From..(head - 1) /\ At(q)' = At(q)
      <4>1. p \in From..(head - 1) /\ At(p)' = At(p)
        <5>1. p # head
          BY <1>0, <1>b, <2>3, <3>1
        <5> QED BY <1>c, <5>1
      <4> QED BY <2>1, <2>3, <3>1, <4>1
    <3>2. CASE q = head /\ head' = head + 1 /\ At(q)' = l
      <4>1. p \in From..(head - 1) /\ At(p)' = At(p)
        BY <1>0, <1>b, <1>c, <2>3, <3>2
      <4>2. l = producer.n + 1
        BY <1>c, <2>3, <3>2
      <4> QED BY <1>0, <2>1, <3>2, <4>1, <4>2
    <3> QED BY <1>c, <3>1, <3>2
  <2> QED BY <2>2, <2>3
<1>2. CASE good' = good
  <2>1. FileIsStream'
    BY <1>0, <1>2, NextFile DEF StreamInv, FileIsStream
  <2>2. \A i \in 1..good' : card'[i] <= producer'.n
    BY <1>0, <1>2 DEF StreamInv
  <2>3. ASSUME NEW i \in 1..good', NEW p \in From'..(head' - 1), At(p)' # ErrLine
        PROVE  card'[i] < At(p)'
    <3>1. card'[i] = card[i] /\ card[i] <= producer.n /\ card[i] \in Nat
      BY <1>0, <1>2 DEF StreamInv
    <3>2. CASE p \in From..(head - 1) /\ At(p)' = At(p)
      BY <1>0, <1>2, <2>3, <3>1, <3>2 DEF StreamInv
    <3>3. CASE p = head /\ head' = head + 1 /\ At(p)' = l
      <4>1. l = producer.n + 1
        BY <1>c, <2>3, <3>3
      <4> QED BY <1>0, <3>1, <3>3, <4>1
    <3> QED BY <1>c, <3>2, <3>3
  <2> QED BY <1>1, <2>1, <2>2, <2>3 DEF StreamInv
<1>3. CASE /\ AppendOk /\ good' = good + (writer.h - writer.t)
           /\ \A k \in 1..(writer.h - writer.t) : card'[good + k] = At(writer.t + k - 1)
  <2>1. /\ writer.pc = "append" /\ writer'.pc = "confirm" /\ writer'.h = writer.h /\ UNCHANGED <<head, producer, slots>>
        /\ From = writer.t /\ From' = writer.h /\ writer.t <= writer.h /\ writer.h <= head
    <3>1. writer.pc = "append" /\ writer'.pc = "confirm" /\ writer'.h = writer.h
      BY <1>3 DEF AppendOk, SdInv, TypeOK, TaskTypes
    <3>2. UNCHANGED <<head, producer, slots>>
      BY <1>3 DEF AppendOk, ringVars
    <3> QED BY <1>0, <3>1, <3>2 DEF From, Base, RingInv
  <2>2. ASSUME NEW i \in 1..good'
        PROVE  \/ i \in 1..good /\ card'[i] = card[i]
               \/ /\ i > good
                  /\ \E p \in writer.t..(writer.h - 1) : p = writer.t + (i - good) - 1 /\ card'[i] = At(p)
    <3>1. CASE i <= good
      BY <1>0, <3>1
    <3>2. CASE i > good
      <4>1. PICK k \in 1..(writer.h - writer.t) : k = i - good /\ good + k = i
        BY <1>0, <1>3, <2>1, <3>2
      <4>2. writer.t + k - 1 \in writer.t..(writer.h - 1) /\ writer.t + k - 1 = writer.t + (i - good) - 1
        BY <1>0, <4>1
      <4> QED BY <1>3, <3>2, <4>1, <4>2
    <3> QED BY <1>0, <3>1, <3>2
  <2>3. /\ \A p \in writer.t..(head - 1) : At(p) <= producer.n /\ At(p) \in Nat /\ p \in Nat
        /\ \A p, q \in writer.t..(head - 1) : p < q /\ At(q) # ErrLine => At(p) < At(q)
        /\ \A i \in 1..good, p \in writer.t..(head - 1) : At(p) # ErrLine => card[i] < At(p)
        /\ \A i \in 1..good : card[i] <= producer.n
        /\ \A i, j \in 1..good : i < j /\ card[j] # ErrLine => card[i] < card[j]
    BY SMTT(60), <1>0, <1>a, <2>1 DEF StreamInv, FileIsStream
  <2>4. ASSUME NEW i \in 1..good', NEW j \in 1..good', i < j, card'[j] # ErrLine
        PROVE  card'[i] < card'[j]
    <3>1. CASE j \in 1..good /\ card'[j] = card[j]
      <4>1. i \in 1..good /\ card'[i] = card[i]
        BY <1>0, <2>4, <3>1
      <4> QED BY <2>3, <2>4, <3>1, <4>1
    <3>2. CASE j > good
      <4>1. PICK q \in writer.t..(writer.h - 1) : q = writer.t + (j - good) - 1 /\ card'[j] = At(q)
        BY <1>0, <2>2, <3>2
      <4>2. q \in writer.t..(head - 1)
        BY <1>0, <2>1
      <4>3. CASE i \in 1..good /\ card'[i] = card[i]
        BY <2>3, <2>4, <4>1, <4>2, <4>3
      <4>4. CASE i > good
        <5>1. PICK p \in writer.t..(writer.h - 1) : p = writer.t + (i - good) - 1 /\ card'[i] = At(p)
          BY <1>0, <2>2, <4>4
        <5>2. p \in writer.t..(head - 1) /\ p < q
          BY <1>0, <2>1, <2>4, <4>1, <5>1
        <5> QED BY <2>3, <2>4, <4>1, <4>2, <5>1, <5>2
      <4> QED BY <2>2, <4>3, <4>4
    <3> QED BY <2>2, <3>1, <3>2
  <2>5. ASSUME NEW i \in 1..good'
        PROVE  card'[i] <= producer.n /\ card'[i] \in Nat
    <3>1. \A p \in writer.t..(writer.h - 1) : p \in writer.t..(head - 1)
      BY <1>0, <2>1
    <3> QED BY <1>0, <2>2, <2>3, <3>1
  <2>6. ASSUME NEW i \in 1..good', NEW q \in From'..(head' - 1), At(q)' # ErrLine
        PROVE  card'[i] < At(q)'
    <3>1. q \in writer.t..(head - 1) /\ At(q)' = At(q) /\ q >= writer.h
      BY <1>0, <2>1, <2>6 DEF At
    <3>2. CASE i \in 1..good /\ card'[i] = card[i]
      BY <2>3, <2>6, <3>1, <3>2
    <3>3. CASE \E p \in writer.t..(writer.h - 1) : card'[i] = At(p)
      <4>1. PICK p \in writer.t..(writer.h - 1) : card'[i] = At(p)
        BY <3>3
      <4>2. p \in writer.t..(head - 1) /\ p < q
        BY <1>0, <2>1, <3>1
      <4> QED BY <2>3, <2>6, <3>1, <4>1, <4>2
    <3> QED BY <2>2, <3>2, <3>3
  <2>7. FileIsStream'
    BY <2>4, NextFile DEF FileIsStream
  <2>8. \A i \in 1..good' : card'[i] <= producer'.n
    BY <2>1, <2>5
  <2> QED BY <1>1, <2>6, <2>7, <2>8 DEF StreamInv
<1> QED BY <1>2, <1>3, NextFile

-----------------------------------------------------------------------------
(* The counts stay within their bounds.                                      *)
LEMMA NextCountTypes ==
  ASSUME SdInv, [Next]_vars
  PROVE  CountTypes'
<1>0. /\ CountTypes /\ RingTypes /\ TaskTypes /\ GivenInv /\ MarkInv
      /\ MaxFail \in Nat /\ MaxSniff \in Nat /\ MaxLine \in Nat
      /\ ErrLine \in Line \cup {ErrLine}
  BY SizesAssumption DEF SdInv, TypeOK
<1>a. InRing \subseteq Line \cup {ErrLine}
  BY <1>0, AtType DEF InRing, At, RingTypes
<1>1. CASE PutLine \/ RefuseLine
  <2>1. producer.n + 1 \in Line
    BY <1>0, <1>1 DEF PutLine, RefuseLine, TaskTypes, MarkInv, Line
  <2> QED BY <1>0, <1>1, <2>1
          DEF PutLine, RefuseLine, Put, CountTypes, mainVars, sniffVars, ringVars
<1>2. CASE Confirm
  <2>1. PICK k \in 0..Len(marks) : confirmed' = confirmed \cup {marks[i].rec : i \in 1..k}
    BY <1>2 DEF Confirm
  <2>2. \A i \in 1..k : marks[i].rec \in Rec
    <3>1. \A i \in 1..Len(marks) : marks[i] \in [off : Nat, rec : Rec]
      BY <1>0, ElementOfSeq DEF RingTypes
    <3>2. \A i \in 1..k : i \in 1..Len(marks)
      BY <1>0, LenProperties DEF RingTypes
    <3> QED BY <3>1, <3>2
  <2> QED BY <1>0, <1>2, <2>1, <2>2 DEF Confirm, CountTypes, mainVars, sniffVars
<1>3. CASE AppendFails
  BY <1>0, <1>3 DEF AppendFails, Put, CountTypes, mainVars, sniffVars
<1>4. CASE ClearRing \/ NotSynced
  BY <1>0, <1>a, <1>4 DEF ClearRing, NotSynced, CountTypes, mainVars, sniffVars
<1>5. CASE \E ok \in BOOLEAN : DataOpened(ok) \/ SniffOpened(ok)
  BY <1>0, <1>5 DEF DataOpened, SniffOpened, CountTypes, mainVars, sniffVars, historyVars
<1>6. CASE StartSniff
  BY <1>0, <1>6 DEF StartSniff, CountTypes, historyVars
<1>7. CASE CheckLine \/ Mark \/ WriteBegin \/ AppendOk \/ GiveUp \/ CutAndClose \/
            TakeRequest \/ DataClosed \/ SniffLast \/ OpenData \/ CloseData \/ Synced \/
            Answered \/ RefuseSniff \/ OpenSniff \/ StopSniff \/ SniffStopped \/ UNCHANGED vars
  <2>1. UNCHANGED <<fails, sniffs, lost, confirmed>>
    BY <1>7, Zenon
    DEF CheckLine, Mark, WriteBegin, AppendOk, GiveUp, CutAndClose, TakeRequest, DataClosed,
        SniffLast, OpenData, CloseData, Synced, Answered, RefuseSniff, OpenSniff, StopSniff,
        SniffStopped, vars, mainVars, sniffVars, historyVars
  <2> QED BY <1>0, <2>1 DEF CountTypes
<1> QED BY <1>1, <1>2, <1>3, <1>4, <1>5, <1>6, <1>7 DEF Next, Producer, Writer, Main

(* Opening the file starts with an empty file and ring and without a line.   *)
LEMMA NextOpened ==
  ASSUME SdInv, NEW ok \in BOOLEAN, DataOpened(ok)
  PROVE  FileTypes' /\ StreamInv' /\ GivenInv' /\ MarkInv' /\ ConfirmedOnCard'
<1>1. /\ head' = 0 /\ tail' = 0 /\ marks' = <<>> /\ card' = <<>> /\ good' = 0
      /\ writer'.pc = "idle" /\ UNCHANGED <<producer, lost, confirmed>>
      /\ producer.n = 0 /\ producer.pc = "idle" /\ confirmed = {} /\ Len(card') = 0 /\ Len(marks') = 0
      /\ card' \in Seq(Line \cup {ErrLine})
  BY IdleType, EmptySeq DEF DataOpened, Done, SdInv, OpenInv, historyVars
<1>2. Base' = 0 /\ From' = 0
  BY <1>1 DEF Base, From
<1>3. FileTypes'
  BY <1>1 DEF FileTypes
<1>4. StreamInv'
  BY <1>1, <1>2 DEF StreamInv, FileIsStream
<1>5. GivenInv'
  BY <1>1, <1>2 DEF GivenInv, LinesAccounted
<1>6. MarkInv'
  BY <1>1 DEF MarkInv
<1>7. ConfirmedOnCard'
  BY <1>1 DEF ConfirmedOnCard
<1> QED BY <1>3, <1>4, <1>5, <1>6, <1>7

-----------------------------------------------------------------------------
(* The invariant holds at first.                                             *)
LEMMA InitSd == Init => SdInv
<1> SUFFICES ASSUME Init PROVE SdInv
  OBVIOUS
<1>0. /\ <<>> \in Seq([off : Nat, rec : Rec]) /\ <<>> \in Seq(Line \cup {ErrLine})
      /\ Len(<<>>) = 0
  BY EmptySeq
<1>1. RingTypes
  BY <1>0, SizesAssumption DEF Init, RingTypes
<1>2. FileTypes
  BY <1>0 DEF Init, FileTypes
<1>3. SwitchTypes
  BY Zenon DEF Init, SwitchTypes
<1>4. TaskTypes
  BY SizesAssumption, IdleType DEF Init, TaskTypes
<1>5. CountTypes
  BY SizesAssumption DEF Init, CountTypes
<1>6. RingInv /\ From = 0 /\ Base = 0
  BY SizesAssumption, IdleType DEF Init, RingInv, From, Base
<1>7. OpenInv
  BY IdleType DEF Init, OpenInv
<1>8. StreamInv
  BY <1>0, <1>6 DEF Init, StreamInv, FileIsStream
<1>9. GivenInv
  BY IdleType DEF Init, GivenInv, LinesAccounted
<1>10. MarkInv
  BY <1>0 DEF Init, MarkInv
<1>11. ConfirmedOnCard
  BY DEF Init, ConfirmedOnCard
<1> QED BY <1>1, <1>2, <1>3, <1>4, <1>5, <1>6, <1>7, <1>8, <1>9, <1>10, <1>11 DEF SdInv, TypeOK

(* Every step keeps the invariant.                                           *)
LEMMA StepSd ==
  ASSUME SdInv, [Next]_vars
  PROVE  SdInv'
<1>1. RingTypes' /\ RingInv'
  BY NextRing, NextMarkTypes DEF RingTypes
<1>2. SwitchTypes' /\ TaskTypes' /\ CountTypes' /\ OpenInv'
  BY NextSwitchTypes, NextTaskTypes, NextCountTypes, NextOpenInv
<1>3. FileTypes' /\ StreamInv' /\ GivenInv' /\ MarkInv' /\ ConfirmedOnCard'
  BY NextOpened, NextFile, NextStream, NextGiven, NextMarkInv, NextConfirmed
<1> QED BY <1>1, <1>2, <1>3 DEF SdInv, TypeOK

(* Every state of a behaviour has the invariant.                             *)
LEMMA SdAlways == Spec => []SdInv
<1>1. SdInv /\ [Next]_vars => SdInv'
  BY StepSd
<1> QED BY <1>1, InitSd, PTL DEF Spec

(* The state of the writer keeps its types: the ring never holds more than   *)
(* it can, nor the table of marks, and the file is not shorter than what is  *)
(* confirmed of it.                                                          *)
THEOREM TypeCorrect == Spec => []TypeOK
<1>1. SdInv => TypeOK
  BY DEF SdInv
<1> QED BY <1>1, SdAlways, PTL

(* The confirmed part of the file has the lines in their order, each once    *)
(* (sdwriter.h:9-11).                                                        *)
THEOREM StreamOnCard == Spec => []FileIsStream
<1>1. SdInv => FileIsStream
  BY DEF SdInv, StreamInv
<1> QED BY <1>1, SdAlways, PTL

(* A record the delivery queue is told of is on the card, but for the lines  *)
(* counted as lost (sdwriter.h:17).                                          *)
THEOREM ConfirmedIsSaved == Spec => []ConfirmedOnCard
<1>1. SdInv => ConfirmedOnCard
  BY DEF SdInv
<1> QED BY <1>1, SdAlways, PTL

(* No line logged into the open file is lost without being counted           *)
(* (sdwriter.h:11).                                                          *)
THEOREM NoLineUncounted == Spec => []LinesAccounted
<1>1. SdInv => LinesAccounted
  BY DEF SdInv, GivenInv
<1> QED BY <1>1, SdAlways, PTL

-----------------------------------------------------------------------------
(* The request of the sniffer's file is the only one while it is waited for, *)
(* its answer is of that file, and nobody but a dead card closes it before   *)
(* the main task takes the answer.                                           *)
AnswerInv ==
  /\ writer.pc \in {"clear", "cut"} => dead
  /\ main.pc # "wait" => main.op = NoReq
  /\ main.pc \in {"start", "finish"} => req = NoReq
  /\ main.op = "sniff_open" =>
       /\ ~closing /\ req \in {NoReq, "sniff_open"}
       /\ writer.pc = "handle" => writer.job = "sniff_open"
       /\ result = "ok" => sniffOpen \/ dead

(* No request is there at first.                                             *)
LEMMA InitAnswer == Init => AnswerInv
BY DEF Init, AnswerInv, Idle, NoReq

(* request() posts one request and waits, handleRequest() answers it.        *)
LEMMA NextAnswer == ASSUME SdInv, AnswerInv, [Next]_vars PROVE AnswerInv'
<1> USE DEF AnswerInv, NoReq
<1>0. /\ main.pc \in {"boot", "wait", "run", "start", "finish", "stop", "sync", "parked"}
      /\ DOMAIN main = {"pc", "op"} /\ DOMAIN writer = {"pc", "t", "h", "job"}
      /\ \A x : [main EXCEPT !.pc = x].pc = x /\ [main EXCEPT !.pc = x].op = main.op
  BY DEF SdInv, TypeOK, TaskTypes
<1>1. writer.pc = "handle" => req # NoReq
  BY DEF SdInv, OpenInv
<1>2. CASE Producer
  BY <1>2 DEF Producer, CheckLine, RefuseLine, PutLine, Mark, stateVars, mainVars, sniffVars, reqVars
<1>3. CASE WriteBegin \/ AppendOk \/ AppendFails \/ Confirm \/ TakeRequest
  <2>1. UNCHANGED <<main, req, result, dead, closing, sniffOpen>>
    BY <1>3 DEF WriteBegin, AppendOk, AppendFails, Confirm, TakeRequest, stateVars, mainVars,
                sniffVars, reqVars
  <2>2. CASE TakeRequest
    <3>1. writer'.job = req /\ req # NoReq /\ writer'.pc = "handle"
      BY <1>0, <2>2 DEF TakeRequest
    <3>2. QED BY <2>1, <3>1
  <2>3. CASE WriteBegin \/ AppendOk
    <3>1. writer'.pc \in {"append", "confirm"}
      BY <1>0, <2>3 DEF WriteBegin, AppendOk
    <3>2. QED BY <2>1, <3>1
  <2>4. CASE AppendFails \/ Confirm
    <3>1. writer'.pc = "idle"
      BY <2>4 DEF AppendFails, Confirm, Idle
    <3>2. QED BY <2>1, <3>1
  <2>5. QED BY <1>3, <2>2, <2>3, <2>4
<1>4. CASE GiveUp \/ ClearRing \/ CutAndClose
  <2>1. UNCHANGED <<main, req, result>>
    BY <1>4 DEF GiveUp, ClearRing, CutAndClose, mainVars, reqVars
  <2>2. dead' = TRUE
    <3>1. CASE GiveUp
      BY <3>1 DEF GiveUp
    <3>2. CASE ClearRing \/ CutAndClose
      <4>1. dead /\ dead' = dead /\ dead \in BOOLEAN
        BY <3>2 DEF ClearRing, CutAndClose, stateVars, SdInv, TypeOK, SwitchTypes
      <4>2. QED BY <4>1
    <3>3. QED BY <1>4, <3>1, <3>2
  <2>3. ~closing => ~closing'
    BY <1>4 DEF GiveUp, ClearRing, CutAndClose, mainVars, sniffVars
  <2>4. writer'.pc # "handle"
    BY <1>4 DEF GiveUp, ClearRing, CutAndClose, Idle, SdInv, TypeOK, TaskTypes
  <2>5. QED BY <2>1, <2>2, <2>3, <2>4
<1>5. CASE DataClosed \/ \E ok \in BOOLEAN : DataOpened(ok)
  <2>1. UNCHANGED <<main, dead, closing>> /\ writer'.pc = "idle" /\ req' = NoReq
    BY <1>5 DEF DataClosed, DataOpened, Done, Idle, mainVars, sniffVars
  <2>2. main.op # "sniff_open"
    BY <1>5 DEF DataClosed, DataOpened
  <2>3. QED BY <2>1, <2>2
<1>6. ASSUME NEW ok \in BOOLEAN, SniffOpened(ok) PROVE AnswerInv'
  <2>1. UNCHANGED <<main, dead, closing>> /\ writer'.pc = "idle" /\ req' = NoReq
    BY <1>6 DEF SniffOpened, Done, Idle, mainVars, sniffVars
  <2>2. result' = "ok" => sniffOpen'
    BY <1>6 DEF SniffOpened, Done
  <2>3. QED BY <2>1, <2>2
<1>7. CASE SniffLast
  BY <1>7 DEF SniffLast, mainVars, sniffVars, reqVars
<1>8. CASE OpenData \/ CloseData \/ Synced \/ NotSynced \/ Answered
  BY <1>0, <1>8 DEF OpenData, CloseData, Synced, NotSynced, Answered, Told, Post, stateVars, sniffVars, reqVars
<1>9. CASE StartSniff \/ RefuseSniff \/ StopSniff \/ SniffStopped
  BY <1>0, <1>9 DEF StartSniff, RefuseSniff, StopSniff, SniffStopped, stateVars, reqVars
<1>10. CASE OpenSniff
  <2>1. req = NoReq /\ writer.pc # "handle" /\ main.op = NoReq
    BY <1>1, <1>10 DEF OpenSniff
  <2>2. QED BY <1>0, <1>10, <2>1 DEF OpenSniff, Post, stateVars, reqVars
<1>11. CASE UNCHANGED vars
  BY <1>11 DEF vars, stateVars, mainVars, sniffVars, reqVars
<1>12. QED
  BY <1>2, <1>3, <1>4, <1>5, <1>6, <1>7, <1>8, <1>9, <1>10, <1>11 DEF Next, Writer, Main

(* The sniffer is told that its file is open only while it is open, or after *)
(* the card has died: then sniffSdDead() is told as well (sdwriter.h:44).    *)
THEOREM AnswerIsTrue == Spec => AnswerTrue
<1> DEFINE Right == main.op = "sniff_open" /\ main'.pc = "run" /\ fileOk' => sniffOpen' \/ dead'
<1>1. SdInv /\ AnswerInv /\ [Next]_vars => [Right]_vars
  <2>1. SUFFICES ASSUME SdInv, AnswerInv, Next, main.op = "sniff_open", main'.pc = "run", fileOk'
                 PROVE  sniffOpen' \/ dead'
    OBVIOUS
  <2>2. main.pc = "wait"
    BY <2>1 DEF AnswerInv, NoReq
  <2>3. Answered
    BY <2>1, <2>2 DEF Next, Producer, CheckLine, RefuseLine, PutLine, Mark, Writer, WriteBegin, AppendOk,
       AppendFails, Confirm, ClearRing, CutAndClose, TakeRequest, DataClosed, SniffLast, DataOpened,
       SniffOpened, GiveUp, Main, OpenData, CloseData, Synced, NotSynced, StartSniff, RefuseSniff,
       OpenSniff, StopSniff, SniffStopped, mainVars
  <2>4. result = "ok" /\ UNCHANGED <<sniffOpen, dead>>
    BY <2>1, <2>3 DEF Answered, Told, stateVars
  <2>5. QED BY <2>1, <2>4 DEF AnswerInv
<1>2. QED BY SdAlways, InitAnswer, NextAnswer, <1>1, PTL DEF Spec, AnswerTrue

=============================================================================
