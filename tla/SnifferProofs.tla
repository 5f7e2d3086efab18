---------------------------- MODULE SnifferProofs ----------------------------
(***************************************************************************)
(* What holds of sniff mode for every number of frames, commands and card  *)
(* failures, every size of queue and block, every duration and number of   *)
(* bus speeds: the types, the sum of a stats line, the owner of the CAN    *)
(* controller, and what is in the file.                                    *)
(***************************************************************************)
EXTENDS Sniffer, SequenceTheorems, TLAPS

(* A duration is there from the command on until the last minute is over.    *)
DurationKept ==
  /\ req = "on" => reqMin > 0
  /\ main \in {"open", "begin"} => reqMin > 0
  /\ main \in {"speed", "minute"} => minLeft > 0

(* Before openFile() the counters of the file are the last session's, and    *)
(* nothing has been taken from the queue; a closed file has no block.        *)
CountInv ==
  /\ AllCounted
  /\ main = "open" => frames = dropped + Len(queue) /\ queue = accepted /\ ~sniffOpen
  /\ ~sniffOpen => block = <<>> /\ ~last

TypeInv == TypeOK /\ DurationKept /\ CountInv

(* The main task owns what it is about to use, and while the mode is on it   *)
(* is at one of the steps of a session.                                      *)
OwnerInv ==
  tele = "idle" =>
    /\ odo <=> driver = "odo"
    /\ active => driver = "sniff" /\ main \in {"idle", "speed", "minute", "sent"}
    /\ main \in {"speed", "minute", "sent"} => active
    /\ main = "can" => driver = "sniff"
    /\ driver = "sniff" => active \/ main = "can"
    /\ main \in {"open", "begin"} => driver = "none"
    /\ main \in {"close", "wait"} => driver = "none"

(* The end of a file: nothing is received any more, so the last block has    *)
(* the last frames.                                                          *)
FileInv ==
  /\ sniffOpen => file \o block \o queue = accepted /\ written = Len(file)
  /\ last => closing /\ sniffOpen
  /\ stats # NoStats => ~sniffOpen /\ stats = Len(file)
  /\ tele = "idle" =>
       /\ closing => ~active /\ main \in {"wait", "closed", "idle"}
       /\ last => queue = <<>>
       /\ stats # NoStats => ~active /\ main \in {"wait", "closed", "idle", "open"}
       /\ stats # NoStats /\ main # "open" => file = accepted

-----------------------------------------------------------------------------
(* Everything starts with its type, off and empty.                           *)
LEMMA InitSniffer == Init => TypeInv /\ OwnerInv /\ FileInv
<1> SUFFICES ASSUME Init PROVE TypeInv /\ OwnerInv /\ FileInv
  OBVIOUS
<1> USE BoundsAssumption DEF Init
<1>0. <<>> \in Seq(Frame) /\ Len(<<>>) = 0
  BY EmptySeq
<1>1. SeqTypes
  BY <1>0 DEF SeqTypes
<1>2. CountTypes
  BY DEF CountTypes, NoStats
<1>3. ModeTypes
  BY DEF ModeTypes, None
<1>4. TaskTypes
  BY DEF TaskTypes
<1>5. SwitchTypes
  BY Zenon DEF SwitchTypes
<1>6. DurationKept
  BY DEF DurationKept, None
<1>7. CountInv
  BY <1>0 DEF CountInv, AllCounted
<1>8. OwnerInv
  BY DEF OwnerInv
<1>9. FileInv
  BY DEF FileInv
<1> QED BY <1>1, <1>2, <1>3, <1>4, <1>5, <1>6, <1>7, <1>8, <1>9 DEF TypeInv, TypeOK

(* A frame goes to the end of the queue, or is counted as dropped.           *)
LEMMA PushFrameEffect ==
  ASSUME SeqTypes, CountTypes, PushFrame
  PROVE  /\ queue' \in Seq(Frame) /\ accepted' \in Seq(Frame) /\ Len(queue') <= QueueCap
         /\ frames' = frames + 1 /\ frames' \in Frame /\ UNCHANGED <<written, sdLost>>
         /\ \/ /\ Len(queue') = Len(queue) + 1 /\ UNCHANGED dropped
               /\ queue' = Append(queue, frames') /\ accepted' = Append(accepted, frames')
            \/ UNCHANGED <<queue, accepted>> /\ dropped' = dropped + 1
<1> USE BoundsAssumption DEF SeqTypes, CountTypes
<1>1. frames' = frames + 1 /\ frames' \in Frame
  BY DEF PushFrame, Frame
<1>2. CASE Len(queue) < QueueCap
  <2>1. queue' = Append(queue, frames') /\ accepted' = Append(accepted, frames') /\ UNCHANGED dropped
    BY <1>2 DEF PushFrame
  <2>2. Len(queue) \in Nat
    BY LenProperties
  <2>3. queue' \in Seq(Frame) /\ Len(queue') = Len(queue) + 1 /\ accepted' \in Seq(Frame)
    BY <1>1, <2>1, AppendProperties
  <2> QED BY <1>1, <1>2, <2>1, <2>2, <2>3 DEF PushFrame
<1>3. CASE ~(Len(queue) < QueueCap)
  BY <1>1, <1>3 DEF PushFrame
<1> QED BY <1>2, <1>3

(* A block is the head of the queue: nothing is lost or turned round.        *)
LEMMA FillEffect ==
  ASSUME SeqTypes, Fill
  PROVE  /\ queue' \in Seq(Frame) /\ block' \in Seq(Frame)
         /\ Len(queue') <= Len(queue) /\ Len(block') <= BlockCap
         /\ block' \o queue' = queue /\ Len(block') + Len(queue') = Len(queue)
<1> USE BoundsAssumption DEF SeqTypes
<1>1. Len(queue) \in Nat
  BY LenProperties
<1>2. Taken \in 0..Len(queue) /\ Taken <= BlockCap
  BY <1>1 DEF Taken
<1>3. block' = SubSeq(queue, 1, Taken) /\ queue' = SubSeq(queue, Taken + 1, Len(queue))
  BY DEF Fill
<1>4. \A i \in 1..Len(queue) : queue[i] \in Frame
  BY ElementOfSeq
<1>5. block' \in Seq(Frame) /\ Len(block') = Taken
  BY <1>1, <1>2, <1>3, <1>4, SubSeqProperties
<1>6. queue' \in Seq(Frame) /\ Len(queue') = Len(queue) - Taken
  BY <1>1, <1>2, <1>3, <1>4, SubSeqProperties
<1>7. block' \o queue' = queue
  <2>1. /\ queue \in Seq(Frame) /\ 1 \in 1..Len(queue) + 1
        /\ Taken \in 1 - 1..Len(queue) /\ Len(queue) \in Taken..Len(queue)
    BY <1>1, <1>2
  <2>2. SubSeq(queue, 1, Taken) \o SubSeq(queue, Taken + 1, Len(queue)) = SubSeq(queue, 1, Len(queue))
    BY <2>1, ConcatAdjacentSubSeq
  <2> QED BY <1>3, <2>2, SubSeqFull
<1> QED BY <1>1, <1>2, <1>5, <1>6, <1>7

(* The frames, the queue, the block and the file keep their types.           *)
LEMMA NextSeqTypes ==
  ASSUME TypeInv, [Next]_vars PROVE SeqTypes'
<1> USE BoundsAssumption DEF TypeInv, TypeOK, countVars, blockVars, fileVars
<1>0. SeqTypes /\ CountTypes /\ <<>> \in Seq(Frame) /\ Len(<<>>) = 0
  BY EmptySeq
<1>1. CASE Receive \/ Send
  BY <1>0, <1>1, PushFrameEffect DEF Receive, Send, SeqTypes
<1>2. CASE Fill
  BY SMTT(60), <1>0, <1>2, FillEffect DEF Fill, SeqTypes
<1>3. CASE WriteOk
  BY <1>0, <1>3, ConcatProperties DEF WriteOk, SeqTypes
<1>4. ASSUME queue' \in {queue, <<>>}, accepted' \in {accepted, <<>>},
             block' \in {block, <<>>}, file' \in {file, <<>>}
      PROVE  SeqTypes'
  <2>1. queue' \in Seq(Frame) /\ Len(queue') <= QueueCap
    <3>1. CASE queue' = queue
      BY <3>1 DEF SeqTypes
    <3>2. CASE queue' = <<>>
      BY <1>0, <3>2
    <3> QED BY <1>4, <3>1, <3>2
  <2>2. block' \in Seq(Frame) /\ Len(block') <= BlockCap
    <3>1. CASE block' = block
      BY <3>1 DEF SeqTypes
    <3>2. CASE block' = <<>>
      BY <1>0, <3>2
    <3> QED BY <1>4, <3>1, <3>2
  <2>3. accepted' \in Seq(Frame) /\ file' \in Seq(Frame)
    BY <1>0, <1>4 DEF SeqTypes
  <2> QED BY <2>1, <2>2, <2>3 DEF SeqTypes
<1>5. CASE WriteFails \/ GoDead \/ Start \/ OpenFile
  BY <1>4, <1>5 DEF WriteFails, GoDead, Start, NewSession, OpenFile
<1>6. CASE Restart \/ Panic
  BY <1>4, <1>6 DEF Restart, Panic, Boot
<1>7. ASSUME UNCHANGED <<queue, accepted, block, file>> PROVE SeqTypes'
  BY <1>4, <1>7
<1>8. CASE Renew \/ Refuse \/ Begin \/ Tick \/ SpeedTick \/ NoMinute \/ Minute
  BY <1>7, <1>8 DEF Renew, Refuse, Begin, Tick, SpeedTick, NoMinute, Minute
<1>9. CASE OffWhenOff \/ Stop \/ Stopped \/ OdoTick \/ SendEnd \/ Standby \/ OdoOff \/ Request
  BY <1>7, <1>9 DEF OffWhenOff, Stop, StopNow, Stopped, OdoTick, SendEnd, Standby, OdoOff, Request
<1>10. ASSUME NEW task \in {"main", "tele"}, Close(task) \/ Prepare(task) PROVE SeqTypes'
  BY <1>7, <1>10 DEF Close, CanStop, CloseFile, FileClosed, Prepare
<1>11. CASE UNCHANGED vars
  BY <1>7, <1>11 DEF vars
<1> QED BY <1>1, <1>2, <1>3, <1>4, <1>5, <1>6, <1>8, <1>9, <1>10, <1>11 DEF Next, WriterNext, TickNext

(* A frame moves from the queue to the block, from there to "written", and   *)
(* to "sdLost" when the card is given up: one step, one sum.                 *)
LEMMA NextCountInv ==
  ASSUME TypeInv, [Next]_vars PROVE CountInv'
<1> USE DEF CountInv, AllCounted, TypeInv, TypeOK
<1>0. /\ SeqTypes /\ CountTypes /\ Len(<<>>) = 0 /\ Len(queue) \in Nat /\ Len(block) \in Nat
      /\ frames \in Nat /\ dropped \in Nat /\ written \in Nat /\ sdLost \in Nat
  <2>1. SeqTypes /\ CountTypes
    OBVIOUS
  <2> QED BY <2>1, EmptySeq, LenProperties, BoundsAssumption DEF SeqTypes, CountTypes
<1>1. CASE Receive
  <2>1. PushFrame /\ UNCHANGED <<main, block, last, sniffOpen>>
    BY <1>1 DEF Receive, fileVars, blockVars, taskVars
  <2>2. queue = accepted => queue' = accepted'
    BY SMTT(60), <1>0, <2>1, PushFrameEffect
  <2>3. /\ frames' = frames + 1 /\ UNCHANGED <<written, sdLost>>
        /\ \/ Len(queue') = Len(queue) + 1 /\ UNCHANGED dropped
           \/ UNCHANGED queue /\ dropped' = dropped + 1
    BY <1>0, <2>1, PushFrameEffect
  <2> QED BY SMTT(60), <1>0, <2>1, <2>2, <2>3
<1>2. CASE Send
  <2>1. PushFrame /\ UNCHANGED <<block, last, sniffOpen>> /\ main = "idle" /\ main' = "sent"
    BY <1>2 DEF Send, fileVars, blockVars, MainGoes
  <2> QED BY SMTT(60), <1>0, <2>1, PushFrameEffect
<1>3. CASE Fill
  <2>1. /\ UNCHANGED <<frames, dropped, written, sdLost, accepted, sniffOpen, main>>
        /\ sniffOpen /\ block = <<>>
    BY <1>3 DEF Fill, Writing, taskVars
  <2>2. Len(block') + Len(queue') = Len(queue) /\ block' \in Seq(Frame) /\ queue' \in Seq(Frame)
    BY <1>0, <1>3, FillEffect
  <2>3. Len(block') \in Nat /\ Len(queue') \in Nat
    BY <2>2, LenProperties
  <2> QED BY <1>0, <2>1, <2>2, <2>3
<1>4. CASE WriteOk
  <2>1. /\ UNCHANGED <<frames, dropped, queue, sdLost, accepted, main>>
        /\ sniffOpen /\ block' = <<>> /\ written' = written + Len(block) /\ ~last'
    BY <1>4 DEF WriteOk, Writing, taskVars
  <2> QED BY <1>0, <2>1
<1>5. CASE GoDead
  <2>1. CASE sniffOpen
    <3>1. /\ UNCHANGED <<frames, dropped, written, accepted, main>>
          /\ queue' = <<>> /\ block' = <<>> /\ ~last' /\ ~sniffOpen'
          /\ sdLost' = sdLost + Len(block) + Len(queue)
      BY <1>5, <2>1 DEF GoDead, taskVars
    <3> QED BY <1>0, <2>1, <3>1
  <2>2. CASE ~sniffOpen
    BY <1>5, <2>2 DEF GoDead, taskVars
  <2> QED BY <2>1, <2>2
<1>6. CASE Start
  <2>1. /\ queue' = <<>> /\ frames' = 0 /\ dropped' = 0 /\ accepted' = <<>> /\ main' = "open"
        /\ ~sniffOpen /\ UNCHANGED <<block, last, sniffOpen>>
    BY <1>6 DEF Start, NewSession, MainGoes, blockVars
  <2> QED BY <1>0, <2>1
<1>7. CASE OpenFile
  <2>1. /\ main = "open" /\ main' = "begin" /\ written' = 0 /\ sdLost' = 0
        /\ UNCHANGED <<queue, frames, dropped>> /\ block = <<>> /\ ~last
    BY <1>7 DEF OpenFile, MainGoes
  <2>2. block' = <<>> /\ ~last'
    BY <1>7, <2>1 DEF OpenFile
  <2> QED BY <1>0, <2>1, <2>2
<1>8. CASE Restart \/ Panic
  <2>1. /\ queue' = <<>> /\ frames' = 0 /\ dropped' = 0 /\ written' = 0 /\ sdLost' = 0
        /\ block' = <<>> /\ ~last' /\ main' = "idle"
    BY <1>8 DEF Restart, Panic, Boot
  <2> QED BY <1>0, <2>1
<1>9. ASSUME UNCHANGED <<queue, frames, dropped, written, sdLost, accepted, block, last, sniffOpen>>,
             main' = main \/ (main # "open" /\ main' # "open")
      PROVE  CountInv'
  BY <1>9
<1>10. CASE WriteFails \/ Renew \/ Refuse \/ Begin \/ Tick \/ SpeedTick \/ NoMinute \/ Minute
  BY <1>9, <1>10 DEF WriteFails, Renew, Refuse, Begin, Tick, SpeedTick, NoMinute, Minute, MainGoes,
                     countVars, fileVars, blockVars, taskVars
<1>11. CASE OffWhenOff \/ Stop \/ Stopped \/ OdoTick \/ SendEnd \/ Standby \/ OdoOff \/ Request
  BY <1>9, <1>11 DEF OffWhenOff, Stop, StopNow, Stopped, OdoTick, SendEnd, Standby, OdoOff, Request,
                     MainGoes, countVars, fileVars, blockVars, taskVars
<1>12. ASSUME NEW task \in {"main", "tele"}, Close(task) PROVE CountInv'
  BY <1>9, <1>12 DEF Close, CanStop, CloseFile, FileClosed, At, GoTo, countVars, fileVars, blockVars
<1>13. ASSUME NEW task \in {"main", "tele"}, Prepare(task) PROVE CountInv'
  BY <1>9, <1>13 DEF Prepare, At, countVars, fileVars, blockVars
<1>14. CASE UNCHANGED vars
  BY <1>9, <1>14 DEF vars, countVars, fileVars, blockVars, taskVars
<1> QED BY <1>1, <1>2, <1>3, <1>4, <1>5, <1>6, <1>7, <1>8, <1>10, <1>11, <1>12, <1>13, <1>14
        DEF Next, WriterNext, TickNext

(* No part of a sum is more than the sum.                                    *)
LEMMA PartsOfSum ==
  ASSUME NEW w \in Nat, NEW l \in Nat, NEW d \in Nat, NEW q \in Nat, NEW b \in Nat, NEW f \in Nat,
         f = w + l + d + q + b
  PROVE  d <= f /\ w <= f /\ l <= f
OBVIOUS

(* No counter exceeds the frames that came.                                  *)
LEMMA NextCountTypes ==
  ASSUME TypeInv, [Next]_vars PROVE CountTypes'
<1> USE BoundsAssumption DEF NoStats
<1>0. SeqTypes /\ SeqTypes' /\ CountInv' /\ CountInv /\ CountTypes
  BY NextSeqTypes, NextCountInv DEF TypeInv, TypeOK
<1>1. Len(queue') \in Nat /\ Len(block') \in Nat /\ Len(block) \in Nat /\ Len(queue) \in Nat
  BY <1>0, LenProperties DEF SeqTypes
<1> DEFINE Grow ==
      /\ frames' \in 0..MaxFrame /\ dropped' \in Nat /\ written' \in Nat /\ sdLost' \in Nat
      /\ probe' \in 0..MaxFrame /\ stats' \in {stats, NoStats, written'}
      /\ main' = "open" => UNCHANGED <<written, sdLost>>
<1>2. ASSUME Receive \/ Send PROVE Grow
  <2>1. PushFrame
    BY <1>2 DEF Receive, Send
  <2>2. UNCHANGED <<written, sdLost>> /\ frames' \in 0..MaxFrame /\ dropped' \in Nat
    <3>1. /\ UNCHANGED <<written, sdLost>> /\ frames' \in Frame
          /\ dropped' = dropped \/ dropped' = dropped + 1
      BY <1>0, <2>1, PushFrameEffect
    <3> QED BY <1>0, <3>1 DEF Frame, CountTypes
  <2>3. UNCHANGED <<probe, stats>>
    BY <1>2 DEF Receive, Send, fileVars, blockVars, canVars, speedVars
  <2> QED BY <1>0, <2>2, <2>3 DEF CountTypes
<1>3. ASSUME Fill \/ WriteFails PROVE Grow
  BY <1>0, <1>3 DEF CountTypes, Fill, WriteFails, countVars, canVars, speedVars
<1>4. ASSUME GoDead \/ WriteOk PROVE Grow
  <2>1. main # "open" \/ (GoDead /\ ~sniffOpen)
    <3>1. sniffOpen => main # "open"
      BY <1>0 DEF CountInv
    <3>2. WriteOk => sniffOpen
      BY DEF WriteOk, Writing
    <3> QED BY Zenon, <1>4, <3>1, <3>2
  <2>2. UNCHANGED <<frames, dropped, probe, main>>
    BY <1>4 DEF GoDead, WriteOk, canVars, speedVars, taskVars
  <2>3. written' \in Nat /\ sdLost' \in Nat /\ stats' \in {stats, NoStats, written'}
    BY <1>0, <1>1, <1>4 DEF CountTypes, GoDead, WriteOk
  <2>4. GoDead /\ ~sniffOpen => UNCHANGED <<written, sdLost>>
    BY DEF GoDead
  <2> QED BY <1>0, <2>1, <2>2, <2>3, <2>4 DEF CountTypes
<1>5. ASSUME Start \/ OpenFile \/ Restart \/ Panic PROVE Grow
  BY <1>0, <1>5 DEF CountTypes, Start, NewSession, OpenFile, MainGoes, Restart, Panic, Boot, blockVars, canVars, speedVars
<1>6. ASSUME UNCHANGED <<frames, dropped, written, sdLost, stats>>, probe' = probe \/ probe' = 0
      PROVE  Grow
  BY <1>0, <1>6 DEF CountTypes
<1>7. ASSUME Renew \/ Refuse \/ Begin \/ Tick \/ SpeedTick \/ NoMinute \/ Minute PROVE Grow
  <2>1. UNCHANGED <<frames, dropped, written, sdLost, stats>>
    BY <1>7 DEF Renew, Refuse, Begin, Tick, SpeedTick, NoMinute, Minute, countVars, fileVars, blockVars
  <2>2. probe' = probe \/ probe' = 0
    BY <1>7 DEF Renew, Refuse, Begin, Tick, SpeedTick, NoMinute, Minute, canVars, speedVars
  <2> QED BY <1>6, <2>1, <2>2
<1>8. ASSUME OffWhenOff \/ Stop \/ Stopped \/ OdoTick \/ SendEnd \/ Standby \/ OdoOff \/ Request PROVE Grow
  BY <1>6, <1>8 DEF OffWhenOff, Stop, StopNow, Stopped, OdoTick, SendEnd, Standby, OdoOff, Request,
                    countVars, fileVars, blockVars, canVars, speedVars
<1>9. ASSUME NEW task \in {"main", "tele"}, Close(task) \/ Prepare(task) PROVE Grow
  BY <1>6, <1>9 DEF Close, CanStop, CloseFile, FileClosed, Prepare, countVars, fileVars, blockVars,
                    canVars, speedVars
<1>10. ASSUME UNCHANGED vars PROVE Grow
  BY <1>6, <1>10 DEF vars, countVars, fileVars, blockVars, canVars, speedVars
<1>11. Grow
  BY <1>2, <1>3, <1>4, <1>5, <1>7, <1>8, <1>9, <1>10 DEF Next, WriterNext, TickNext
<1>12. dropped' <= frames' /\ written' <= MaxFrame /\ sdLost' <= MaxFrame
  <2>1. CASE main' # "open"
    <3>1. frames' = written' + sdLost' + dropped' + Len(queue') + Len(block')
      BY <1>0, <2>1 DEF CountInv, AllCounted
    <3>2. /\ dropped' \in Nat /\ written' \in Nat /\ sdLost' \in Nat
          /\ frames' \in 0..MaxFrame /\ frames' \in Nat
      BY <1>11
    <3>3. dropped' <= frames' /\ written' <= frames' /\ sdLost' <= frames'
      BY <1>1, <3>1, <3>2, PartsOfSum, Zenon
    <3> QED BY <3>2, <3>3
  <2>2. CASE main' = "open"
    BY <1>0, <1>1, <1>11, <2>2 DEF CountInv, CountTypes
  <2> QED BY <2>1, <2>2
<1>13. stats' \in 0..NoStats
  BY <1>0, <1>11, <1>12 DEF CountTypes
<1> QED BY <1>11, <1>12, <1>13 DEF CountTypes

(* A session is started with the minutes of a command or of NVS, and stopped *)
(* by its last minute.                                                       *)
LEMMA NextModeTypes ==
  ASSUME TypeInv, [Next]_vars PROVE ModeTypes' /\ DurationKept'
<1> USE BoundsAssumption
    DEF TypeInv, TypeOK, ModeTypes, DurationKept, None, modeVars, taskVars, MainGoes, Save
<1>1. CASE Receive \/ Fill \/ WriteOk \/ WriteFails \/ GoDead
  BY <1>1 DEF Receive, Fill, WriteOk, WriteFails, GoDead
<1>2. CASE Renew \/ Refuse \/ Request
  BY <1>2 DEF Renew, Refuse, Request
<1>3. CASE Start \/ OpenFile \/ Begin
  BY <1>3 DEF Start, NewSession, OpenFile, Begin
<1>4. CASE Tick \/ SpeedTick \/ NoMinute
  BY <1>4 DEF Tick, SpeedTick, NoMinute
<1>5. CASE Minute
  BY <1>5 DEF Minute
<1>6. CASE OffWhenOff \/ Stop \/ Standby \/ Stopped
  BY <1>6 DEF OffWhenOff, Stop, StopNow, Standby, Stopped
<1>7. CASE OdoTick \/ OdoOff \/ Send \/ SendEnd
  BY <1>7 DEF OdoTick, OdoOff, Send, SendEnd
<1>8. ASSUME NEW task \in {"main", "tele"}, Close(task) PROVE ModeTypes' /\ DurationKept'
  BY <1>8 DEF Close, CanStop, CloseFile, FileClosed, GoTo
<1>9. ASSUME NEW task \in {"main", "tele"}, Prepare(task) PROVE ModeTypes' /\ DurationKept'
  BY <1>9 DEF Prepare
<1>10. CASE Restart \/ Panic
  BY <1>10 DEF Restart, Panic, Boot
<1>11. CASE UNCHANGED vars
  BY <1>11 DEF vars
<1> QED BY <1>1, <1>2, <1>3, <1>4, <1>5, <1>6, <1>7, <1>8, <1>9, <1>10, <1>11
        DEF Next, WriterNext, TickNext

(* The tasks, the driver and the bus keep their types.                       *)
LEMMA NextTaskTypes ==
  ASSUME TypeInv, [Next]_vars PROVE TaskTypes'
<1> USE BoundsAssumption
    DEF TypeInv, TypeOK, TaskTypes, canVars, speedVars, taskVars, boundVars, MainGoes, Command, CardFails
<1>1. CASE Receive \/ Fill \/ WriteOk \/ WriteFails \/ GoDead
  BY <1>1 DEF Receive, Fill, WriteOk, WriteFails, GoDead
<1>2. CASE Renew \/ Refuse
  BY <1>2 DEF Renew, Refuse
<1>12. CASE Request
  BY <1>12 DEF Request
<1>3. CASE Start
  BY <1>3 DEF Start, NewSession
<1>14. CASE Begin
  BY <1>14 DEF Begin, CanStart
<1>13. CASE OpenFile
  <2>1. UNCHANGED <<tele, driver, speed, bus, commands>> /\ main' = "begin"
    BY <1>13 DEF OpenFile
  <2>2. fails' \in 0..MaxFail
    BY <1>13 DEF OpenFile
  <2> QED BY <2>1, <2>2
<1>4. CASE Tick \/ NoMinute \/ Minute
  BY <1>4 DEF Tick, NoMinute, Minute
<1>5. CASE SpeedTick
  <2>1. (speed % Speeds) + 1 \in 1..Speeds
    OBVIOUS
  <2> QED BY <1>5, <2>1 DEF SpeedTick
<1>6. CASE OffWhenOff \/ Stop \/ Standby \/ Stopped
  BY <1>6 DEF OffWhenOff, Stop, StopNow, Standby, Stopped
<1>7. CASE OdoTick \/ OdoOff \/ Send \/ SendEnd
  BY <1>7 DEF OdoTick, OdoOff, Send, SendEnd
<1>8. ASSUME NEW task \in {"main", "tele"}, Close(task) PROVE TaskTypes'
  BY <1>8 DEF Close, CanStop, CloseFile, FileClosed, GoTo
<1>9. ASSUME NEW task \in {"main", "tele"}, Prepare(task) PROVE TaskTypes'
  BY <1>9 DEF Prepare
<1>10. CASE Restart \/ Panic
  BY <1>10 DEF Restart, Panic, Boot
<1>11. CASE UNCHANGED vars
  BY <1>11 DEF vars
<1> QED BY <1>1, <1>2, <1>3, <1>4, <1>5, <1>6, <1>7, <1>8, <1>9, <1>10, <1>11, <1>12, <1>13, <1>14
        DEF Next, WriterNext, TickNext

(* The switches stay Boolean.                                                *)
LEMMA NextSwitchTypes ==
  ASSUME TypeInv, [Next]_vars PROVE SwitchTypes'
<1>0. SwitchTypes
  BY DEF TypeInv, TypeOK
<1> USE DEF SwitchTypes, canVars, speedVars, fileVars, blockVars, modeVars, taskVars, MainGoes
<1>1. CASE Receive
  BY Zenon, <1>0, <1>1 DEF Receive
<1>2. CASE Fill
  BY Zenon, <1>0, <1>2 DEF Fill
<1>3. CASE WriteOk
  BY Zenon, <1>0, <1>3 DEF WriteOk
<1>4. CASE WriteFails
  BY Zenon, <1>0, <1>4 DEF WriteFails
<1>5. CASE GoDead
  BY Zenon, <1>0, <1>5 DEF GoDead
<1>6. CASE Renew
  BY Zenon, <1>0, <1>6 DEF Renew
<1>7. CASE Refuse
  BY Zenon, <1>0, <1>7 DEF Refuse
<1>8. CASE Request
  BY Zenon, <1>0, <1>8 DEF Request
<1>9. CASE Start
  BY Zenon, <1>0, <1>9 DEF Start, NewSession
<1>10. CASE OpenFile
  BY Zenon, <1>0, <1>10 DEF OpenFile
<1>11. CASE Begin
  BY Zenon, <1>0, <1>11 DEF Begin
<1>12. CASE Tick
  BY Zenon, <1>0, <1>12 DEF Tick
<1>13. CASE SpeedTick
  BY ZenonT(60), <1>0, <1>13 DEF SpeedTick
<1>14. CASE NoMinute
  BY Zenon, <1>0, <1>14 DEF NoMinute
<1>15. CASE Minute
  BY Zenon, <1>0, <1>15 DEF Minute
<1>16. CASE OffWhenOff
  BY Zenon, <1>0, <1>16 DEF OffWhenOff
<1>17. CASE Stop
  BY Zenon, <1>0, <1>17 DEF Stop, StopNow
<1>18. CASE Standby
  BY Zenon, <1>0, <1>18 DEF Standby, StopNow
<1>19. CASE Stopped
  BY Zenon, <1>0, <1>19 DEF Stopped
<1>20. CASE OdoTick
  BY Zenon, <1>0, <1>20 DEF OdoTick
<1>21. CASE OdoOff
  BY Zenon, <1>0, <1>21 DEF OdoOff
<1>22. CASE Send
  BY Zenon, <1>0, <1>22 DEF Send
<1>23. CASE SendEnd
  BY Zenon, <1>0, <1>23 DEF SendEnd
<1>24. ASSUME NEW task \in {"main", "tele"}, Close(task) PROVE SwitchTypes'
  <2>1. CASE CanStop(task)
    BY Zenon, <1>0, <2>1 DEF CanStop, GoTo
  <2>2. CASE CloseFile(task)
    BY Zenon, <1>0, <2>2 DEF CloseFile, GoTo
  <2>3. CASE FileClosed(task)
    BY Zenon, <1>0, <2>3 DEF FileClosed, GoTo
  <2> QED BY <1>24, <2>1, <2>2, <2>3 DEF Close
<1>25. ASSUME NEW task \in {"main", "tele"}, Prepare(task) PROVE SwitchTypes'
  BY Zenon, <1>0, <1>25 DEF Prepare
<1>26. CASE Restart \/ Panic
  BY Zenon, <1>0, <1>26 DEF Restart, Panic, Boot
<1>27. CASE UNCHANGED vars
  BY Zenon, <1>0, <1>27 DEF vars
<1> QED BY <1>1, <1>2, <1>3, <1>4, <1>5, <1>6, <1>7, <1>8, <1>9, <1>10, <1>11, <1>12, <1>13,
           <1>14, <1>15, <1>16, <1>17, <1>18, <1>19, <1>20, <1>21, <1>22, <1>23, <1>24, <1>25,
           <1>26, <1>27
        DEF Next, WriterNext, TickNext

(* Every step keeps the types, the duration and the sum.                     *)
LEMMA NextTypes == TypeInv /\ [Next]_vars => TypeInv'
BY NextSeqTypes, NextCountTypes, NextModeTypes, NextTaskTypes, NextSwitchTypes, NextCountInv
DEF TypeInv, TypeOK

-----------------------------------------------------------------------------
(* Every step leaves the controller with its owner.                          *)
LEMMA NextOwner ==
  ASSUME TypeInv, OwnerInv, [Next]_vars PROVE OwnerInv'
<1>0. /\ odo \in BOOLEAN /\ active \in BOOLEAN /\ driver \in {"none", "sniff", "odo"}
      /\ main \in {"idle", "open", "begin", "speed", "minute", "sent", "can", "close", "wait", "closed"}
  BY DEF TypeInv, TypeOK, SwitchTypes, TaskTypes
<1> USE DEF OwnerInv, canVars, modeVars, taskVars, speedVars, MainGoes
<1>1. CASE Receive
  BY <1>0, <1>1 DEF Receive
<1>2. CASE Fill
  BY <1>0, <1>2 DEF Fill
<1>3. CASE WriteOk
  BY <1>0, <1>3 DEF WriteOk
<1>4. CASE WriteFails
  BY <1>0, <1>4 DEF WriteFails
<1>5. CASE GoDead
  BY <1>0, <1>5 DEF GoDead
<1>6. CASE Renew
  BY <1>0, <1>6 DEF Renew
<1>7. CASE Refuse
  BY <1>0, <1>7 DEF Refuse
<1>8. CASE Request
  BY <1>0, <1>8 DEF Request
<1>9. CASE Start
  BY <1>0, <1>9 DEF Start, NewSession
<1>10. CASE OpenFile
  BY <1>0, <1>10 DEF OpenFile
<1>11. CASE Begin
  BY <1>0, <1>11 DEF Begin, CanStart
<1>12. CASE Tick
  BY <1>0, <1>12 DEF Tick
<1>13. CASE SpeedTick
  BY <1>0, <1>13 DEF SpeedTick
<1>14. CASE NoMinute
  BY <1>0, <1>14 DEF NoMinute
<1>15. CASE Minute
  BY <1>0, <1>15 DEF Minute
<1>16. CASE OffWhenOff
  BY <1>0, <1>16 DEF OffWhenOff
<1>17. CASE Stop
  BY <1>0, <1>17 DEF Stop, StopNow
<1>18. CASE Standby
  BY <1>0, <1>18 DEF Standby, StopNow
<1>19. CASE Stopped
  BY <1>0, <1>19 DEF Stopped
<1>20. CASE OdoTick
  BY <1>0, <1>20 DEF OdoTick
<1>21. CASE OdoOff
  BY <1>0, <1>21 DEF OdoOff
<1>22. CASE Send
  BY <1>0, <1>22 DEF Send
<1>23. CASE SendEnd
  BY <1>0, <1>23 DEF SendEnd
<1>24. ASSUME NEW task \in {"main", "tele"}, Close(task) PROVE OwnerInv'
  <2>1. CASE CanStop(task)
    BY <1>0, <2>1 DEF CanStop, At, GoTo
  <2>2. CASE CloseFile(task)
    BY <1>0, <2>2 DEF CloseFile, At, GoTo
  <2>3. CASE FileClosed(task)
    BY <1>0, <2>3 DEF FileClosed, At, GoTo
  <2> QED BY <1>24, <2>1, <2>2, <2>3 DEF Close
<1>25. ASSUME NEW task \in {"main", "tele"}, Prepare(task) PROVE OwnerInv'
  BY <1>0, <1>25 DEF Prepare, At
<1>26. CASE Restart \/ Panic
  BY <1>0, <1>26 DEF Restart, Panic, Boot
<1>27. CASE UNCHANGED vars
  BY <1>0, <1>27 DEF vars
<1> QED BY <1>1, <1>2, <1>3, <1>4, <1>5, <1>6, <1>7, <1>8, <1>9, <1>10, <1>11, <1>12, <1>13,
           <1>14, <1>15, <1>16, <1>17, <1>18, <1>19, <1>20, <1>21, <1>22, <1>23, <1>24, <1>25,
           <1>26, <1>27
        DEF Next, WriterNext, TickNext

(* The parts of a session can be put together from either end.               *)
LEMMA Associates ==
  ASSUME NEW s \in Seq(Frame), NEW t \in Seq(Frame), NEW u \in Seq(Frame)
  PROVE  (s \o t) \o u = s \o (t \o u)
BY ConcatAssociative

(* A frame that goes to the end of the queue goes to the end of the session. *)
LEMMA PushKeepsOrder ==
  ASSUME SeqTypes, NEW f \in Frame, file \o block \o queue = accepted
  PROVE  file \o block \o Append(queue, f) = Append(accepted, f)
<1> USE DEF SeqTypes
<1>1. file \o block \in Seq(Frame) /\ <<f>> \in Seq(Frame)
  BY ConcatProperties
<1>2. Append(queue, f) = queue \o <<f>> /\ Append(accepted, f) = accepted \o <<f>>
  BY AppendIsConcat
<1>3. ((file \o block) \o queue) \o <<f>> = (file \o block) \o (queue \o <<f>>)
  <2>1. queue \in Seq(Frame)
    OBVIOUS
  <2> QED BY ONLY <1>1, <2>1, Associates
<1> QED BY <1>2, <1>3

(* A received frame leaves the file as it was: nothing is received at its    *)
(* end while no other task stops the mode.                                   *)
LEMMA PushKeepsFile ==
  ASSUME TypeInv, FileInv, PushFrame, UNCHANGED fileVars, UNCHANGED <<active, tele>>,
         tele = "idle" => /\ ~closing /\ stats = NoStats
                          /\ ~active' \/ main' \in {"idle", "sent", "speed", "minute", "can"}
  PROVE  FileInv'
<1>0. SeqTypes /\ CountTypes
  BY DEF TypeInv, TypeOK
<1>1. sniffOpen' => file' \o block' \o queue' = accepted' /\ written' = Len(file')
  <2> SUFFICES ASSUME sniffOpen PROVE file \o block \o queue' = accepted' /\ written' = Len(file)
    BY DEF fileVars, blockVars
  <2>1. file \o block \o queue = accepted /\ written = Len(file)
    BY DEF FileInv
  <2>2. CASE queue' = Append(queue, frames') /\ accepted' = Append(accepted, frames')
    BY <1>0, <2>1, <2>2, PushFrameEffect, PushKeepsOrder
  <2>3. CASE UNCHANGED <<queue, accepted>>
    BY <1>0, <2>1, <2>3, PushFrameEffect
  <2> QED BY <1>0, <2>2, <2>3, PushFrameEffect
<1>2. last' => closing' /\ sniffOpen'
  BY DEF FileInv, fileVars, blockVars
<1>3. stats' # NoStats => ~sniffOpen' /\ stats' = Len(file')
  BY DEF FileInv, fileVars, blockVars
<1>4. tele' = "idle" => ~closing' /\ ~last' /\ stats' = NoStats
  BY <1>2 DEF fileVars, blockVars
<1> QED BY <1>1, <1>2, <1>3, <1>4 DEF FileInv, NoStats

(* Every step leaves the session in the file, the block and the queue, in    *)
(* order, and a file that has its end complete.                              *)
LEMMA NextFile ==
  ASSUME TypeInv, OwnerInv, FileInv, [Next]_vars PROVE FileInv'
<1>0. /\ SeqTypes /\ CountTypes /\ SwitchTypes /\ written' \in 0..MaxFrame
      /\ main \in {"idle", "open", "begin", "speed", "minute", "sent", "can", "close", "wait", "closed"}
  BY NextCountTypes DEF TypeInv, TypeOK, TaskTypes, CountTypes
<1>a. \A s \in Seq(Frame) : s \o <<>> = s /\ <<>> \o s = s
  BY ConcatEmptySeq
<1>b. file \o block \in Seq(Frame) /\ Len(file \o block) = Len(file) + Len(block)
  BY <1>0, ConcatProperties DEF SeqTypes
<1>c. <<>> \in Seq(Frame) /\ Len(<<>>) = 0
  BY EmptySeq
<1>1. CASE Receive
  BY <1>0, <1>1, PushKeepsFile DEF Receive, FileInv, OwnerInv, fileVars, blockVars, modeVars, taskVars
<1>2. CASE Send
  BY <1>0, <1>2, PushKeepsFile DEF Send, FileInv, OwnerInv, fileVars, blockVars, modeVars, taskVars, MainGoes
<1>3. CASE Fill
  <2>1. queue' \in Seq(Frame) /\ block' \in Seq(Frame) /\ block' \o queue' = queue /\ block = <<>>
    BY <1>0, <1>3, FillEffect DEF Fill
  <2>2. sniffOpen /\ UNCHANGED <<file, accepted, written, stats, sniffOpen, closing, active, main, tele>>
    BY <1>3 DEF Fill, Writing, modeVars, taskVars
  <2>3. last' => closing /\ queue' = <<>>
    BY <1>3 DEF Fill
  <2>4. file \o block = file
    BY <1>0, <1>a, <2>1 DEF SeqTypes
  <2>5. file \o (block' \o queue') = (file \o block') \o queue'
    <3>1. file \in Seq(Frame)
      BY <1>0 DEF SeqTypes
    <3> QED BY <2>1, <3>1, Associates, Zenon
  <2>6. file' \o block' \o queue' = accepted'
    BY <2>1, <2>2, <2>4, <2>5 DEF FileInv
  <2> QED BY <2>2, <2>3, <2>6 DEF FileInv, NoStats
<1>4. CASE WriteOk
  <2>1. /\ sniffOpen /\ file' = file \o block /\ block' = <<>> /\ ~last'
        /\ written' = written + Len(block)
        /\ UNCHANGED <<queue, accepted, closing, active, main, tele>>
    BY <1>4 DEF WriteOk, Writing, modeVars, taskVars
  <2>2. file \o block \o queue = accepted /\ written = Len(file)
    BY <2>1 DEF FileInv
  <2>3. written' = Len(file')
    BY <1>b, <2>1, <2>2
  <2>4. CASE last
    <3>1. ~sniffOpen' /\ stats' = written'
      BY <1>4, <2>4 DEF WriteOk
    <3>2. tele = "idle" => file' = accepted'
      <4>1. tele = "idle" => queue = <<>>
        BY <2>4 DEF FileInv
      <4> QED BY <1>a, <1>b, <2>1, <2>2, <4>1
    <3>3. tele = "idle" => ~active /\ main \in {"wait", "closed", "idle"}
      BY <2>4 DEF FileInv
    <3> QED BY <2>1, <2>3, <3>1, <3>2, <3>3 DEF FileInv
  <2>5. CASE ~last
    <3>1. UNCHANGED <<sniffOpen, stats>>
      BY <1>4, <2>5 DEF WriteOk
    <3>2. file' \o block' \o queue' = accepted'
      BY <1>a, <1>b, <2>1, <2>2
    <3>3. stats = NoStats /\ (tele = "idle" /\ closing => ~active /\ main \in {"wait", "closed", "idle"})
      BY <2>1 DEF FileInv
    <3> QED BY <2>1, <2>3, <3>1, <3>2, <3>3 DEF FileInv, NoStats
  <2> QED BY <2>4, <2>5
<1>5. CASE GoDead
  <2>1. UNCHANGED <<file, accepted, stats, active, main, tele>>
    BY <1>5 DEF GoDead, taskVars
  <2>2. CASE sniffOpen
    BY <1>5, <2>1, <2>2 DEF GoDead, FileInv, NoStats
  <2>3. CASE ~sniffOpen
    BY <1>5, <2>1, <2>3 DEF GoDead, FileInv, NoStats
  <2> QED BY <2>2, <2>3
<1>6. CASE Start
  BY <1>6 DEF Start, NewSession, MainGoes, FileInv, blockVars, NoStats
<1>7. CASE OpenFile
  <2>1. queue = accepted /\ ~sniffOpen /\ block = <<>> /\ ~last /\ main = "open"
    BY <1>7 DEF OpenFile, TypeInv, CountInv
  <2>2. /\ file' = <<>> /\ written' = 0 /\ stats' = NoStats /\ block' = <<>> /\ ~last'
        /\ UNCHANGED <<queue, accepted, closing, active, tele>>
    BY <1>7, <2>1 DEF OpenFile, MainGoes, modeVars
  <2>3. file' \o block' \o queue' = accepted' /\ written' = Len(file')
    BY <1>0, <1>a, <1>c, <2>1, <2>2 DEF SeqTypes
  <2>4. tele = "idle" => ~closing
    BY <2>1 DEF FileInv
  <2> QED BY <2>2, <2>3, <2>4 DEF FileInv, NoStats
<1>8. CASE WriteFails
  BY <1>0, <1>8
  DEF WriteFails, MainGoes, FileInv, OwnerInv, countVars, fileVars, blockVars, modeVars, taskVars
<1>9. CASE Renew
  BY <1>0, <1>9
  DEF Renew, MainGoes, FileInv, OwnerInv, countVars, fileVars, blockVars, modeVars, taskVars
<1>10. CASE Refuse
  BY <1>0, <1>10
  DEF Refuse, MainGoes, FileInv, OwnerInv, countVars, fileVars, blockVars, modeVars, taskVars
<1>11. CASE Request
  BY <1>0, <1>11
  DEF Request, MainGoes, FileInv, OwnerInv, countVars, fileVars, blockVars, modeVars, taskVars
<1>12. CASE Begin
  BY <1>0, <1>12
  DEF Begin, CanStart, MainGoes, FileInv, OwnerInv, countVars, fileVars, blockVars, modeVars, taskVars
<1>13. CASE Tick
  BY <1>0, <1>13
  DEF Tick, MainGoes, FileInv, OwnerInv, countVars, fileVars, blockVars, modeVars, taskVars
<1>14. CASE SpeedTick
  BY <1>0, <1>14
  DEF SpeedTick, MainGoes, FileInv, OwnerInv, countVars, fileVars, blockVars, modeVars, taskVars
<1>15. CASE NoMinute
  BY <1>0, <1>15
  DEF NoMinute, MainGoes, FileInv, OwnerInv, countVars, fileVars, blockVars, modeVars, taskVars
<1>16. CASE Minute
  BY <1>0, <1>16
  DEF Minute, MainGoes, FileInv, OwnerInv, countVars, fileVars, blockVars, modeVars, taskVars
<1>17. CASE OffWhenOff
  BY <1>0, <1>17
  DEF OffWhenOff, MainGoes, FileInv, OwnerInv, countVars, fileVars, blockVars, modeVars, taskVars
<1>18. CASE Stop
  BY <1>0, <1>18
  DEF Stop, StopNow, MainGoes, FileInv, OwnerInv, countVars, fileVars, blockVars, modeVars, taskVars
<1>19. CASE Standby
  BY <1>0, <1>19
  DEF Standby, StopNow, MainGoes, FileInv, OwnerInv, countVars, fileVars, blockVars, modeVars, taskVars
<1>20. CASE Stopped
  BY <1>0, <1>20
  DEF Stopped, MainGoes, FileInv, OwnerInv, countVars, fileVars, blockVars, modeVars, taskVars
<1>21. CASE OdoTick
  BY <1>0, <1>21
  DEF OdoTick, MainGoes, FileInv, OwnerInv, countVars, fileVars, blockVars, modeVars, taskVars
<1>22. CASE OdoOff
  BY <1>0, <1>22
  DEF OdoOff, MainGoes, FileInv, OwnerInv, countVars, fileVars, blockVars, modeVars, taskVars
<1>23. CASE SendEnd
  BY <1>0, <1>23
  DEF SendEnd, MainGoes, FileInv, OwnerInv, countVars, fileVars, blockVars, modeVars, taskVars
<1>24. ASSUME NEW task \in {"main", "tele"}, Close(task) PROVE FileInv'
  <2>1. CASE CanStop(task)
    BY <1>0, <2>1 DEF CanStop, At, GoTo, FileInv, OwnerInv, countVars, fileVars, blockVars, modeVars, taskVars
  <2>2. CASE CloseFile(task)
    BY <1>0, <2>2 DEF CloseFile, At, GoTo, FileInv, OwnerInv, countVars, fileVars, blockVars, modeVars, taskVars
  <2>3. CASE FileClosed(task)
    BY <1>0, <2>3 DEF FileClosed, At, GoTo, FileInv, OwnerInv, countVars, fileVars, blockVars, modeVars, taskVars
  <2> QED BY <1>24, <2>1, <2>2, <2>3 DEF Close
<1>25. ASSUME NEW task \in {"main", "tele"}, Prepare(task) PROVE FileInv'
  BY <1>0, <1>25 DEF Prepare, At, FileInv, OwnerInv, countVars, fileVars, blockVars, modeVars, taskVars
<1>26. CASE Restart \/ Panic
  BY <1>0, <1>26 DEF Restart, Panic, Boot, FileInv, NoStats
<1>27. CASE UNCHANGED vars
  BY <1>0, <1>27 DEF vars, FileInv, OwnerInv, countVars, fileVars, blockVars, modeVars, taskVars
<1> QED BY <1>1, <1>2, <1>3, <1>4, <1>5, <1>6, <1>7, <1>8, <1>9, <1>10, <1>11, <1>12, <1>13,
           <1>14, <1>15, <1>16, <1>17, <1>18, <1>19, <1>20, <1>21, <1>22, <1>23, <1>24, <1>25,
           <1>26, <1>27
        DEF Next, WriterNext, TickNext

-----------------------------------------------------------------------------
SniffInv == TypeInv /\ OwnerInv /\ FileInv

(* The three parts of the invariant together are inductive.                  *)
LEMMA SniffInvariant == Spec => []SniffInv
<1>1. Init => SniffInv
  BY InitSniffer DEF SniffInv
<1>2. SniffInv /\ [Next]_vars => SniffInv'
  BY NextTypes, NextOwner, NextFile DEF SniffInv
<1> QED BY <1>1, <1>2, PTL DEF Spec

(* The queue and the block never hold more than they can, and every counter, *)
(* duration and place of the tasks is one of the code's.                     *)
THEOREM TypeCorrect == Spec => []TypeOK
<1>1. SniffInv => TypeOK
  BY DEF SniffInv, TypeInv
<1> QED BY <1>1, SniffInvariant, PTL

(* A stats line accounts for every frame: "written + sd_lost + dropped +     *)
(* still queued = frames" (sniff.cpp:203), for every order of the tasks, the *)
(* card's failures and the restarts.                                         *)
THEOREM FramesCounted == Spec => []AllCounted
<1>1. SniffInv => AllCounted
  BY DEF SniffInv, TypeInv, CountInv
<1> QED BY <1>1, SniffInvariant, PTL

(* The CAN controller has one owner, as long as no other task than the main  *)
(* one stops the sniffer.                                                    *)
THEOREM OneOwnerAlways == Spec => []OneOwner
<1>1. SniffInv => OneOwner
  BY DEF SniffInv, OwnerInv, OneOwner
<1> QED BY <1>1, SniffInvariant, PTL

(* An open file has the session's frames in order up to the block and the    *)
(* queue, and a file with its end has all of them and their number.          *)
THEOREM FileComplete == Spec => []FileInOrder
<1>1. SniffInv => FileInOrder
  BY DEF SniffInv, FileInv, FileInOrder
<1> QED BY <1>1, SniffInvariant, PTL
=============================================================================
