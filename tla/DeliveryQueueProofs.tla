------------------------ MODULE DeliveryQueueProofs ------------------------
(***************************************************************************)
(* What holds of the delivery queue for every number of records, boots,    *)
(* entries, packets in flight and packet numbers, and every set of events: *)
(* the types, the custody of an entry from its packet to its ACK, the      *)
(* identity of the records that are sent, and, where the card is there at  *)
(* every boot and NVS is up to date at a reset, that none is lost in       *)
(* silence.  From Cell on: that the bytes of the reserve, of any size, are *)
(* the records in order through pushes, releases, restarts and panics, and *)
(* implement the queue of RecordFifo.                                      *)
(***************************************************************************)
EXTENDS DeliveryQueue, RecordRing, FiniteSetTheorems, SequenceTheorems, WellFoundedInduction, TLAPS

(* A boot opens at most one file, and takes a file number no earlier boot    *)
(* had (lastFile is FILE_ID in NVS); a record is begun only while there is   *)
(* a number for it.                                                          *)
TypeInv ==
  /\ TypeOK
  /\ lastFile <= boot /\ (~fileKnown => lastFile < boot)
  /\ logging => made < MaxRec

(* Everything starts with its type.                                          *)
LEMMA InitTypes == Init => TypeInv
<1> SUFFICES ASSUME Init PROVE TypeInv
  OBVIOUS
<1> USE BoundsAssumption DEF Init
<1>1. RecordTypes
  BY DEF RecordTypes, Boot, NewRec
<1>2. CardTypes
  BY DEF CardTypes
<1>3. QueueTypes
  BY DEF QueueTypes, State
<1>4. ReplayTypes
  BY DEF ReplayTypes, Cursor, NoReplay, NoCursor
<1>5. FileTypes
  BY DEF FileTypes
<1>6. ServerTypes
  BY DEF ServerTypes
<1>7. SwitchTypes
  BY Zenon DEF SwitchTypes
<1>8. lastFile <= boot /\ (~fileKnown => lastFile < boot) /\ (logging => made < MaxRec)
  OBVIOUS
<1> QED
  BY <1>1, <1>2, <1>3, <1>4, <1>5, <1>6, <1>7, <1>8 DEF TypeInv, TypeOK

(* LogBegin, Push and StandbyPush number the records one by one.             *)
LEMMA NextRecordTypes ==
  ASSUME TypeInv, [Next]_vars PROVE RecordTypes' /\ (logging => made < MaxRec)'
<1> USE BoundsAssumption DEF TypeInv, TypeOK, RecordTypes, FileTypes, Boot, Rec
<1>1. CASE MainTask
  <2>1. CASE LogBegin
    BY <2>1 DEF LogBegin
  <2>2. CASE Push
    BY <2>2 DEF Push, Finish, Home
  <2>3. CASE EnterStandby
    BY <2>3 DEF EnterStandby, recVars
  <2>4. CASE Purge
    BY <2>4 DEF Purge, recVars
  <2>5. ASSUME NEW c \in CardsAtBoot, SetFile(c) PROVE RecordTypes' /\ (logging => made < MaxRec)'
    BY <2>5 DEF SetFile, recVars
  <2> QED BY <1>1, <2>1, <2>2, <2>3, <2>4, <2>5 DEF MainTask
<1>2. CASE SdWriterTask
  BY <1>2 DEF SdWriterTask, SdFlush, Confirm, GoDead, recVars
<1>3. CASE TelemetryTask
  <2>1. CASE StandbyPush
    BY <2>1 DEF StandbyPush, Finish, Home
  <2>2. CASE NextPacket
    BY SMTT(60), <2>2 DEF NextPacket, NextInOrder, SendNewest, SendQueued, SendReplay, ReplayEnds, ReplayNextFile, ReplayAbandoned, ReplayDeferred, recVars
  <2>3. CASE ~StandbyPush /\ ~NextPacket
    BY <1>3, <2>3 DEF TelemetryTask, Expire, Save, OnAck, OnLateAck, Resend, recVars
  <2> QED BY <2>1, <2>2, <2>3 
<1>4. CASE Network
  BY <1>4 DEF Network, Deliver, Lose, recVars
<1>5. CASE Reset
  <2>1. ASSUME NEW c, NEW kept, Reboot(c, kept) PROVE RecordTypes' /\ (logging => made < MaxRec)'
    BY <2>1 DEF Reboot
  <2>2. CASE PowerLoss
    BY <2>1, <2>2 DEF PowerLoss
  <2>3. CASE Restart \/ Panic \/ Damage
    BY <2>1, <2>3 DEF Restart, Panic, Damage, KeptReboot
  <2> QED BY <1>5, <2>2, <2>3 DEF Reset
<1>6. CASE UNCHANGED vars
  BY <1>6 DEF vars, recVars
<1> QED BY <1>1, <1>2, <1>3, <1>4, <1>5, <1>6 DEF Next

(* The SD writer and the resets keep the types of the card.                  *)
LEMMA NextCardTypes ==
  ASSUME TypeInv, [Next]_vars PROVE CardTypes'
<1> USE BoundsAssumption DEF TypeInv, TypeOK, RecordTypes, CardTypes, FileTypes, Boot, File, Rec
<1>1. CASE LogBegin \/ Push \/ EnterStandby \/ Purge
  BY <1>1 DEF LogBegin, Push, Finish, EnterStandby, Flushed, Purge, cardVars
<1>2. ASSUME NEW c \in CardsAtBoot, SetFile(c) PROVE CardTypes'
  <2>1. lastFile + 1 \in 1..MaxBoot
    BY <1>2 DEF SetFile
  <2>2. files' \subseteq 1..MaxBoot
    BY ZenonT(60), <1>2, <2>1 DEF SetFile
  <2>3. card' \in {"none", "ok", "nofile", "dead"}
    BY <1>2 DEF SetFile, CardsAtBoot
  <2> QED BY <1>2, <2>2, <2>3 DEF SetFile
<1>3. CASE SdWriterTask
  BY <1>3 DEF SdWriterTask, SdFlush, Flushed, Confirm, GoDead, cardVars
<1>4. CASE TelemetryTask
  <2>1. CASE StandbyPush
    BY <2>1 DEF StandbyPush, Finish, cardVars
  <2>2. CASE NextPacket
    BY <2>2 DEF NextPacket, NextInOrder, SendNewest, SendQueued, SendReplay, ReplayEnds,
                ReplayNextFile, ReplayAbandoned, ReplayDeferred, cardVars
  <2>3. CASE ~StandbyPush /\ ~NextPacket
    BY <1>4, <2>3 DEF TelemetryTask, Expire, Save, OnAck, OnLateAck, Resend, cardVars
  <2> QED BY <2>1, <2>2, <2>3
<1>5. CASE Network
  BY <1>5 DEF Network, Deliver, Lose, cardVars
<1>6. CASE Reset
  BY <1>6 DEF Reset, Restart, Panic, Damage, PowerLoss, KeptReboot, Reboot, Flushed
<1>7. CASE UNCHANGED vars
  BY <1>7 DEF vars, cardVars
<1> QED BY <1>1, <1>2, <1>3, <1>4, <1>5, <1>6, <1>7 DEF Next, MainTask

(* The record in the making has a number in Rec.                             *)
LEMMA RoomForRecord ==
  ASSUME TypeInv, Push \/ StandbyPush PROVE made + 1 \in Rec
<1>1. made < MaxRec
  BY DEF Push, StandbyPush
<1>2. made \in 0..MaxRec
  BY DEF TypeInv, TypeOK, RecordTypes
<1> QED BY <1>1, <1>2, BoundsAssumption DEF Rec

(* Push, packets, ACKs, timeouts and resets keep the types of the queue.     *)
LEMMA NextQueueTypes ==
  ASSUME TypeInv, [Next]_vars PROVE QueueTypes'
<1> USE BoundsAssumption DEF TypeInv, TypeOK, RecordTypes, QueueTypes, Rec, State
<1>1. CASE Push \/ StandbyPush
  <2>1. ASSUME NEW r \in Rec, NEW flagged, PushLocked(r, flagged)
        PROVE  /\ st' \in [Rec -> State] /\ pkt' \in [Rec -> {0} \cup PacketNo]
               /\ confirmed' \subseteq Rec /\ standby' \subseteq Rec
    BY <2>1 DEF PushLocked
  <2>2. made + 1 \in Rec
    BY <1>1, RoomForRecord
  <2>3. CASE Push
    BY <2>1, <2>2, <2>3 DEF Push, queueVars
  <2>4. CASE StandbyPush
    BY <2>1, <2>2, <2>4 DEF StandbyPush, queueVars
  <2> QED BY <1>1, <2>3, <2>4
<1>2. CASE LogBegin \/ EnterStandby \/ Purge \/ SdWriterTask \/ \E c \in CardsAtBoot : SetFile(c)
  BY <1>2 DEF LogBegin, EnterStandby, Purge, SetFile, SdWriterTask, SdFlush, Confirm, GoDead,
              Queue, queueVars
<1>3. CASE NextPacket
  <2>1. ASSUME NEW n \in PacketNo, NEW b, NEW R, SendEntries(n, b, R), 
               UNCHANGED <<confirmed, standby, spiffs>>
        PROVE  QueueTypes'
    BY <2>1 DEF SendEntries
  <2>2. CASE SendNewest
    BY <2>1, <2>2 DEF SendNewest
  <2>3. CASE SendReplay \/ ReplayNextFile
    BY <2>3 DEF SendReplay, ReplayNextFile, queueVars
  <2>4. CASE SendQueued \/ ReplayEnds \/ ReplayAbandoned \/ ReplayDeferred
    BY <2>1, <2>4 DEF SendQueued, ReplayEnds, ReplayAbandoned, ReplayDeferred,
                      QueuePacketOrNone, QueuePacket
  <2> QED BY <1>3, <2>2, <2>3, <2>4 DEF NextPacket, NextInOrder
<1>4. CASE Expire
  BY <1>4 DEF Expire, Returned
<1>5. ASSUME NEW n \in acks, OnAck(n) PROVE QueueTypes'
  <2>1. ASSUME NEW fl \in flights, AckReplay(fl) PROVE QueueTypes'
    BY <2>1 DEF AckReplay, queueVars
  <2>2. ASSUME NEW fl \in flights, AckEntries(fl) PROVE QueueTypes'
    <3>1. st' \in [Rec -> State]
      BY <2>2 DEF AckEntries, Released, Acked
    <3>2. pkt' \in [Rec -> {0} \cup PacketNo]
      BY <2>2 DEF AckEntries
    <3>3. confirmed' \subseteq Rec /\ standby' \subseteq Rec
      BY <2>2 DEF AckEntries
    <3>4. spiffs' \subseteq Rec
      BY <2>2 DEF AckEntries, SbFileAfter
    <3> QED BY <3>1, <3>2, <3>3, <3>4
  <2> QED BY <1>5, <2>1, <2>2 DEF OnAck
<1>6. CASE Save \/ (\E n \in acks : OnLateAck(n)) \/ \E f \in files : Resend(f)
  BY <1>6 DEF Save, OnLateAck, Resend, queueVars
<1>7. CASE Network
  BY <1>7 DEF Network, Deliver, Lose, queueVars
<1>8. CASE Reset
  <2>1. ASSUME NEW c, NEW S, KeptReboot(c, S) PROVE QueueTypes'
    <3>1. st' \in [Rec -> State]
      BY <2>1 DEF KeptReboot, Revalidated
    <3>2. pkt' \in [Rec -> {0} \cup PacketNo]
      BY <2>1 DEF KeptReboot, Reboot
    <3>3. confirmed' \subseteq Rec /\ standby' \subseteq Rec
      BY <2>1 DEF KeptReboot
    <3>4. spiffs' \subseteq Rec
      BY <2>1 DEF KeptReboot, SbFileAfter
    <3> QED BY <3>1, <3>2, <3>3, <3>4
  <2>2. CASE PowerLoss
    BY <2>2 DEF PowerLoss, Reboot
  <2>3. CASE Restart \/ Panic \/ Damage
    BY <2>1, <2>3 DEF Restart, Panic, Damage
  <2> QED BY <1>8, <2>2, <2>3 DEF Reset
<1>9. CASE UNCHANGED vars
  BY <1>9 DEF vars, queueVars
<1> QED BY <1>1, <1>2, <1>3, <1>4, <1>5, <1>6, <1>7, <1>8, <1>9 DEF Next, MainTask, TelemetryTask

(* The replay and the saved cursor stay in files that exist.                 *)
LEMMA NextReplayTypes ==
  ASSUME TypeInv, [Next]_vars PROVE ReplayTypes'
<1> USE BoundsAssumption DEF TypeInv, TypeOK, RecordTypes, ReplayTypes, FileTypes
<1> DEFINE Replay == [on : BOOLEAN, file : 0..MaxBoot, ts : 0..MaxRec + 1]
<1>0. NoReplay \in Replay
  BY DEF NoReplay
<1>1. ASSUME NEW r \in Rec, NEW flagged, PushLocked(r, flagged) PROVE replay' \in Replay
  <2>1. ASSUME NEW o \in Rec, Drop(o) PROVE replay' \in Replay
    <3>1. ReplayAt(rec[o].file, o) \in Replay
      BY DEF ReplayAt, Rec
    <3>2. replay' = replay \/ replay' = ReplayAt(rec[o].file, o)
      BY <2>1 DEF Drop
    <3> QED BY <3>1, <3>2
  <2> QED BY <1>1, <2>1 DEF PushLocked, Dropped, Queue
<1>2. CASE Push \/ StandbyPush
  <2>1. made + 1 \in Rec
    BY <1>2, RoomForRecord
  <2> QED BY <1>1, <1>2, <2>1 DEF Push, StandbyPush, Finish
<1>3. CASE LogBegin \/ EnterStandby \/ Purge \/ SdWriterTask \/ \E c \in CardsAtBoot : SetFile(c)
  BY <1>3 DEF LogBegin, EnterStandby, Purge, SetFile, SdWriterTask, SdFlush, Confirm, GoDead
<1>4. CASE NextPacket
  <2>1. ASSUME NEW n \in PacketNo, NEW b, NEW R, SendEntries(n, b, R) PROVE flights' \subseteq Flight
    <3>1. QueueFlight(n) \in Flight
      BY DEF QueueFlight, Flight
    <3> QED BY <2>1, <3>1 DEF SendEntries
  <2>2. CASE SendNewest \/ SendQueued
    BY <2>1, <2>2 DEF SendNewest, SendQueued, QueuePacket
  <2>3. CASE SendReplay
    <3>1. ASSUME NEW n \in PacketNo, NEW R, NEW t \in 0..MaxRec + 1
          PROVE ReplayFlight(n, R, t) \in Flight
      BY DEF ReplayFlight, Flight, AtEof
    <3> QED BY <2>3, <3>1 DEF SendReplay
  <2>4. CASE ReplayEnds \/ ReplayAbandoned
    BY <1>0, <2>1, <2>4 DEF ReplayEnds, ReplayAbandoned, QueuePacketOrNone, QueuePacket
  <2>5. CASE ReplayDeferred
    BY <1>0, <2>1, <2>5 DEF ReplayDeferred, QueuePacketOrNone, QueuePacket, Cursor
  <2>6. CASE ReplayNextFile
    BY <2>6 DEF ReplayNextFile, NextFile, ReplayAt
  <2> QED BY <1>4, <2>2, <2>3, <2>4, <2>5, <2>6 DEF NextPacket, NextInOrder
<1>5. ASSUME NEW n \in acks, OnAck(n) PROVE ReplayTypes'
  <2>1. ASSUME NEW fl \in flights, AckReplay(fl) PROVE replay' \in Replay
    BY <2>1 DEF AckReplay, AfterReplayAck, NextFile, ReplayAt, Flight
  <2> QED BY <1>5, <2>1 DEF OnAck, AckEntries
<1>6. CASE Expire \/ Save \/ \E n \in acks : OnLateAck(n)
  BY <1>6 DEF Expire, Save, OnLateAck
<1>7. ASSUME NEW f \in files, Resend(f) PROVE ReplayTypes'
  BY <1>7 DEF Resend, ReplayAt, Cursor, CardTypes, File
<1>8. CASE Network
  BY <1>8 DEF Network, Deliver, Lose
<1>9. CASE Reset
  <2>1. ASSUME NEW c \in Cursor, NEW kept, Reboot(c, kept) PROVE ReplayTypes'
    BY <1>0, <2>1 DEF Reboot, ReplayFrom, ReplayAt, Cursor
  <2>2. CASE PowerLoss
    BY <2>1, <2>2 DEF PowerLoss
  <2>3. CASE Restart \/ Panic \/ Damage
    BY <2>1, <2>3 DEF Restart, Panic, Damage, KeptReboot
  <2> QED BY <1>9, <2>2, <2>3 DEF Reset
<1>10. CASE UNCHANGED vars
  BY <1>10 DEF vars
<1> QED BY <1>2, <1>3, <1>4, <1>5, <1>6, <1>7, <1>8, <1>9, <1>10 DEF Next, MainTask, TelemetryTask

(* initialize() opens one new file a boot, resets open none.                 *)
LEMMA NextFileTypes ==
  ASSUME TypeInv, [Next]_vars
  PROVE  FileTypes' /\ (lastFile <= boot)' /\ (~fileKnown => lastFile < boot)'
<1> USE BoundsAssumption DEF TypeInv, TypeOK, RecordTypes, FileTypes, Boot
<1>1. CASE LogBegin \/ Push \/ EnterStandby \/ Purge \/ SdWriterTask
  <2>1. CASE LogBegin \/ Push \/ Purge \/ SdFlush \/ Confirm
    BY <2>1 DEF LogBegin, Push, Finish, Purge, SdFlush, Confirm, fileVars
  <2>2. CASE EnterStandby \/ GoDead
    BY <2>2 DEF EnterStandby, GoDead
  <2> QED BY <1>1, <2>1, <2>2 DEF SdWriterTask
<1>2. ASSUME NEW c \in CardsAtBoot, SetFile(c)
      PROVE  FileTypes' /\ (lastFile <= boot)' /\ (~fileKnown => lastFile < boot)'
  BY <1>2 DEF SetFile
<1>3. CASE TelemetryTask
  <2>1. CASE StandbyPush
    BY <2>1 DEF StandbyPush, Finish, fileVars
  <2>2. CASE NextPacket
    BY <2>2 DEF NextPacket, NextInOrder, SendNewest, SendQueued, SendReplay, ReplayEnds,
                ReplayNextFile, ReplayAbandoned, ReplayDeferred, fileVars
  <2>3. CASE ~StandbyPush /\ ~NextPacket
    BY <1>3, <2>3 DEF TelemetryTask, Expire, Save, OnAck, OnLateAck, Resend, fileVars
  <2> QED BY <2>1, <2>2, <2>3
<1>4. CASE Network
  BY <1>4 DEF Network, Deliver, Lose, fileVars
<1>5. CASE Reset
  <2>1. ASSUME NEW c, NEW kept, Reboot(c, kept)
        PROVE  FileTypes' /\ (lastFile <= boot)' /\ (~fileKnown => lastFile < boot)'
    BY <2>1 DEF Reboot
  <2>2. CASE PowerLoss
    BY <2>1, <2>2 DEF PowerLoss
  <2>3. CASE Restart \/ Panic \/ Damage
    BY <2>1, <2>3 DEF Restart, Panic, Damage, KeptReboot
  <2> QED BY <1>5, <2>2, <2>3 DEF Reset
<1>6. CASE UNCHANGED vars
  BY <1>6 DEF vars, fileVars
<1> QED BY <1>1, <1>2, <1>3, <1>4, <1>5, <1>6 DEF Next, MainTask

(* The flags of the boot stay Boolean.                                       *)
LEMMA NextSwitchTypes ==
  ASSUME TypeInv, [Next]_vars PROVE SwitchTypes'
<1> USE DEF TypeInv, TypeOK, SwitchTypes
<1>1. CASE MainTask \/ SdWriterTask \/ Network
  BY Zenon, <1>1 DEF MainTask, LogBegin, Push, Finish, EnterStandby, Purge, SetFile, SdWriterTask,
                     SdFlush, Confirm, GoDead, Network, Deliver, Lose, recVars, fileVars
<1>2. CASE TelemetryTask
  <2>1. CASE StandbyPush
    BY Zenon, <2>1 DEF StandbyPush, Finish, fileVars
  <2>2. CASE NextPacket
    BY Zenon, <2>2 DEF NextPacket, NextInOrder, SendNewest, SendQueued, SendReplay, ReplayEnds,
                       ReplayNextFile, ReplayAbandoned, ReplayDeferred, recVars, fileVars
  <2>3. CASE ~StandbyPush /\ ~NextPacket
    BY Zenon, <1>2, <2>3 DEF TelemetryTask, Expire, Save, OnAck, OnLateAck, Resend, recVars, fileVars
  <2> QED BY <2>1, <2>2, <2>3
<1>3. CASE Reset
  <2>1. ASSUME NEW c, NEW kept, Reboot(c, kept) PROVE SwitchTypes'
    BY Zenon, <2>1 DEF Reboot
  <2> QED BY Zenon, <1>3, <2>1 DEF Reset, Restart, Panic, Damage, PowerLoss, KeptReboot
<1>4. CASE UNCHANGED vars
  BY Zenon, <1>4 DEF vars, recVars, fileVars
<1> QED BY <1>1, <1>2, <1>3, <1>4 DEF Next

(* Packets hold records, the server stores them under boot numbers.          *)
LEMMA NextServerTypes ==
  ASSUME TypeInv, [Next]_vars PROVE ServerTypes'
<1> USE BoundsAssumption DEF TypeInv, TypeOK, RecordTypes, ServerTypes
<1>1. CASE LogBegin \/ EnterStandby \/ Purge \/ SdWriterTask \/ \E c \in CardsAtBoot : SetFile(c)
  BY <1>1 DEF LogBegin, EnterStandby, Purge, SetFile, SdWriterTask, SdFlush, Confirm, GoDead,
              netVars, history
<1>2. CASE Push \/ StandbyPush
  <2>1. made + 1 \in Rec
    BY <1>2, RoomForRecord
  <2>2. ASSUME NEW r, NEW flagged, PushLocked(r, flagged) PROVE lost' \subseteq Rec
    BY <2>2 DEF PushLocked, Drop, Dropped, Queue
  <2>3. lost' \subseteq Rec /\ excused' \subseteq Rec
    BY <1>2, <2>1, <2>2 DEF Push, StandbyPush
  <2>4. UNCHANGED <<net, acks, stored>>
    BY <1>2 DEF Push, StandbyPush, Finish, netVars
  <2> QED BY <2>3, <2>4
<1>3. CASE NextPacket
  <2>1. ASSUME NEW n \in PacketNo, NEW r \in Rec, NEW R \in SUBSET Rec
        PROVE  Packet(n, rec[r].boot, R) \in [no : PacketNo, boot : 0..MaxBoot, recs : SUBSET Rec]
    BY DEF Packet
  <2> DEFINE NetType == net' \subseteq [no : PacketNo, boot : 0..MaxBoot, recs : SUBSET Rec]
  <2>7. ASSUME NEW n \in PacketNo, NEW r \in Rec, NEW R \in SUBSET Rec,
               SendEntries(n, rec[r].boot, R)
        PROVE  NetType
    BY <2>1, <2>7 DEF SendEntries
  <2>8. Pending \subseteq Rec
    BY DEF Pending, Queue
  <2>9. ASSUME QueuePacket PROVE NetType
    <3>1. PICK f \in Pending, R \in SUBSET Pending, n \in PacketNo : SendEntries(n, rec[f].boot, R)
      BY <2>9 DEF QueuePacket
    <3>2. f \in Rec /\ R \in SUBSET Rec
      BY <2>8
    <3> QED BY <2>7, <3>1, <3>2
  <2>10. CASE SendNewest
    <3>1. PICK l \in Pending, n \in PacketNo : SendEntries(n, rec[l].boot, {l})
      BY <2>10 DEF SendNewest
    <3>2. l \in Rec /\ {l} \in SUBSET Rec
      BY <2>8
    <3>3. NetType
      BY <2>7, <3>1, <3>2
    <3> QED BY <2>10, <3>3 DEF SendNewest, history
  <2>2. CASE SendQueued
    BY <2>9, <2>2 DEF SendQueued, history
  <2>3. CASE SendReplay
    BY <2>1, <2>3 DEF SendReplay, ToSend, Lines, history
  <2>4. GivenUp(replay.file) \subseteq Rec
    BY DEF GivenUp, Rec
  <2>5. CASE ReplayEnds \/ ReplayAbandoned \/ ReplayDeferred
    <3>1. NetType
      BY <2>5, <2>9 DEF ReplayEnds, ReplayAbandoned, ReplayDeferred, QueuePacketOrNone
    <3> QED BY <2>4, <2>5, <3>1 DEF ReplayEnds, ReplayAbandoned, ReplayDeferred, history
  <2>6. CASE ReplayNextFile
    BY <2>4, <2>6 DEF ReplayNextFile, netVars
  <2> QED BY <1>3, <2>2, <2>3, <2>5, <2>6, <2>10 DEF NextPacket, NextInOrder
<1>4. CASE Expire \/ Save \/ \E n \in acks : OnAck(n) \/ OnLateAck(n)
  BY <1>4 DEF Expire, Save, OnAck, OnLateAck, netVars, history
<1>5. CASE \E f \in files : Resend(f)
  BY <1>5 DEF Resend, netVars, history
<1>6. ASSUME NEW p \in net, Deliver(p) PROVE ServerTypes'
  BY <1>6 DEF Deliver
<1>7. CASE Lose
  BY <1>7 DEF Lose, history
<1>8. CASE Reset
  <2>1. logging => made + 1 \in Rec
    BY DEF Rec
  <2>2. ASSUME NEW c, NEW S, KeptReboot(c, S) PROVE ServerTypes'
    BY <2>1, <2>2 DEF KeptReboot, Reboot
  <2>3. CASE PowerLoss
    BY <2>1, <2>3 DEF PowerLoss, Reboot, OnlyInRam, Waiting, Queue
  <2>4. CASE Restart \/ Panic \/ Damage
    BY <2>2, <2>4 DEF Restart, Panic, Damage
  <2> QED BY <1>8, <2>3, <2>4 DEF Reset
<1>9. CASE UNCHANGED vars
  BY <1>9 DEF vars, netVars, history
<1> QED
  BY <1>1, <1>2, <1>3, <1>4, <1>5, <1>6, <1>7, <1>8, <1>9
  DEF Next, MainTask, TelemetryTask, Network

(* TypeInv is the inductive form of TypeOK: a new file is opened only in a   *)
(* boot that has none, a record is begun only while there is room for it.    *)
LEMMA NextTypes == TypeInv /\ [Next]_vars => TypeInv'
BY NextRecordTypes, NextCardTypes, NextQueueTypes, NextReplayTypes, NextFileTypes,
   NextSwitchTypes, NextServerTypes
DEF TypeInv, TypeOK

(* Type correctness, for every value of the constants.                       *)
THEOREM TypeCorrect == Spec => []TypeOK
<1>1. TypeInv => TypeOK
  BY DEF TypeInv
<1> QED BY InitTypes, NextTypes, <1>1, PTL DEF Spec

-----------------------------------------------------------------------------
(* The queue lets go of a record on the server's word only.  An ACK carries  *)
(* nothing but a packet number, so this needs all of CustodyInv: a number    *)
(* under way belongs to one flight, every packet that carries it has all of  *)
(* the entries the flight has, under their boot number, and an ACK that      *)
(* carries it came after such a packet was stored.                           *)

HeldAreMade   == \A r \in Rec : st[r] # "none" \/ r \in spiffs => r <= made
NumbersUnique == \A fl, gl \in flights : fl.no = gl.no => fl = gl
PacketsCarry  ==
  \A r \in Rec : st[r] = "inflight" =>
    \A p \in net : p.no = pkt[r] => p.boot = rec[r].boot /\ r \in p.recs
AcksTrue      == \A r \in Rec : st[r] = "inflight" /\ pkt[r] \in acks => Stored(r)

CustodyInv ==
  /\ HeldAreMade /\ NumbersUnique /\ NeverStranded
  /\ PacketsCarry /\ AcksTrue /\ AckedIsStored

BootsKept == \A r \in Rec : r <= made => rec'[r].boot = rec[r].boot

(* Nothing is held, sent or acked at first.                                  *)
LEMMA InitCustody == Init => CustodyInv
BY DEF Init, CustodyInv, HeldAreMade, NumbersUnique, NeverStranded, PacketsCarry, AcksTrue,
       AckedIsStored

(* Steps that send, take back and confirm nothing: packets, ACKs and replay  *)
(* flights may at most be lost.                                              *)
LEMMA QuietStep ==
  ASSUME TypeInv, CustodyInv, UNCHANGED <<st, pkt, stored>>, BootsKept,
         made' \in Nat, made <= made', net' \subseteq net, acks' \subseteq acks,
         flights' \subseteq flights, \A fl \in flights : ~fl.sd => fl \in flights',
         spiffs' \subseteq spiffs
  PROVE  CustodyInv'
<1> USE DEF CustodyInv, BootsKept, HeldAreMade
<1>1. made \in Nat
  BY BoundsAssumption DEF TypeInv, TypeOK, RecordTypes
<1>2. HeldAreMade'
  BY <1>1 DEF Rec
<1>3. NumbersUnique'
  BY DEF NumbersUnique
<1>4. NeverStranded'
  BY DEF NeverStranded
<1>5. PacketsCarry'
  BY DEF PacketsCarry
<1>6. AcksTrue' /\ AckedIsStored'
  BY DEF AcksTrue, AckedIsStored, Stored
<1> QED BY <1>2, <1>3, <1>4, <1>5, <1>6

(* A new packet of queue entries: nothing carries its number yet.            *)
LEMMA SendStep ==
  ASSUME TypeInv, CustodyInv, NEW n \in PacketNo, NEW b, NEW R \in SUBSET Pending,
         NewNo(n), \A r \in R : rec[r].boot = b, SendEntries(n, b, R),
         UNCHANGED <<made, rec, spiffs, acks, stored>>
  PROVE  CustodyInv'
<1> USE DEF CustodyInv
<1>1. n \notin InUse
  BY DEF NewNo, IsLeast
<1>2. \A fl \in flights : fl.no # n
  BY <1>1 DEF InUse
<1>3. (\A p \in net : p.no # n) /\ n \notin acks
  BY <1>1 DEF InUse
<1>4. \A r \in R : st[r] = "pending" /\ r \in Rec
  BY DEF Pending, Queue
<1>5. \A r \in Rec : st'[r] = IF r \in R THEN "inflight" ELSE st[r]
  BY DEF SendEntries
<1>6. \A r \in Rec : pkt'[r] = IF r \in R THEN n ELSE pkt[r]
  BY DEF SendEntries
<1>7. \A r \in Rec : st[r] = "inflight" => pkt[r] # n
  BY <1>2 DEF NeverStranded
<1>8. HeldAreMade'
  BY <1>4, <1>5 DEF HeldAreMade
<1>9. /\ flights' = flights \cup {QueueFlight(n)}
      /\ QueueFlight(n).no = n /\ ~QueueFlight(n).sd
  <2> HIDE DEF CustodyInv
  <2> QED BY DEF SendEntries, QueueFlight
<1>10. NumbersUnique' /\ NeverStranded'
  <2>1. NumbersUnique'
    BY <1>2, <1>9 DEF NumbersUnique
  <2>2. NeverStranded'
    BY <1>5, <1>6, <1>9 DEF NeverStranded
  <2> QED BY <2>1, <2>2
<1>11. PacketsCarry'
  <2> SUFFICES ASSUME NEW r \in Rec, st'[r] = "inflight", NEW p \in net', p.no = pkt'[r]
               PROVE  p.boot = rec[r].boot /\ r \in p.recs
    BY DEF PacketsCarry
  <2>1. p \in net \/ p = Packet(n, b, R)
    BY DEF SendEntries
  <2>2. CASE r \in R
    BY <1>3, <1>6, <2>1, <2>2 DEF Packet
  <2>3. CASE r \notin R
    BY <1>5, <1>6, <1>7, <2>1, <2>3 DEF PacketsCarry, Packet
  <2> QED BY <2>2, <2>3
<1>12. AcksTrue' /\ AckedIsStored'
  BY <1>3, <1>5, <1>6 DEF AcksTrue, AckedIsStored, Stored
<1> QED BY <1>8, <1>10, <1>11, <1>12

(* txqNextPacket() fills a packet from the oldest entry on, and stops where  *)
(* the boot changes: one boot number is right for all of them.               *)
LEMMA QueuePacketStep ==
  ASSUME TypeInv, CustodyInv, QueuePacket, UNCHANGED <<made, rec, spiffs, acks, stored>>
  PROVE  CustodyInv'
<1>1. PICK f \in Pending, R \in SUBSET Pending, n \in PacketNo :
        IsLeast(f, Pending) /\ Fits(R) /\ NewNo(n) /\ SendEntries(n, rec[f].boot, R)
  BY DEF QueuePacket
<1>2. \A r \in R : rec[r].boot = rec[f].boot
  <2> SUFFICES ASSUME NEW r \in R PROVE rec[r].boot = rec[f].boot
    OBVIOUS
  <2>2. r \in Nat /\ f \in Nat /\ f <= r
    BY <1>1, BoundsAssumption DEF IsLeast, Pending, Queue, Rec
  <2>3. f \in R
    BY <1>1, <2>2 DEF Fits, Oldest
  <2> QED BY <1>1, <2>3 DEF Fits, OneBoot
<1> QED BY <1>1, <1>2, SendStep

(* A replay packet has a fresh number and no entry of the queue in it.       *)
LEMMA SendReplayStep ==
  ASSUME TypeInv, CustodyInv, SendReplay PROVE CustodyInv'
<1> USE DEF CustodyInv, SendReplay
<1>0. UNCHANGED <<st, pkt, made, rec, spiffs, acks, stored>>
  BY DEF queueVars, recVars, history
<1>1. PICK n \in PacketNo, R \in SUBSET ToSend, t \in 0..MaxRec + 1 :
        /\ NewNo(n)
        /\ flights' = flights \cup {ReplayFlight(n, R, t)}
        /\ \E r \in R : net' = net \cup {Packet(n, rec[r].boot, R \ Growing(R))}
  OBVIOUS
<1>2. (\A fl \in flights : fl.no # n) /\ \A p \in net : p.no # n
  BY <1>1 DEF NewNo, IsLeast, InUse
<1>3. \A p \in net' : p \in net \/ p.no = n
  BY <1>1 DEF Packet
<1>4. ReplayFlight(n, R, t).no = n
  BY DEF ReplayFlight
<1>5. HeldAreMade' /\ AcksTrue' /\ AckedIsStored'
  BY <1>0 DEF HeldAreMade, AcksTrue, AckedIsStored, Stored
<1>6. NumbersUnique'
  BY <1>1, <1>2, <1>4 DEF NumbersUnique
<1>7. NeverStranded'
  BY <1>0, <1>1 DEF NeverStranded
<1>8. PacketsCarry'
  BY <1>0, <1>2, <1>3 DEF PacketsCarry, NeverStranded
<1> QED BY <1>5, <1>6, <1>7, <1>8

(* A new record is pushed, or thinned out.                                   *)
LEMMA PushStep ==
  ASSUME TypeInv, CustodyInv, Push \/ StandbyPush PROVE CustodyInv'
<1> USE DEF CustodyInv
<1>0. made \in Nat /\ made + 1 \in Rec /\ made' = made + 1
  <2>1. made \in Nat
    BY BoundsAssumption DEF TypeInv, TypeOK, RecordTypes
  <2> QED BY <2>1, RoomForRecord DEF Push, StandbyPush, Finish
<1>1. UNCHANGED <<flights, net, acks, stored>>
  BY DEF Push, StandbyPush, Finish, netVars
<1>2. BootsKept
  <2>1. rec \in [Rec -> [boot : 0..MaxBoot, home : 0..MaxBoot, file : 0..MaxBoot]]
    BY DEF TypeInv, TypeOK, RecordTypes
  <2>2. \A r \in Rec : r <= made => r # made + 1
    BY <1>0
  <2>3. \E b : rec' = [rec EXCEPT ![made + 1] = b]
    BY DEF Push, StandbyPush, Finish
  <2> QED BY <2>1, <2>2, <2>3 DEF BootsKept
<1>3. \A r \in Rec : \/ r = made + 1 /\ st'[r] = "pending"
                     \/ st'[r] = "none"
                     \/ st'[r] = st[r] /\ pkt'[r] = pkt[r]
  <2>1. ASSUME NEW flagged, PushLocked(made + 1, flagged)
        PROVE  \A r \in Rec : \/ r = made + 1 /\ st'[r] = "pending"
                              \/ st'[r] = "none"
                              \/ st'[r] = st[r] /\ pkt'[r] = pkt[r]
    BY <2>1 DEF PushLocked
  <2> QED BY <2>1 DEF Push, StandbyPush, queueVars
<1>4. spiffs' \subseteq spiffs \cup {made + 1}
  BY DEF Push, StandbyPush
<1>5. HeldAreMade'
  BY <1>0, <1>3, <1>4 DEF HeldAreMade, Rec
<1>6. NumbersUnique'
  BY <1>1 DEF NumbersUnique
<1>7. NeverStranded'
  BY <1>1, <1>3 DEF NeverStranded
<1>8. PacketsCarry' /\ AcksTrue' /\ AckedIsStored'
  BY <1>1, <1>2, <1>3 DEF BootsKept, HeldAreMade, PacketsCarry, AcksTrue, AckedIsStored, Stored
<1> QED BY <1>5, <1>6, <1>7, <1>8

(* The server stores all of a packet before it ACKs its number.              *)
LEMMA DeliverStep ==
  ASSUME TypeInv, CustodyInv, NEW p \in net, Deliver(p) PROVE CustodyInv'
<1> USE DEF CustodyInv, Deliver
<1>1. UNCHANGED <<st, pkt, flights, made, rec, spiffs>> /\ net' \subseteq net
  BY DEF queueVars, recVars
<1>2. \A r \in Rec : Stored(r) => Stored(r)'
  BY <1>1 DEF Stored
<1>3. \A r \in p.recs : p.boot = rec[r].boot => Stored(r)'
  BY <1>1 DEF Stored
<1>4. AcksTrue'
  BY <1>1, <1>2, <1>3 DEF AcksTrue, PacketsCarry
<1>5. HeldAreMade' /\ NumbersUnique' /\ NeverStranded' /\ PacketsCarry' /\ AckedIsStored'
  BY <1>1, <1>2 DEF HeldAreMade, NumbersUnique, NeverStranded, PacketsCarry, AckedIsStored
<1> QED BY <1>4, <1>5

(* txqOnAck() marks the entries of the ACKed flight, and no others.          *)
LEMMA OnAckStep ==
  ASSUME TypeInv, CustodyInv, NEW n \in acks, OnAck(n) PROVE CustodyInv'
<1> USE DEF CustodyInv
<1>1. PICK fl \in flights : /\ fl.no = n /\ flights' = flights \ {fl}
                            /\ AckReplay(fl) \/ AckEntries(fl)
  BY DEF OnAck
<1>2. UNCHANGED <<made, rec, net, stored>> /\ acks' \subseteq acks
  BY DEF OnAck, recVars, history
<1>3. CASE AckReplay(fl)
  <2>1. UNCHANGED <<st, pkt, spiffs>> /\ fl.sd
    BY <1>3 DEF AckReplay, queueVars
  <2>2. made \in Nat
    BY BoundsAssumption DEF TypeInv, TypeOK, RecordTypes
  <2> QED BY <1>1, <1>2, <2>1, <2>2, QuietStep DEF BootsKept
<1>4. CASE AckEntries(fl)
  <2>1. \A r \in Rec : \/ st'[r] = "none"
                       \/ st'[r] = "acked" /\ (st[r] = "acked" \/ (st[r] = "inflight" /\ pkt[r] = n))
                       \/ st'[r] = st[r] /\ ~(st[r] = "inflight" /\ pkt[r] = n)
    BY <1>1, <1>4 DEF AckEntries, Released, Acked
  <2>2. \A r \in Rec : pkt[r] # n => pkt'[r] = pkt[r]
    BY <1>1, <1>4 DEF AckEntries
  <2>3. spiffs' \subseteq spiffs
    BY <1>4 DEF AckEntries, SbFileAfter
  <2>4. HeldAreMade'
    BY <1>2, <2>1, <2>3 DEF HeldAreMade
  <2>5. NumbersUnique'
    BY <1>1 DEF NumbersUnique
  <2>6. NeverStranded'
    BY <1>1, <2>1, <2>2 DEF NeverStranded
  <2>7. PacketsCarry'
    BY <1>2, <2>1, <2>2 DEF PacketsCarry
  <2>8. AcksTrue' /\ AckedIsStored'
    BY <1>2, <2>1, <2>2 DEF AcksTrue, AckedIsStored, Stored
  <2> QED BY <2>4, <2>5, <2>6, <2>7, <2>8
<1> QED BY <1>1, <1>3, <1>4

(* expire() and txqSendFailed() take the entries of one flight back.         *)
LEMMA ExpireStep ==
  ASSUME TypeInv, CustodyInv, Expire PROVE CustodyInv'
<1> USE DEF CustodyInv
<1>1. PICK fl \in flights :
        /\ flights' = flights \ {fl}
        /\ st' = Returned(fl)
        /\ pkt' = [r \in Rec |-> IF pkt[r] = fl.no THEN 0 ELSE pkt[r]]
  BY DEF Expire
<1>2. UNCHANGED <<made, rec, spiffs, net, acks, stored>>
  BY DEF Expire, recVars, netVars, history
<1>3. \A r \in Rec : \/ st[r] = "inflight" /\ st'[r] = "pending"
                     \/ st'[r] = st[r] /\ (~fl.sd => ~(st[r] = "inflight" /\ pkt[r] = fl.no))
  BY <1>1 DEF Returned
<1>4. \A r \in Rec : st'[r] = "inflight" => pkt[r] # fl.no
  BY <1>3 DEF NeverStranded, NumbersUnique
<1>5. \A r \in Rec : st'[r] = "inflight" => st[r] = "inflight" /\ pkt'[r] = pkt[r]
  BY <1>1, <1>3, <1>4
<1>6. HeldAreMade'
  BY <1>2, <1>3 DEF HeldAreMade
<1>7. NumbersUnique' /\ NeverStranded'
  BY <1>1, <1>4, <1>5 DEF NumbersUnique, NeverStranded
<1>8. PacketsCarry' /\ AcksTrue' /\ AckedIsStored'
  BY <1>2, <1>3, <1>5 DEF PacketsCarry, AcksTrue, AckedIsStored, Stored
<1> QED BY <1>6, <1>7, <1>8

(* After a reset nothing is in flight; an ACKed entry was one before.        *)
LEMMA ResetStep ==
  ASSUME TypeInv, CustodyInv, Reset PROVE CustodyInv'
<1> USE DEF CustodyInv
<1>1. flights' = {} /\ net' = {} /\ acks' = {} /\ UNCHANGED <<rec, stored>> /\ made <= made'
      /\ made \in Nat /\ made' \in Nat
  <2>1. made \in Nat
    BY BoundsAssumption DEF TypeInv, TypeOK, RecordTypes
  <2>2. ASSUME NEW c, NEW kept, Reboot(c, kept)
        PROVE  /\ flights' = {} /\ net' = {} /\ acks' = {} /\ UNCHANGED <<rec, stored>>
               /\ made <= made' /\ made' \in Nat
    BY <2>1, <2>2 DEF Reboot
  <2>3. \E c, kept : Reboot(c, kept)
    BY Zenon DEF Reset, Restart, Panic, Damage, PowerLoss, KeptReboot
  <2> QED BY <2>1, <2>2, <2>3
<1>2. /\ \A r \in Rec : st'[r] # "inflight"
      /\ \A r \in Rec : st'[r] = "acked" => st[r] = "acked"
      /\ \A r \in Rec : st'[r] # "none" => st[r] # "none" \/ r \in spiffs
      /\ spiffs' \subseteq spiffs
  <2>1. ASSUME NEW c, NEW S, KeptReboot(c, S)
        PROVE  /\ \A r \in Rec : st'[r] # "inflight"
               /\ \A r \in Rec : st'[r] = "acked" => st[r] = "acked"
               /\ \A r \in Rec : st'[r] # "none" => st[r] # "none" \/ r \in spiffs
               /\ spiffs' \subseteq spiffs
    BY <2>1 DEF KeptReboot, Revalidated, SbFileAfter
  <2>2. CASE PowerLoss
    BY <2>2 DEF PowerLoss
  <2>3. CASE Restart \/ Panic \/ Damage
    BY <2>1, <2>3 DEF Restart, Panic, Damage
  <2> QED BY <2>2, <2>3 DEF Reset
<1>3. HeldAreMade'
  BY <1>1, <1>2 DEF HeldAreMade, Rec
<1>4. NumbersUnique' /\ NeverStranded' /\ PacketsCarry' /\ AcksTrue'
  BY <1>1, <1>2 DEF NumbersUnique, NeverStranded, PacketsCarry, AcksTrue
<1>5. AckedIsStored'
  BY <1>1, <1>2 DEF AckedIsStored, Stored
<1> QED BY <1>3, <1>4, <1>5

(* Every step keeps the custody of the entries: one case per action.         *)
LEMMA NextCustody == TypeInv /\ CustodyInv /\ [Next]_vars => CustodyInv'
<1> SUFFICES ASSUME TypeInv, CustodyInv, [Next]_vars PROVE CustodyInv'
  OBVIOUS
<1>0. made \in Nat
  BY BoundsAssumption DEF TypeInv, TypeOK, RecordTypes
<1>1. CASE LogBegin
  <2>1. BootsKept
    BY <1>0, <1>1 DEF LogBegin, BootsKept, TypeInv, TypeOK, RecordTypes, Rec
  <2> QED BY <1>0, <1>1, <2>1, QuietStep DEF LogBegin, queueVars, netVars, history
<1>2. CASE EnterStandby \/ Purge \/ SdWriterTask \/ \E c \in CardsAtBoot : SetFile(c)
  BY <1>0, <1>2, QuietStep
  DEF EnterStandby, Purge, SetFile, SdWriterTask, SdFlush, Confirm, GoDead, BootsKept,
      recVars, queueVars, netVars, history
<1>3. CASE Save \/ ReplayNextFile \/ Lose \/ UNCHANGED vars
  BY <1>0, <1>3, QuietStep
  DEF Save, ReplayNextFile, Lose, BootsKept, vars, recVars, queueVars, netVars, history
<1>4. CASE (\E n \in acks : OnLateAck(n)) \/ \E f \in files : Resend(f)
  BY <1>0, <1>4, QuietStep
  DEF OnLateAck, Resend, BootsKept, recVars, queueVars, netVars, history
<1>5. CASE SendNewest
  <2>1. PICK l \in Pending, n \in PacketNo : NewNo(n) /\ SendEntries(n, rec[l].boot, {l})
    BY <1>5 DEF SendNewest
  <2> QED BY <1>5, <2>1, SendStep DEF SendNewest, recVars, history
<1>6. CASE SendQueued \/ ReplayEnds \/ ReplayAbandoned \/ ReplayDeferred
  <2>1. UNCHANGED <<made, rec, spiffs, acks, stored>>
    BY <1>6 DEF SendQueued, ReplayEnds, ReplayAbandoned, ReplayDeferred, recVars, history
  <2>2. CASE QueuePacket
    BY <2>1, <2>2, QueuePacketStep
  <2>3. CASE UNCHANGED <<st, pkt, flights, net>>
    BY <1>0, <2>1, <2>3, QuietStep DEF BootsKept
  <2> QED BY <1>6, <2>2, <2>3 DEF SendQueued, ReplayEnds, ReplayAbandoned, ReplayDeferred,
                                  QueuePacketOrNone
<1> QED
  BY <1>1, <1>2, <1>3, <1>4, <1>5, <1>6, SendReplayStep, PushStep, DeliverStep, OnAckStep,
     ExpireStep, ResetStep
  DEF Next, MainTask, TelemetryTask, NextPacket, NextInOrder, Network

(* An entry marked acked is stored at the server under its own boot number,  *)
(* whatever is lost, repeated, late or reordered on the way and wherever the *)
(* device is reset.                                                          *)
THEOREM AckedStored == Spec => []AckedIsStored
<1>1. TypeInv /\ CustodyInv => AckedIsStored
  BY DEF CustodyInv
<1> QED BY InitTypes, NextTypes, InitCustody, NextCustody, <1>1, PTL DEF Spec

(* No entry is ever left in flight without a flight that ends.               *)
THEOREM NoneStranded == Spec => []NeverStranded
<1>1. TypeInv /\ CustodyInv => NeverStranded
  BY DEF CustodyInv
<1> QED BY InitTypes, NextTypes, InitCustody, NextCustody, <1>1, PTL DEF Spec

-----------------------------------------------------------------------------
(* Every record reaches the server under its own boot number, and none while *)
(* it is still being written.                                                *)

(* The file that is open is this boot's, and the card takes lines only       *)
(* while it is.                                                              *)
OpenFile ==
  /\ card = "ok" /\ mode = "run" => file # 0
  /\ file # 0 => file = lastFile /\ fileKnown
  /\ ~fileKnown => card = "none"

(* The record being written has the open file for its home; a card that died *)
(* in the middle leaves it its home.                                         *)
LogInv ==
  logging =>
    /\ mode = "run" /\ fileKnown /\ card \in {"ok", "dead"}
    /\ rec[made + 1].boot = boot /\ rec[made + 1].home # 0
    /\ card = "ok" => rec[made + 1].home = file

(* The records of one file are of one boot.                                  *)
HomesInv ==
  /\ \A r \in Rec : rec[r].home <= lastFile
  /\ \A r \in Rec : rec[r].home = file /\ file # 0 => rec[r].boot = boot
  /\ \A r, q \in Rec : rec[r].home = rec[q].home /\ rec[r].home # 0 => rec[r].boot = rec[q].boot

(* The card has lines of records that were begun, in their files.            *)
LinesInv ==
  \A r \in Rec : disk[r] # "none" =>
    rec[r].home # 0 /\ (r <= made \/ (logging /\ r = made + 1))

(* What is under way, and what the server has, are finished records under    *)
(* their own boot number.                                                    *)
PacketsRight == \A p \in net : \A r \in p.recs : r <= made /\ p.boot = rec[r].boot
StoredRight  == \A s \in stored : s[2] <= made /\ s[1] = rec[s[2]].boot

IdentityInv ==
  /\ OpenFile /\ LogInv /\ HomesInv /\ LinesInv /\ PacketsRight /\ StoredRight

-----------------------------------------------------------------------------
(* Nothing is open, written or sent at first.                                *)
LEMMA InitIdentity == Init => IdentityInv
BY DEF Init, IdentityInv, OpenFile, LogInv, HomesInv, LinesInv, PacketsRight, StoredRight, NewRec

(* What every step but the few that are about files and records leaves.      *)
Rest == UNCHANGED <<boot, mode, made, logging, rec, disk, card, file, lastFile, fileKnown>>

(* The telemetry task's packets, ACKs and cursors and the network are none   *)
(* of the card's business.                                                   *)
LEMMA RestSteps ==
  ASSUME \/ NextPacket \/ Expire \/ Save \/ Network \/ Confirm \/ Purge
         \/ \E n \in acks : OnAck(n) \/ OnLateAck(n)
         \/ \E f \in files : Resend(f)
  PROVE  Rest
<1> USE DEF Rest, recVars, cardVars, fileVars
<1>1. CASE NextPacket
  BY <1>1 DEF NextPacket, NextInOrder, SendNewest, SendQueued, SendReplay, ReplayEnds,
              ReplayNextFile, ReplayAbandoned, ReplayDeferred
<1>2. CASE Expire \/ Save \/ Network \/ Confirm \/ Purge
  BY <1>2 DEF Expire, Save, Network, Deliver, Lose, Confirm, Purge
<1>3. CASE \E n \in acks : OnAck(n) \/ OnLateAck(n)
  BY <1>3 DEF OnAck, OnLateAck
<1>4. CASE \E f \in files : Resend(f)
  BY <1>4 DEF Resend
<1> QED BY <1>1, <1>2, <1>3, <1>4

(* A reset closes the file and drops the record that was being written.      *)
LEMMA ResetEffect ==
  ASSUME TypeInv, Reset
  PROVE  /\ UNCHANGED <<rec, lastFile, stored>> /\ boot' = boot + 1
         /\ file' = 0 /\ fileKnown' = FALSE /\ card' = "none" /\ net' = {} /\ ~logging'
         /\ made' = IF logging THEN made + 1 ELSE made
         /\ disk' = disk \/ (card = "ok" /\ mode = "run" /\ disk' = Flushed)
<1>1. ASSUME NEW c, NEW kept, Reboot(c, kept)
      PROVE  /\ UNCHANGED <<rec, lastFile, stored>> /\ boot' = boot + 1
             /\ file' = 0 /\ fileKnown' = FALSE /\ card' = "none" /\ net' = {} /\ ~logging'
             /\ made' = IF logging THEN made + 1 ELSE made
  BY <1>1 DEF Reboot
<1>2. \E c, kept : Reboot(c, kept)
  BY Zenon DEF Reset, Restart, Panic, Damage, PowerLoss, KeptReboot
<1>3. disk' = disk \/ (card = "ok" /\ mode = "run" /\ disk' = Flushed)
  BY DEF Reset, Restart, Panic, Damage, PowerLoss
<1> QED BY <1>1, <1>2, <1>3

(* One file is open in a boot, from initialize() to standby or a dead card.  *)
LEMMA NextOpenFile ==
  ASSUME TypeInv, IdentityInv, [Next]_vars PROVE OpenFile'
<1> USE DEF OpenFile
<1>0. OpenFile /\ lastFile \in Nat /\ made \in Nat
  BY BoundsAssumption DEF IdentityInv, TypeInv, TypeOK, FileTypes, RecordTypes
<1>1. CASE Rest
  BY <1>0, <1>1 DEF Rest
<1>2. CASE LogBegin \/ Push \/ StandbyPush
  BY <1>0, <1>2 DEF LogBegin, Push, StandbyPush, Finish, cardVars, fileVars
<1>3. CASE EnterStandby
  BY <1>0, <1>3 DEF EnterStandby
<1>4. ASSUME NEW c \in CardsAtBoot, SetFile(c) PROVE OpenFile'
  BY <1>0, <1>4 DEF SetFile
<1>5. CASE SdFlush
  BY <1>0, <1>5 DEF SdFlush, fileVars
<1>6. CASE GoDead
  BY <1>0, <1>6 DEF GoDead
<1>7. CASE Reset
  BY <1>0, <1>7, ResetEffect
<1>8. CASE UNCHANGED vars
  BY <1>0, <1>8 DEF vars, cardVars, fileVars
<1> QED BY <1>1, <1>2, <1>3, <1>4, <1>5, <1>6, <1>7, <1>8, RestSteps
        DEF Next, MainTask, SdWriterTask, TelemetryTask

(* A record is begun in the open file; the card may die under it.            *)
LEMMA NextLog ==
  ASSUME TypeInv, IdentityInv, [Next]_vars PROVE LogInv'
<1>0. /\ LogInv /\ OpenFile /\ made \in Nat
      /\ rec \in [Rec -> [boot : 0..MaxBoot, home : 0..MaxBoot, file : 0..MaxBoot]]
      /\ logging => made + 1 \in Rec
  BY BoundsAssumption DEF IdentityInv, TypeInv, TypeOK, RecordTypes, Rec
<1> USE DEF LogInv, OpenFile
<1>1. CASE Rest
  BY <1>0, <1>1 DEF Rest
<1>2. CASE LogBegin
  <2>1. made + 1 \in Rec
    BY <1>0, <1>2, BoundsAssumption DEF LogBegin, Rec, TypeInv, TypeOK, RecordTypes
  <2> QED BY <1>0, <1>2, <2>1 DEF LogBegin, cardVars, fileVars
<1>3. CASE Push \/ StandbyPush
  BY <1>0, <1>3 DEF Push, StandbyPush, Finish
<1>4. CASE EnterStandby
  BY <1>0, <1>4 DEF EnterStandby, recVars
<1>5. ASSUME NEW c \in CardsAtBoot, SetFile(c) PROVE LogInv'
  BY <1>0, <1>5 DEF SetFile, recVars
<1>6. CASE SdFlush
  BY <1>0, <1>6 DEF SdFlush, recVars, fileVars
<1>7. CASE GoDead
  BY <1>0, <1>7 DEF GoDead, recVars
<1>8. CASE Reset
  BY <1>0, <1>8, ResetEffect
<1>9. CASE UNCHANGED vars
  BY <1>0, <1>9 DEF vars, recVars, cardVars, fileVars
<1> QED BY <1>1, <1>2, <1>3, <1>4, <1>5, <1>6, <1>7, <1>8, <1>9, RestSteps
        DEF Next, MainTask, SdWriterTask, TelemetryTask

(* A new file has no record yet, and a record goes only to the open file.    *)
LEMMA NextHomes ==
  ASSUME TypeInv, IdentityInv, [Next]_vars PROVE HomesInv'
<1>0. /\ HomesInv /\ LogInv /\ OpenFile /\ made \in Nat /\ lastFile \in Nat
      /\ rec \in [Rec -> [boot : 0..MaxBoot, home : 0..MaxBoot, file : 0..MaxBoot]]
      /\ logging => made + 1 \in Rec
  BY BoundsAssumption DEF IdentityInv, TypeInv, TypeOK, RecordTypes, FileTypes, Rec
<1> USE DEF HomesInv
<1>1. CASE Rest
  BY <1>0, <1>1 DEF Rest
<1>2. CASE LogBegin
  <2>1. made + 1 \in Rec
    BY <1>0, <1>2, BoundsAssumption DEF LogBegin, Rec, TypeInv, TypeOK, RecordTypes
  <2>2. /\ file # 0 /\ file = lastFile /\ UNCHANGED <<file, lastFile, boot>>
        /\ rec' = [rec EXCEPT ![made + 1] = [boot |-> boot, home |-> file, file |-> 0]]
    BY <1>0, <1>2 DEF LogBegin, OpenFile, fileVars
  <2>3. rec'[made + 1].home = file /\ rec'[made + 1].boot = boot
    BY <1>0, <2>1, <2>2
  <2>4. \A r \in Rec : r # made + 1 => rec'[r] = rec[r]
    BY <1>0, <2>2
  <2> QED BY <1>0, <2>2, <2>3, <2>4
<1>3. CASE Push \/ StandbyPush
  <2>1. made + 1 \in Rec
    BY <1>3, RoomForRecord
  <2>2. /\ UNCHANGED <<file, lastFile, boot>>
        /\ rec' = [rec EXCEPT ![made + 1] = [boot |-> boot, home |-> Home(made + 1), file |-> file]]
    BY <1>3 DEF Push, StandbyPush, Finish, fileVars
  <2>3. rec'[made + 1].boot = boot /\ rec'[made + 1].home = Home(made + 1)
    BY <1>0, <2>1, <2>2
  <2>4. \A r \in Rec : r # made + 1 => rec'[r] = rec[r]
    BY <1>0, <2>2
  <2>5. CASE logging
    <3>1. rec'[made + 1].home = rec[made + 1].home /\ rec'[made + 1].boot = rec[made + 1].boot
      BY <1>0, <2>3, <2>5 DEF Home, LogInv
    <3>2. \A r \in Rec : rec'[r].home = rec[r].home /\ rec'[r].boot = rec[r].boot
      BY <2>4, <3>1
    <3> QED BY <1>0, <2>2, <3>2
  <2>6. CASE ~logging
    <3>1. rec'[made + 1].home = 0
      BY <2>3, <2>6 DEF Home
    <3> QED BY <1>0, <2>2, <2>3, <2>4, <3>1
  <2> QED BY <2>5, <2>6
<1>4. CASE EnterStandby
  BY <1>0, <1>4 DEF EnterStandby, recVars
<1>5. ASSUME NEW c \in CardsAtBoot, SetFile(c) PROVE HomesInv'
  <2>1. UNCHANGED <<rec, boot>>
    BY <1>5 DEF SetFile, recVars
  <2>2. \/ UNCHANGED <<file, lastFile>>
        \/ file' = lastFile + 1 /\ lastFile' = lastFile + 1
    BY <1>5 DEF SetFile
  <2>3. \A r \in Rec : rec[r].home \in Nat
    BY <1>0, BoundsAssumption
  <2> QED BY <1>0, <2>1, <2>2, <2>3
<1>6. CASE SdFlush
  BY <1>0, <1>6 DEF SdFlush, recVars, fileVars
<1>7. CASE GoDead
  BY <1>0, <1>7 DEF GoDead, recVars
<1>8. CASE Reset
  BY <1>0, <1>8, ResetEffect
<1>9. CASE UNCHANGED vars
  BY <1>0, <1>9 DEF vars, recVars, cardVars, fileVars
<1> QED BY <1>1, <1>2, <1>3, <1>4, <1>5, <1>6, <1>7, <1>8, <1>9, RestSteps
        DEF Next, MainTask, SdWriterTask, TelemetryTask

(* What dataWrite() puts on the card has a file and was begun.               *)
LEMMA FlushedLines ==
  ASSUME TypeInv, IdentityInv
  PROVE  \A r \in Rec : Flushed[r] # "none" =>
           rec[r].home # 0 /\ (r <= made \/ (logging /\ r = made + 1))
BY DEF IdentityInv, LinesInv, Flushed

(* Only lines of begun records ever get to the card.                         *)
LEMMA NextLines ==
  ASSUME TypeInv, IdentityInv, [Next]_vars PROVE LinesInv'
<1>0. /\ LinesInv /\ LogInv /\ OpenFile /\ made \in Nat
      /\ rec \in [Rec -> [boot : 0..MaxBoot, home : 0..MaxBoot, file : 0..MaxBoot]]
      /\ \A r \in Rec : r \in Nat
  BY BoundsAssumption DEF IdentityInv, TypeInv, TypeOK, RecordTypes, Rec
<1> USE DEF LinesInv
<1>1. CASE Rest
  BY <1>0, <1>1 DEF Rest
<1>2. CASE LogBegin
  <2>1. \A r \in Rec : r # made + 1 => rec'[r] = rec[r]
    BY <1>0, <1>2 DEF LogBegin
  <2>2. \A r \in Rec : disk[r] # "none" => r # made + 1
    BY <1>0, <1>2 DEF LogBegin
  <2> QED BY <1>0, <1>2, <2>1, <2>2 DEF LogBegin, cardVars
<1>3. CASE Push \/ StandbyPush
  <2>1. /\ made' = made + 1 /\ ~logging' /\ UNCHANGED disk
        /\ rec' = [rec EXCEPT ![made + 1] = [boot |-> boot, home |-> Home(made + 1), file |-> file]]
    BY <1>3 DEF Push, StandbyPush, Finish, cardVars
  <2>2. \A r \in Rec : r # made + 1 => rec'[r] = rec[r]
    BY <1>0, <2>1
  <2>3. \A r \in Rec : r = made + 1 /\ disk[r] # "none" => rec'[r].home # 0
    BY <1>0, <2>1 DEF Home, LogInv
  <2> QED BY <1>0, <2>1, <2>2, <2>3
<1>4. CASE EnterStandby
  BY <1>0, <1>4, FlushedLines DEF EnterStandby, recVars
<1>5. ASSUME NEW c \in CardsAtBoot, SetFile(c) PROVE LinesInv'
  BY <1>0, <1>5 DEF SetFile, recVars
<1>6. CASE SdFlush
  <2>1. UNCHANGED <<rec, made, logging>>
    BY <1>6 DEF SdFlush, recVars
  <2>2. \/ disk' = Flushed
        \/ logging /\ \E part : disk' = [Flushed EXCEPT ![made + 1] = part]
    BY <1>6 DEF SdFlush
  <2>3. \A r \in Rec : disk'[r] = Flushed[r] \/ (logging /\ r = made + 1)
    BY <2>2 DEF Flushed
  <2> QED BY <1>0, <2>1, <2>3, FlushedLines DEF LogInv
<1>7. CASE GoDead
  BY <1>0, <1>7 DEF GoDead, recVars
<1>8. CASE Reset
  <2>1. \A r \in Rec : disk'[r] = disk[r] \/ disk'[r] = Flushed[r]
    BY <1>8, ResetEffect
  <2> QED BY <1>0, <1>8, <2>1, ResetEffect, FlushedLines
<1>9. CASE UNCHANGED vars
  BY <1>0, <1>9 DEF vars, recVars, cardVars, fileVars
<1> QED BY <1>1, <1>2, <1>3, <1>4, <1>5, <1>6, <1>7, <1>8, <1>9, RestSteps
        DEF Next, MainTask, SdWriterTask, TelemetryTask

-----------------------------------------------------------------------------
(* The record still being written is the last one of its file: the replay    *)
(* reads it only at the end of the file, where it leaves it out.             *)
LEMMA ReplayWhole ==
  ASSUME TypeInv, IdentityInv, Readable(replay.file), NEW R \in SUBSET ToSend, ReadUpTo(R)
  PROVE  \A r \in R \ Growing(R) : r <= made
<1> SUFFICES ASSUME NEW r \in R, r \notin Growing(R), ~(r <= made) PROVE FALSE
  OBVIOUS
<1>0. /\ made \in Nat /\ replay.file \in Nat
      /\ \A q \in Rec : q \in Nat /\ rec[q].file \in Nat
  BY BoundsAssumption DEF TypeInv, TypeOK, RecordTypes, ReplayTypes, Rec
<1>1. \A q \in Lines : q \in Rec /\ rec[q].home = replay.file /\ disk[q] # "none"
  BY DEF Lines
<1>2. \A q \in Lines : q <= made \/ (logging /\ q = made + 1)
  BY <1>1 DEF IdentityInv, LinesInv
<1>3. r \in Lines /\ r \notin Stops
  BY DEF ToSend
<1>4. logging /\ r = made + 1
  BY <1>2, <1>3
<1>5. \A q \in Lines : q <= r
  BY <1>0, <1>1, <1>2, <1>4
<1>6. replay.file = file
  BY <1>1, <1>3, <1>4 DEF IdentityInv, LogInv, Readable
<1>7. R = ToSend
  <2>1. \A q \in ToSend \ R : r < q
    BY DEF ReadUpTo
  <2>2. \A q \in ToSend : q \in Lines
    BY DEF ToSend
  <2>3. \A q \in Lines : q \in Nat
    BY <1>0, <1>1
  <2>4. r \in Nat
    BY <1>0, <1>4
  <2>5. \A q \in ToSend : q \in R
    <3> SUFFICES ASSUME NEW q \in ToSend, q \notin R PROVE FALSE
      OBVIOUS
    <3>1. q \in Nat /\ r < q /\ q <= r
      BY <1>5, <2>1, <2>2, <2>3
    <3> QED BY <2>4, <3>1
  <2> QED BY <2>5
<1>8. Stops = {}
  <2> SUFFICES ASSUME NEW q \in Stops PROVE FALSE
    OBVIOUS
  <2>1. q \in Lines /\ StopsAt(replay.file, q)
    BY DEF Stops
  <2>2. PICK o \in WithFile : IsLeast(o, WithFile) /\ ~Before(replay.file, q, rec[o].file, o)
    BY <2>1 DEF StopsAt
  <2>3. o \in Rec
    BY DEF WithFile, Queue
  <2>4. q \in Nat /\ r \in Nat /\ q <= r
    BY <1>0, <1>1, <1>4, <1>5, <2>1
  <2>5. ~Before(replay.file, r, rec[o].file, o)
    BY <1>0, <2>2, <2>3, <2>4 DEF Before
  <2> QED BY <1>3, <2>2, <2>5 DEF Stops, StopsAt
<1>9. IsLast(r, R)
  BY <1>5, <1>7 DEF IsLast, ToSend
<1> QED BY <1>6, <1>7, <1>8, <1>9 DEF Growing, AtEof

(* A replay packet has records of one file, so of one boot.                  *)
LEMMA ReplayPacketRight ==
  ASSUME TypeInv, IdentityInv, SendReplay PROVE PacketsRight'
<1>a. PICK R \in SUBSET ToSend, n \in PacketNo :
        ReadUpTo(R) /\ \E r \in R : net' = net \cup {Packet(n, rec[r].boot, R \ Growing(R))}
  BY DEF SendReplay
<1>1. PICK r \in R : net' = net \cup {Packet(n, rec[r].boot, R \ Growing(R))}
  BY <1>a
<1>2. UNCHANGED <<rec, made>> /\ Readable(replay.file)
  BY DEF SendReplay, recVars
<1>3. \A q \in R \ Growing(R) : q <= made
  BY <1>a, <1>2, ReplayWhole
<1>4. \A q \in R : rec[q].boot = rec[r].boot
  <2>1. \A q \in R : q \in Rec /\ rec[q].home = replay.file /\ disk[q] # "none"
    BY DEF ToSend, Lines
  <2> QED BY <2>1 DEF IdentityInv, LinesInv, HomesInv
<1>5. \A p \in net' : p \in net \/ p = Packet(n, rec[r].boot, R \ Growing(R))
  BY <1>1
<1> QED BY <1>2, <1>3, <1>4, <1>5 DEF IdentityInv, PacketsRight, Packet

(* A packet of queue entries has entries of one boot, all of them finished.  *)
LEMMA EntriesPacketRight ==
  ASSUME TypeInv, CustodyInv, IdentityInv, NEW n, NEW b, NEW R \in SUBSET Pending,
         \A r \in R : rec[r].boot = b, SendEntries(n, b, R), UNCHANGED <<rec, made>>
  PROVE  PacketsRight'
<1>1. \A r \in R : r <= made
  BY DEF CustodyInv, HeldAreMade, Pending, Queue
<1>2. \A p \in net' : p \in net \/ p = Packet(n, b, R)
  BY DEF SendEntries
<1> QED BY <1>1, <1>2 DEF IdentityInv, PacketsRight, Packet

(* txqNextPacket() stops a packet where the boot changes.                    *)
LEMMA QueuePacketRight ==
  ASSUME TypeInv, CustodyInv, IdentityInv, QueuePacket, UNCHANGED <<rec, made>>
  PROVE  PacketsRight'
<1>1. PICK f \in Pending, R \in SUBSET Pending, n \in PacketNo :
        IsLeast(f, Pending) /\ Fits(R) /\ SendEntries(n, rec[f].boot, R)
  BY DEF QueuePacket
<1>2. \A r \in R : rec[r].boot = rec[f].boot
  <2> SUFFICES ASSUME NEW r \in R PROVE rec[r].boot = rec[f].boot
    OBVIOUS
  <2>1. r \in Nat /\ f \in Nat /\ f <= r
    BY <1>1, BoundsAssumption DEF IsLeast, Pending, Queue, Rec
  <2>2. f \in R
    BY <1>1, <2>1 DEF Fits, Oldest
  <2> QED BY <1>1, <2>2 DEF Fits, OneBoot
<1> QED BY <1>1, <1>2, EntriesPacketRight

(* Packets stay right: a finished record keeps its boot for good.            *)
LEMMA KeptPacketsRight ==
  ASSUME TypeInv, IdentityInv, net' \subseteq net, BootsKept, made' \in Nat, made <= made'
  PROVE  PacketsRight'
<1>1. made \in Nat
  BY BoundsAssumption DEF TypeInv, TypeOK, RecordTypes
<1>2. \A p \in net : p.recs \subseteq Rec
  BY DEF TypeInv, TypeOK, ServerTypes
<1>3. \A r \in Rec : r \in Nat
  BY BoundsAssumption DEF Rec
<1> QED BY <1>1, <1>2, <1>3 DEF IdentityInv, PacketsRight, BootsKept

(* No step changes the boot of a finished record.                            *)
LEMMA NextBootsKept ==
  ASSUME TypeInv, [Next]_vars PROVE BootsKept /\ made' \in Nat /\ made <= made'
<1>0. /\ made \in Nat /\ \A r \in Rec : r \in Nat
      /\ rec \in [Rec -> [boot : 0..MaxBoot, home : 0..MaxBoot, file : 0..MaxBoot]]
  BY BoundsAssumption DEF TypeInv, TypeOK, RecordTypes, Rec
<1> USE DEF BootsKept
<1>1. CASE Rest
  BY <1>0, <1>1 DEF Rest
<1>2. CASE LogBegin
  BY <1>0, <1>2 DEF LogBegin
<1>3. CASE Push \/ StandbyPush
  <2>1. made' = made + 1 /\ \E b : rec' = [rec EXCEPT ![made + 1] = b]
    BY <1>3 DEF Push, StandbyPush, Finish
  <2> QED BY <1>0, <2>1
<1>4. CASE EnterStandby \/ SdFlush \/ GoDead \/ \E c \in CardsAtBoot : SetFile(c)
  BY <1>0, <1>4 DEF EnterStandby, SdFlush, GoDead, SetFile, recVars
<1>5. CASE Reset
  BY <1>0, <1>5, ResetEffect
<1>6. CASE UNCHANGED vars
  BY <1>0, <1>6 DEF vars, recVars
<1> QED BY <1>1, <1>2, <1>3, <1>4, <1>5, <1>6, RestSteps
        DEF Next, MainTask, SdWriterTask, TelemetryTask

(* Whatever is sent is a finished record under its boot.                     *)
LEMMA NextPackets ==
  ASSUME TypeInv, CustodyInv, IdentityInv, [Next]_vars PROVE PacketsRight'
<1>0. BootsKept /\ made' \in Nat /\ made <= made'
  BY NextBootsKept
<1>1. CASE SendNewest
  <2>1. PICK l \in Pending, n \in PacketNo : SendEntries(n, rec[l].boot, {l})
    BY <1>1 DEF SendNewest
  <2>2. {l} \in SUBSET Pending /\ (\A r \in {l} : rec[r].boot = rec[l].boot) /\ UNCHANGED <<rec, made>>
    BY <1>1 DEF SendNewest, recVars
  <2> QED BY <2>1, <2>2, EntriesPacketRight
<1>2. CASE SendReplay
  BY <1>2, ReplayPacketRight
<1>3. CASE SendQueued \/ ReplayEnds \/ ReplayAbandoned \/ ReplayDeferred
  <2>1. UNCHANGED <<rec, made>> /\ (QueuePacket \/ UNCHANGED net)
    BY <1>3 DEF SendQueued, ReplayEnds, ReplayAbandoned, ReplayDeferred, QueuePacketOrNone, recVars
  <2> QED BY <1>0, <2>1, QueuePacketRight, KeptPacketsRight
<1>4. CASE ~SendNewest /\ ~SendReplay /\ ~SendQueued /\ ~ReplayEnds /\ ~ReplayAbandoned /\ ~ReplayDeferred
  <2>1. net' \subseteq net
    <3>1. CASE MainTask \/ SdWriterTask \/ UNCHANGED vars
      BY <3>1 DEF MainTask, LogBegin, Push, Finish, EnterStandby, Purge, SetFile, SdWriterTask,
                  SdFlush, Confirm, GoDead, vars, netVars
    <3>2. CASE TelemetryTask
      BY <1>4, <3>2 DEF TelemetryTask, StandbyPush, Finish, NextPacket, NextInOrder, ReplayNextFile,
                        Expire, Save, OnAck, OnLateAck, Resend, netVars
    <3>3. CASE Network
      BY <3>3 DEF Network, Deliver, Lose
    <3>4. CASE Reset
      BY <3>4, ResetEffect
    <3> QED BY <3>1, <3>2, <3>3, <3>4 DEF Next
  <2> QED BY <1>0, <2>1, KeptPacketsRight
<1> QED BY <1>1, <1>2, <1>3, <1>4

(* The server has only what a packet brought.                                *)
LEMMA NextStored ==
  ASSUME TypeInv, IdentityInv, [Next]_vars PROVE StoredRight'
<1>0. BootsKept /\ made' \in Nat /\ made <= made' /\ made \in Nat
  BY NextBootsKept, BoundsAssumption DEF TypeInv, TypeOK, RecordTypes
<1>1. \A s \in stored : s[2] \in Rec /\ s[2] \in Nat
  BY BoundsAssumption DEF TypeInv, TypeOK, ServerTypes, Rec
<1>2. CASE UNCHANGED stored
  BY <1>0, <1>1, <1>2 DEF IdentityInv, StoredRight, BootsKept
<1>3. ASSUME NEW p \in net, Deliver(p) PROVE StoredRight'
  <2>1. stored' = stored \cup {<<p.boot, r>> : r \in p.recs} /\ UNCHANGED <<rec, made>>
    BY <1>3 DEF Deliver, recVars
  <2>2. \A s \in stored' : s \in stored \/ \E r \in p.recs : s = <<p.boot, r>>
    BY <2>1
  <2>3. \A r \in p.recs : r <= made /\ p.boot = rec[r].boot
    BY DEF IdentityInv, PacketsRight
  <2> QED BY <2>1, <2>2, <2>3 DEF IdentityInv, StoredRight
<1>4. UNCHANGED stored \/ \E p \in net : Deliver(p)
  <2>1. CASE MainTask \/ SdWriterTask \/ UNCHANGED vars
    BY <2>1 DEF MainTask, LogBegin, Push, Finish, EnterStandby, Purge, SetFile, SdWriterTask,
                SdFlush, Confirm, GoDead, vars, history
  <2>2. CASE TelemetryTask
    <3>1. CASE NextPacket
      BY <3>1 DEF NextPacket, NextInOrder, SendNewest, SendQueued, SendReplay, ReplayEnds,
                  ReplayNextFile, ReplayAbandoned, ReplayDeferred, history
    <3>2. CASE ~NextPacket
      BY <2>2, <3>2 DEF TelemetryTask, StandbyPush, Finish, Expire, Save, OnAck, OnLateAck, Resend, history
    <3> QED BY <3>1, <3>2
  <2>3. CASE Network
    BY <2>3 DEF Network, Lose, history
  <2>4. CASE Reset
    BY <2>4, ResetEffect
  <2> QED BY <2>1, <2>2, <2>3, <2>4 DEF Next
<1> QED BY <1>2, <1>3, <1>4

(* IdentityInv is inductive, given the custody of the queue's entries.       *)
LEMMA NextIdentity == TypeInv /\ CustodyInv /\ IdentityInv /\ [Next]_vars => IdentityInv'
BY NextOpenFile, NextLog, NextHomes, NextLines, NextPackets, NextStored DEF IdentityInv

(* All that is invariant of the queue so far.                                *)
LEMMA Identified == Spec => [](TypeInv /\ CustodyInv /\ IdentityInv)
<1> QED BY InitTypes, NextTypes, InitCustody, NextCustody, InitIdentity, NextIdentity, PTL DEF Spec

(* No record ever reaches the server under another boot number than its own. *)
THEOREM OwnBoot == Spec => []IdentityRight
<1>1. IdentityInv => IdentityRight
  BY DEF IdentityInv, StoredRight, IdentityRight
<1> QED BY Identified, <1>1, PTL

(* No record is ever sent while its lines are still being written.           *)
THEOREM SentFinished == Spec => []SentWhole
<1>1. IdentityInv => SentWhole
  BY DEF IdentityInv, PacketsRight, SentWhole
<1> QED BY Identified, <1>1, PTL

-----------------------------------------------------------------------------
(* No record is lost in silence: a finished record is stored, counted lost,  *)
(* given up as documented, in the queue, or on the card where the replay     *)
(* comes to it.                                                              *)

(* The events of EventKinds under which the promise of txqueue.h is kept:    *)
(* parking, purging, panics and power losses with the cursor in NVS, and     *)
(* everything the network does.  Each of the others breaks it.               *)
Reliable ==
  Events \cap {"unsaved", "damage", "nocursor", "nocard", "nofile", "dead", "resendany"} = {}

(* A boot opens a new file on a good card, and no replay is ever deferred.   *)
CardInv ==
  /\ deferred = FALSE
  /\ fileKnown => card = "ok" /\ maxFile = lastFile /\ lastFile # 0
  /\ ~fileKnown => maxFile = 0 /\ file = 0
  /\ mode = "standby" => file = 0 /\ ~logging /\ fileKnown
  /\ mode = "run" /\ fileKnown => file # 0
  /\ files \subseteq 1..lastFile
  /\ file # 0 => file \in files /\ file = lastFile

(* A record is queued for the file that has its lines; files follow each     *)
(* other as the records do, and the open one has all of the last.            *)
OrderInv ==
  /\ \A r \in Rec : rec[r].file <= lastFile
  /\ \A r \in Rec : rec[r].file # 0 => rec[r].home = rec[r].file
  /\ \A r \in Rec : r > made => rec[r].file = 0
  /\ \A r, q \in Rec : r < q /\ q <= made /\ rec[q].file # 0 => rec[r].file <= rec[q].file
  /\ \A r, q \in Rec : r < q /\ q <= made /\ file # 0 /\ rec[r].home = file => rec[q].file = file

(* The SD writer writes the lines of the open file in order.                 *)
FlushInv ==
  \A r, q \in Rec : r < q /\ file # 0 /\ rec[r].home = file /\ rec[q].home = file /\ disk[q] # "none"
                      => disk[r] = "full"

ShelfInv == CardInv /\ OrderInv /\ FlushInv

(* What the types say of the numbers.                                        *)
LEMMA Numbers ==
  ASSUME TypeInv
  PROVE  /\ made \in Nat /\ made <= MaxRec /\ (logging => made + 1 \in Rec)
         /\ lastFile \in Nat /\ file \in Nat /\ maxFile \in Nat
         /\ \A r \in Rec : r \in Nat /\ r >= 1 /\ rec[r].file \in Nat /\ rec[r].home \in Nat
         /\ rec \in [Rec -> [boot : 0..MaxBoot, home : 0..MaxBoot, file : 0..MaxBoot]]
         /\ \A r \in 1..made : r \in Rec
         /\ replay.file \in Nat /\ replay.ts \in Nat /\ saved.file \in Nat /\ saved.ts \in Nat
<1> USE BoundsAssumption DEF TypeInv, TypeOK, Rec
<1>1. /\ made \in Nat /\ made <= MaxRec /\ (logging => made + 1 \in Rec)
      /\ \A r \in 1..made : r \in Rec
  BY DEF RecordTypes
<1>2. lastFile \in Nat /\ file \in Nat /\ maxFile \in Nat
  BY DEF FileTypes
<1>3. \A r \in Rec : r \in Nat /\ r >= 1 /\ rec[r].file \in Nat /\ rec[r].home \in Nat
  BY DEF RecordTypes
<1>4. replay.file \in Nat /\ replay.ts \in Nat /\ saved.file \in Nat /\ saved.ts \in Nat
  BY DEF ReplayTypes, Cursor
<1> QED BY <1>1, <1>2, <1>3, <1>4 DEF RecordTypes

(* There is a number for the next record below the bound.                    *)
LEMMA NextNumber ==
  ASSUME TypeInv, made < MaxRec PROVE made + 1 \in Rec
<1>1. made \in 0..MaxRec
  BY DEF TypeInv, TypeOK, RecordTypes
<1> QED BY <1>1, BoundsAssumption DEF Rec

(* Nothing is open, known or made at first.                                  *)
LEMMA InitShelf == Init => ShelfInv
BY BoundsAssumption DEF Init, ShelfInv, CardInv, OrderInv, FlushInv, NewRec

(* What the telemetry task, the network and Confirm leave of the card.       *)
LEMMA QuietShelf ==
  ASSUME \/ NextPacket \/ Expire \/ Save \/ Network \/ Confirm
         \/ \E n \in acks : OnAck(n) \/ OnLateAck(n)
         \/ \E f \in files : Resend(f)
  PROVE  UNCHANGED <<files, maxFile>>
<1> USE DEF cardVars, fileVars
<1>1. CASE NextPacket
  BY <1>1 DEF NextPacket, NextInOrder, SendNewest, SendQueued, SendReplay, ReplayEnds,
              ReplayNextFile, ReplayAbandoned, ReplayDeferred
<1>2. CASE Expire \/ Save \/ Network \/ Confirm
  BY <1>2 DEF Expire, Save, Network, Deliver, Lose, Confirm
<1>3. CASE \E n \in acks : OnAck(n) \/ OnLateAck(n)
  BY <1>3 DEF OnAck, OnLateAck
<1>4. CASE \E f \in files : Resend(f)
  BY <1>4 DEF Resend
<1> QED BY <1>1, <1>2, <1>3, <1>4

(* A reset leaves the files, and the card's state to initialize().           *)
LEMMA ResetFiles ==
  ASSUME Reset
  PROVE  UNCHANGED files /\ maxFile' = 0 /\ deferred' = FALSE /\ mode' = "run"
<1>1. ASSUME NEW c, NEW kept, Reboot(c, kept)
      PROVE  UNCHANGED files /\ maxFile' = 0 /\ deferred' = FALSE /\ mode' = "run"
  BY <1>1 DEF Reboot
<1>2. \E c, kept : Reboot(c, kept)
  BY Zenon DEF Reset, Restart, Panic, Damage, PowerLoss, KeptReboot
<1> QED BY <1>1, <1>2

(* With the card there in every boot no replay is deferred.                  *)
LEMMA NoneDeferred ==
  ASSUME TypeInv, CardInv, Reliable
  PROVE  ~ReplayDeferred /\ ~GoDead /\ ~Damage /\ CardsAtBoot = {"ok"}
<1>1. CardsAtBoot = {"ok"} /\ ~GoDead /\ ~Damage
  BY DEF Reliable, CardsAtBoot, GoDead, Damage
<1>2. ~ReplayDeferred
  BY DEF ReplayDeferred, Building, CanBuild, Blocked, CardInv
<1> QED BY <1>1, <1>2

(* The record that is finished has the open file for its home, or none.      *)
LEMMA FinishEffect ==
  ASSUME TypeInv, IdentityInv, CardInv, Push \/ StandbyPush
  PROVE  /\ made + 1 \in Rec /\ made' = made + 1 /\ ~logging'
         /\ UNCHANGED <<mode, disk, files, card, file, maxFile, fileKnown, deferred, lastFile>>
         /\ rec'[made + 1].file = file /\ rec'[made + 1].boot = boot
         /\ rec'[made + 1].home = file
         /\ Push => logging /\ file # 0 /\ rec[made + 1].home = file
         /\ StandbyPush => file = 0
         /\ \A r \in Rec : r # made + 1 => rec'[r] = rec[r]
<1>1. made + 1 \in Rec
  BY RoomForRecord
<1>2. /\ made' = made + 1 /\ ~logging'
      /\ UNCHANGED <<mode, disk, files, card, file, maxFile, fileKnown, deferred, lastFile>>
      /\ rec' = [rec EXCEPT ![made + 1] = [boot |-> boot, home |-> Home(made + 1), file |-> file]]
  BY DEF Push, StandbyPush, Finish, cardVars, fileVars
<1>3. /\ rec'[made + 1].file = file /\ rec'[made + 1].boot = boot
      /\ rec'[made + 1].home = Home(made + 1)
      /\ \A r \in Rec : r # made + 1 => rec'[r] = rec[r]
  BY <1>1, <1>2, Numbers
<1>4. Push => logging /\ file # 0 /\ rec[made + 1].home = file
  BY DEF Push, CardInv, IdentityInv, LogInv
<1>5. StandbyPush => file = 0 /\ ~logging
  BY DEF StandbyPush, CardInv
<1>6. Home(made + 1) = file
  BY <1>4, <1>5 DEF Home
<1> QED BY <1>1, <1>2, <1>3, <1>4, <1>5, <1>6

(* The card is opened by initialize(), closed by standby and by a reset.     *)
LEMMA NextCard ==
  ASSUME TypeInv, IdentityInv, ShelfInv, Reliable, [Next]_vars PROVE CardInv'
<1>0. CardInv /\ lastFile \in Nat
  BY Numbers DEF ShelfInv
<1>1. CASE LogBegin
  BY <1>0, <1>1 DEF CardInv, LogBegin, cardVars, fileVars
<1>2. CASE Push \/ StandbyPush
  <2>1. /\ UNCHANGED <<mode, files, card, file, maxFile, fileKnown, deferred, lastFile>>
        /\ ~logging'
    BY <1>0, <1>2, FinishEffect
  <2> QED BY <1>0, <2>1 DEF CardInv
<1>3. CASE EnterStandby
  <2>1. /\ mode' = "standby" /\ file' = 0 /\ fileKnown /\ ~logging'
        /\ UNCHANGED <<files, card, maxFile, fileKnown, deferred, lastFile>>
    BY <1>3 DEF EnterStandby, recVars
  <2> QED BY <1>0, <2>1 DEF CardInv
<1>4. CASE Purge
  BY <1>0, <1>4 DEF Purge, CardInv, recVars, fileVars
<1>5. ASSUME NEW c \in CardsAtBoot, SetFile(c) PROVE CardInv'
  <2>1. c = "ok"
    BY <1>0, NoneDeferred
  <2>2. /\ ~fileKnown /\ fileKnown' /\ card' = "ok" /\ UNCHANGED <<mode, logging, deferred>>
        /\ lastFile' = lastFile + 1 /\ file' = lastFile + 1 /\ maxFile' = lastFile + 1
        /\ files' = files \cup {lastFile + 1}
    BY <1>5, <2>1 DEF SetFile, recVars
  <2>3. files' \subseteq 1..lastFile' /\ file' \in files' /\ lastFile' # 0
    BY <1>0, <2>2 DEF CardInv
  <2> QED BY <1>0, <2>2, <2>3 DEF CardInv
<1>6. CASE SdFlush
  BY <1>0, <1>6 DEF SdFlush, CardInv, recVars, fileVars
<1>7. CASE \/ NextPacket \/ Expire \/ Save \/ Network \/ Confirm
           \/ \E n \in acks : OnAck(n) \/ OnLateAck(n)
           \/ \E f \in files : Resend(f)
  <2>1. Rest /\ UNCHANGED <<files, maxFile>>
    BY Zenon, <1>7, RestSteps, QuietShelf
  <2>2. deferred' = deferred
    <3>1. CASE NextPacket
      BY <1>0, <3>1, NoneDeferred
      DEF NextPacket, NextInOrder, SendNewest, SendQueued, SendReplay, ReplayEnds, ReplayNextFile,
          ReplayAbandoned, fileVars
    <3>2. CASE ~NextPacket
      BY <1>7, <3>2 DEF Expire, Save, Network, Deliver, Lose, Confirm, OnAck, OnLateAck, Resend, fileVars
    <3> QED BY <3>1, <3>2
  <2> QED BY <1>0, <2>1, <2>2 DEF Rest, CardInv
<1>8. CASE Reset
  BY <1>0, <1>8, ResetEffect, ResetFiles DEF CardInv
<1>9. CASE UNCHANGED vars
  BY <1>0, <1>9 DEF vars, CardInv, recVars, cardVars, fileVars
<1> QED BY <1>0, <1>1, <1>2, <1>3, <1>4, <1>5, <1>6, <1>7, <1>8, <1>9, NoneDeferred
        DEF Next, MainTask, SdWriterTask, TelemetryTask

(* A new record follows all others, a new file all others.                   *)
LEMMA NextOrder ==
  ASSUME TypeInv, IdentityInv, ShelfInv, Reliable, [Next]_vars PROVE OrderInv'
<1>0. OrderInv /\ CardInv
  BY DEF ShelfInv
<1>1. CASE UNCHANGED <<rec, made, file, lastFile>>
  BY <1>0, <1>1 DEF OrderInv
<1>2. CASE LogBegin
  <2>1. made + 1 \in Rec /\ UNCHANGED <<made, file, lastFile>> /\ file # 0
    <3>1. mode = "run" /\ fileKnown /\ made < MaxRec /\ UNCHANGED <<made, file, lastFile>>
      BY <1>2 DEF LogBegin, fileVars
    <3> QED BY <1>0, <3>1, NextNumber DEF CardInv
  <2>2. rec'[made + 1].file = 0 /\ \A r \in Rec : r # made + 1 => rec'[r] = rec[r]
    BY <1>2, <2>1, Numbers DEF LogBegin
  <2>3. \A r \in Rec : r <= made => rec'[r] = rec[r]
    BY <2>2, Numbers
  <2>4. \A r \in Rec : rec'[r].file = rec[r].file
    BY <1>0, <2>1, <2>2, Numbers DEF OrderInv
  <2> QED BY <1>0, <2>1, <2>2, <2>3, <2>4, Numbers DEF OrderInv
<1>3. CASE Push \/ StandbyPush
  <2>1. \A r \in Rec : r <= made => rec'[r] = rec[r]
    BY <1>0, <1>3, FinishEffect, Numbers
  <2> DEFINE n == made + 1
  <2>a. file <= lastFile
    BY <1>0, Numbers DEF CardInv
  <2>2. /\ n \in Rec /\ made' = n /\ rec'[n].file = file /\ rec'[n].home = file
        /\ UNCHANGED <<file, lastFile>> /\ file <= lastFile
        /\ \A r \in Rec : r # n => rec'[r] = rec[r]
    BY <1>0, <1>3, <2>a, FinishEffect
  <2>3. \A r \in Rec : r <= n => r = n \/ r <= made
    BY Numbers
  <2>4. \A r \in Rec : rec'[r].file <= lastFile /\ (rec'[r].file # 0 => rec'[r].home = rec'[r].file)
    BY <1>0, <2>2 DEF OrderInv
  <2>5. \A r \in Rec : r > n => rec'[r].file = 0
    BY <1>0, <2>2, Numbers DEF OrderInv
  <2>6. \A r, q \in Rec : r < q /\ q <= n /\ rec'[q].file # 0 => rec'[r].file <= rec'[q].file
    <3>1. ASSUME NEW r \in Rec, NEW q \in Rec, r < q, q <= n, rec'[q].file # 0
          PROVE  rec'[r].file <= rec'[q].file
      <4>1. r <= made
        BY <3>1, Numbers
      <4>2. CASE q <= made
        BY <1>0, <2>1, <3>1, <4>1, <4>2 DEF OrderInv
      <4>3. CASE q = n
        BY <1>0, <2>1, <2>2, <3>1, <4>1, <4>3 DEF OrderInv, CardInv
      <4> QED BY <2>3, <3>1, <4>2, <4>3
    <3> QED BY <3>1
  <2>7. \A r, q \in Rec : r < q /\ q <= n /\ file # 0 /\ rec'[r].home = file => rec'[q].file = file
    <3>1. ASSUME NEW r \in Rec, NEW q \in Rec, r < q, q <= n, file # 0, rec'[r].home = file
          PROVE  rec'[q].file = file
      <4>1. r <= made
        BY <3>1, Numbers
      <4>2. CASE q <= made
        BY <1>0, <2>1, <3>1, <4>1, <4>2 DEF OrderInv
      <4>3. CASE q = n
        BY <2>2, <4>3
      <4> QED BY <2>3, <3>1, <4>2, <4>3
    <3> QED BY <3>1
  <2> HIDE DEF n
  <2> QED BY <2>2, <2>4, <2>5, <2>6, <2>7 DEF OrderInv
<1>4. CASE EnterStandby
  BY <1>0, <1>4 DEF EnterStandby, OrderInv, recVars
<1>5. ASSUME NEW c \in CardsAtBoot, SetFile(c) PROVE OrderInv'
  <2>1. UNCHANGED <<rec, made>> /\ (UNCHANGED <<file, lastFile>> \/ (file' = lastFile + 1 /\ lastFile' = lastFile + 1))
    BY <1>5 DEF SetFile, recVars
  <2>2. \A r \in Rec : rec[r].home <= lastFile
    BY DEF IdentityInv, HomesInv
  <2> QED BY <1>0, <2>1, <2>2, Numbers DEF OrderInv
<1>6. CASE SdFlush
  BY <1>1, <1>6 DEF SdFlush, recVars, fileVars
<1>7. CASE \/ NextPacket \/ Expire \/ Save \/ Network \/ Confirm \/ Purge
           \/ \E n \in acks : OnAck(n) \/ OnLateAck(n)
           \/ \E f \in files : Resend(f)
  BY <1>1, <1>7, RestSteps DEF Rest
<1>8. CASE Reset
  <2>1. UNCHANGED <<rec, lastFile>> /\ file' = 0 /\ (made' = made \/ (logging /\ made' = made + 1))
    BY <1>8, ResetEffect
  <2>2. CASE made' = made
    BY <1>0, <2>1, <2>2 DEF OrderInv
  <2>3. CASE logging /\ made' = made + 1
    <3>1. \A r \in Rec : r <= made + 1 /\ rec[r].file # 0 => r <= made
      BY <1>0, Numbers DEF OrderInv
    <3>2. \A r \in Rec : r > made + 1 => r > made
      BY Numbers
    <3> QED BY <1>0, <2>1, <2>3, <3>1, <3>2 DEF OrderInv
  <2> QED BY <2>1, <2>2, <2>3
<1>9. CASE UNCHANGED vars
  BY <1>1, <1>9 DEF vars, recVars, fileVars
<1> QED BY <1>0, <1>2, <1>3, <1>4, <1>5, <1>6, <1>7, <1>8, <1>9, NoneDeferred
        DEF Next, MainTask, SdWriterTask, TelemetryTask

(* dataWrite() writes all it has of the finished records before it writes    *)
(* anything of the one being logged.                                         *)
LEMMA NextFlush ==
  ASSUME TypeInv, IdentityInv, ShelfInv, Reliable, [Next]_vars PROVE FlushInv'
<1>0. FlushInv /\ CardInv /\ LinesInv /\ HomesInv
  BY DEF ShelfInv, IdentityInv
<1>1. CASE UNCHANGED <<rec, disk, file>>
  BY <1>0, <1>1 DEF FlushInv
<1>2. CASE file' = 0
  BY <1>2 DEF FlushInv
<1>3. CASE LogBegin
  <2>1. /\ made + 1 \in Rec /\ UNCHANGED <<disk, file>>
        /\ \A r \in Rec : r # made + 1 => rec'[r] = rec[r]
    <3>1. made < MaxRec /\ UNCHANGED <<disk, file>> /\ \E x : rec' = [rec EXCEPT ![made + 1] = x]
      BY <1>3 DEF LogBegin, cardVars, fileVars
    <3>2. made + 1 \in Rec
      BY <3>1, NextNumber
    <3> QED BY <3>1, <3>2, Numbers
  <2>2. \A q \in Rec : disk[q] # "none" => q <= made
    BY <1>0, <1>3 DEF LinesInv, LogBegin
  <2>3. \A r, q \in Rec : r < q /\ disk[q] # "none" => r # made + 1 /\ q # made + 1
    BY <2>2, Numbers
  <2> QED BY <1>0, <2>1, <2>3 DEF FlushInv
<1>4. CASE Push \/ StandbyPush
  <2>1. UNCHANGED <<disk, file>> /\ (file # 0 => \A r \in Rec : rec'[r].home = rec[r].home)
    BY <1>0, <1>4, FinishEffect
  <2> QED BY <1>0, <2>1 DEF FlushInv
<1>5. ASSUME NEW c \in CardsAtBoot, SetFile(c) PROVE FlushInv'
  <2>1. UNCHANGED <<rec, disk>> /\ (UNCHANGED <<file, lastFile>> \/ (file' = lastFile + 1 /\ lastFile' = lastFile + 1))
    BY <1>5 DEF SetFile, recVars
  <2>2. \A r \in Rec : rec[r].home # lastFile + 1
    BY <1>0, Numbers DEF HomesInv
  <2> QED BY <1>0, <2>1, <2>2 DEF FlushInv
<1>6. CASE SdFlush
  <2>1. UNCHANGED <<rec, made, file>> /\ file # 0
    BY <1>6 DEF SdFlush, recVars, fileVars
  <2>2. \A r \in Rec : r # made + 1 => disk'[r] = Flushed[r]
    BY <1>6 DEF SdFlush, Flushed
  <2>3. \A r \in Rec : rec[r].home = file /\ r <= made => disk'[r] = "full"
    BY <2>1, <2>2, Numbers DEF Flushed
  <2>4. \A q \in Rec : disk'[q] # "none" => q <= made + 1
    BY <1>0, <2>2, Numbers DEF Flushed, LinesInv
  <2>5. \A r, q \in Rec : r < q /\ disk'[q] # "none" => r <= made
    BY <2>4, Numbers
  <2> QED BY <2>1, <2>3, <2>5 DEF FlushInv
<1>7. CASE \/ NextPacket \/ Expire \/ Save \/ Network \/ Confirm \/ Purge
           \/ \E n \in acks : OnAck(n) \/ OnLateAck(n)
           \/ \E f \in files : Resend(f)
  BY <1>1, <1>7, RestSteps DEF Rest
<1>8. CASE Reset \/ EnterStandby
  BY <1>2, <1>8, ResetEffect DEF EnterStandby
<1>9. CASE UNCHANGED vars
  BY <1>1, <1>9 DEF vars, recVars, cardVars, fileVars
<1> QED BY <1>0, <1>3, <1>4, <1>5, <1>6, <1>7, <1>8, <1>9, NoneDeferred
        DEF Next, MainTask, SdWriterTask, TelemetryTask

(* ShelfInv is inductive, given the records' identity.                       *)
LEMMA NextShelf == TypeInv /\ IdentityInv /\ ShelfInv /\ Reliable /\ [Next]_vars => ShelfInv'
BY NextCard, NextOrder, NextFlush DEF ShelfInv
-----------------------------------------------------------------------------
(* What has become of a finished record.                                     *)
Settled(r) == Stored(r) \/ r \in lost \cup excused

(* The replay finds it, now or once the SD writer has caught up.             *)
MayBe(r) ==
  rec[r].file # 0 /\ rec[r].file \in files /\ (disk[r] = "full" \/ rec[r].file = file)

(* What is settled stays so.                                                 *)
LEMMA HistoryGrows ==
  ASSUME [Next]_vars
  PROVE  stored \subseteq stored' /\ lost \subseteq lost' /\ excused \subseteq excused'
<1>1. CASE MainTask \/ SdWriterTask \/ UNCHANGED vars
  <2>1. CASE Push
    BY <2>1 DEF Push, Finish, PushLocked, Drop
  <2>2. CASE ~Push
    BY <1>1, <2>2 DEF MainTask, LogBegin, EnterStandby, Purge, SetFile, SdWriterTask, SdFlush,
                      Confirm, GoDead, vars, history
  <2> QED BY <2>1, <2>2
<1>2. CASE TelemetryTask
  <2>1. CASE StandbyPush
    BY <2>1 DEF StandbyPush, Finish, PushLocked, Drop
  <2>2. CASE NextPacket
    BY <2>2 DEF NextPacket, NextInOrder, SendNewest, SendQueued, SendReplay, ReplayEnds,
                ReplayNextFile, ReplayAbandoned, ReplayDeferred, history
  <2>3. CASE ~StandbyPush /\ ~NextPacket
    BY <1>2, <2>3 DEF TelemetryTask, Expire, Save, OnAck, OnLateAck, Resend, history
  <2> QED BY <2>1, <2>2, <2>3
<1>3. CASE Network
  BY <1>3 DEF Network, Deliver, Lose, history
<1>4. CASE Reset
  BY <1>4 DEF Reset, Restart, Panic, Damage, PowerLoss, KeptReboot, Reboot
<1> QED BY <1>1, <1>2, <1>3, <1>4 DEF Next

(* What the SD writer, standby and a reset write is complete.                *)
LEMMA WrittenOn ==
  ASSUME TypeInv, disk' = Flushed
  PROVE  \A r \in Rec : /\ disk[r] = "full" => disk'[r] = "full"
                        /\ disk[r] # "none" => disk'[r] # "none"
                        /\ disk'[r] # disk[r] => r <= made /\ rec[r].home = file /\ file # 0
BY DEF Flushed

(* The lines of a finished record only get more, and nothing but the lines   *)
(* of the open file.                                                         *)
LEMMA DiskGrows ==
  ASSUME TypeInv, IdentityInv, ShelfInv, Reliable, [Next]_vars
  PROVE  \A r \in Rec : r <= made =>
           /\ disk[r] = "full" => disk'[r] = "full"
           /\ disk[r] # "none" => disk'[r] # "none"
           /\ disk'[r] # disk[r] => rec[r].home = file /\ file # 0
<1>0. CardInv
  BY DEF ShelfInv
<1>1. CASE UNCHANGED disk
  BY <1>1
<1>2. CASE disk' = Flushed
  BY <1>2, WrittenOn
<1>3. CASE SdFlush
  <2>1. \A r \in Rec : r <= made => disk'[r] = Flushed[r]
    <3>1. \A r \in Rec : r # made + 1 => disk'[r] = Flushed[r]
      BY <1>3 DEF SdFlush, Flushed
    <3> QED BY <3>1, Numbers
  <2> QED BY <2>1 DEF Flushed
<1>4. CASE MainTask \/ UNCHANGED vars
  BY <1>1, <1>2, <1>4
  DEF MainTask, LogBegin, Push, Finish, EnterStandby, Purge, SetFile, vars, cardVars
<1>5. CASE StandbyPush
  BY <1>1, <1>5 DEF StandbyPush, Finish, cardVars
<1>6. CASE \/ NextPacket \/ Expire \/ Save \/ Network \/ Confirm
           \/ \E n \in acks : OnAck(n) \/ OnLateAck(n)
           \/ \E f \in files : Resend(f)
  BY <1>1, <1>6, RestSteps DEF Rest
<1>7. CASE Reset
  BY <1>1, <1>2, <1>7, ResetEffect
<1> QED BY <1>0, <1>3, <1>4, <1>5, <1>6, <1>7, NoneDeferred DEF Next, SdWriterTask, TelemetryTask

(* No step changes a finished record.                                        *)
LEMMA RecordsKept ==
  ASSUME TypeInv, IdentityInv, ShelfInv, Reliable, [Next]_vars
  PROVE  \A r \in Rec : r <= made => rec'[r] = rec[r]
<1>0. CardInv
  BY DEF ShelfInv
<1>1. CASE UNCHANGED rec
  BY <1>1
<1>2. CASE LogBegin
  <2>1. \A r \in Rec : r # made + 1 => rec'[r] = rec[r]
    BY <1>2, Numbers DEF LogBegin
  <2> QED BY <2>1, Numbers
<1>3. CASE Push \/ StandbyPush
  BY <1>0, <1>3, FinishEffect, Numbers
<1>4. CASE EnterStandby \/ SdFlush \/ (\E c \in CardsAtBoot : SetFile(c)) \/ UNCHANGED vars
  BY <1>1, <1>4 DEF EnterStandby, SdFlush, SetFile, vars, recVars
<1>5. CASE \/ NextPacket \/ Expire \/ Save \/ Network \/ Confirm \/ Purge
           \/ \E n \in acks : OnAck(n) \/ OnLateAck(n)
           \/ \E f \in files : Resend(f)
  BY <1>1, <1>5, RestSteps DEF Rest
<1>6. CASE Reset
  BY <1>1, <1>6, ResetEffect
<1> QED BY <1>0, <1>2, <1>3, <1>4, <1>5, <1>6, NoneDeferred
        DEF Next, MainTask, SdWriterTask, TelemetryTask

(* Files are opened by initialize() and deleted by Purge only.               *)
LEMMA FilesStay ==
  ASSUME TypeInv, ShelfInv, Reliable, [Next]_vars
  PROVE  \/ Purge
         \/ files' = files /\ (file' = file \/ file' = 0)
         \/ files' = files \cup {lastFile + 1} /\ file' = lastFile + 1
<1>0. CardInv
  BY DEF ShelfInv
<1>1. CASE files' = files /\ (file' = file \/ file' = 0)
  BY <1>1
<1>2. CASE LogBegin \/ Push \/ StandbyPush \/ EnterStandby \/ SdFlush \/ UNCHANGED vars
  BY <1>1, <1>2 DEF LogBegin, Push, StandbyPush, Finish, EnterStandby, SdFlush, vars, cardVars, fileVars
<1>3. CASE \/ NextPacket \/ Expire \/ Save \/ Network \/ Confirm
           \/ \E n \in acks : OnAck(n) \/ OnLateAck(n)
           \/ \E f \in files : Resend(f)
  BY <1>1, <1>3, RestSteps, QuietShelf DEF Rest
<1>4. ASSUME NEW c \in CardsAtBoot, SetFile(c) PROVE files' = files \cup {lastFile + 1} /\ file' = lastFile + 1
  BY <1>0, <1>4, NoneDeferred DEF SetFile
<1>5. CASE Reset
  BY <1>1, <1>5, ResetEffect, ResetFiles
<1> QED BY <1>0, <1>2, <1>3, <1>4, <1>5, NoneDeferred
        DEF Next, MainTask, SdWriterTask, TelemetryTask

(* So a finished record stays settled, and only a file that is deleted takes *)
(* it from the replay; no step brings one back.                              *)
LEMMA OldRecords ==
  ASSUME TypeInv, IdentityInv, ShelfInv, Reliable, [Next]_vars, NEW r \in Rec, r <= made
  PROVE  /\ rec'[r] = rec[r]
         /\ Settled(r) => Settled(r)'
         /\ MayBe(r)' => MayBe(r)
         /\ OnCard(r) => OnCard(r)' \/ Purge
<1>1. rec'[r] = rec[r]
  BY RecordsKept
<1>2. Settled(r) => Settled(r)'
  BY <1>1, HistoryGrows DEF Settled, Stored
<1>3. CardInv /\ OrderInv
  BY DEF ShelfInv
<1>4. /\ disk[r] = "full" => disk'[r] = "full"
      /\ disk'[r] # disk[r] => rec[r].home = file /\ file # 0
  BY DiskGrows
<1>5. rec[r].file # 0 => rec[r].home = rec[r].file /\ rec[r].file <= lastFile
  BY <1>3 DEF OrderInv
<1>6. files' \subseteq files \cup {lastFile + 1} /\ (file' = file \/ file' = 0 \/ file' = lastFile + 1)
  <2>1. CASE Purge
    BY <2>1 DEF Purge, fileVars
  <2> QED BY <2>1, FilesStay
<1>7. rec[r].file # lastFile + 1
  BY <1>5, Numbers
<1>8. MayBe(r)' => MayBe(r)
  BY <1>1, <1>4, <1>5, <1>6, <1>7 DEF MayBe
<1>9. OnCard(r) => OnCard(r)' \/ Purge
  BY <1>1, <1>4, FilesStay DEF OnCard
<1> QED BY <1>1, <1>2, <1>8, <1>9
-----------------------------------------------------------------------------
(* A record that waits has its file, the file of a confirmed one has all of  *)
(* its lines.                                                                *)
WaitingHaveFiles == \A r \in Waiting : rec[r].file # 0 => rec[r].file \in files
ConfirmedFull    == \A r \in confirmed : disk[r] = "full"

(* From the oldest entry with a file on the queue has every record, but the  *)
(* thinned out ones: where the replay stops nothing is left out.             *)
NoGap ==
  \A q \in WithFile, r \in Rec : q < r /\ r <= made => r \in Queue \cup excused

(* The flash copies are of standby records.                                  *)
FlashInv == \A r \in spiffs : rec[r].file = 0 /\ (r \in Waiting => r \in standby)

(* What the queue had to drop to the open file is not the last in it: the    *)
(* replay leaves only the last one out while it may still grow.              *)
NotLast ==
  \A r \in Rec : r <= made /\ file # 0 /\ rec[r].home = file /\ r \notin Queue /\ ~Settled(r) =>
    \E q \in Rec : r < q /\ q <= made /\ rec[q].home = file /\ disk[q] # "none"

QueueInv == WaitingHaveFiles /\ ConfirmedFull /\ NoGap /\ FlashInv /\ NotLast

(* The queue is empty at first.                                              *)
LEMMA InitQueue == Init => QueueInv
BY DEF Init, QueueInv, WaitingHaveFiles, ConfirmedFull, NoGap, FlashInv, NotLast, WithFile,
       Waiting, Queue

(* Entries leave the queue from its tail on, and stored.                     *)
Shrinks ==
  /\ Queue' \subseteq Queue /\ Waiting' \subseteq Waiting
  /\ \A r \in Waiting : r \in Waiting' \/ Stored(r)
  /\ \A r \in Queue : r \in Queue' \/ Stored(r)
  /\ \A q \in Queue', r \in Queue : q < r => r \in Queue'
  /\ spiffs' \subseteq spiffs
  /\ \A r \in Queue' : r \in standby => r \in standby'
  /\ \A r \in confirmed' : r \in confirmed \/ disk[r] = "full"

(* ... trivially so when the queue stays.                                    *)
LEMMA SameQueue ==
  ASSUME TypeInv, spiffs' \subseteq spiffs,
         \A r \in Queue : r \in standby => r \in standby',
         \A r \in confirmed' : r \in confirmed \/ disk[r] = "full",
         \A r \in Rec : (st'[r] = "none" <=> st[r] = "none") /\ (st'[r] = "acked" <=> st[r] = "acked")
  PROVE  Shrinks
<1>1. Queue' = Queue /\ Waiting' = Waiting
  BY DEF Queue, Waiting
<1> QED BY <1>1 DEF Shrinks

(* Only entries that are pending are sent.                                   *)
LEMMA SentStay ==
  ASSUME TypeInv, NEW n, NEW b, NEW R \in SUBSET Pending, SendEntries(n, b, R)
  PROVE  \A r \in Rec : (st'[r] = "none" <=> st[r] = "none") /\ (st'[r] = "acked" <=> st[r] = "acked")
<1>1. \A r \in R : st[r] = "pending"
  BY DEF Pending
<1>2. \A r \in Rec : st'[r] = IF r \in R THEN "inflight" ELSE st[r]
  BY DEF SendEntries
<1> QED BY <1>1, <1>2

(* txqOnAck() and releaseAcked().                                            *)
LEMMA AckShrinks ==
  ASSUME TypeInv, CustodyInv, NEW n \in acks, OnAck(n) PROVE Shrinks
<1>1. PICK fl \in flights : fl.no = n /\ (AckReplay(fl) \/ AckEntries(fl))
  BY DEF OnAck
<1>2. CASE AckReplay(fl)
  BY <1>2, SameQueue DEF AckReplay, queueVars
<1>3. CASE AckEntries(fl)
  <2> DEFINE s == Acked(n)
  <2>1. \A r \in Rec : st'[r] = IF \A q \in Rec : q <= r => s[q] \in {"none", "acked"} THEN "none" ELSE s[r]
    BY <1>1, <1>3 DEF AckEntries, Released
  <2>2. \A r \in Rec : s[r] = st[r] \/ (s[r] = "acked" /\ st[r] = "inflight" /\ Stored(r))
    BY <1>1 DEF Acked, CustodyInv, AcksTrue
  <2> HIDE DEF s
  <2>3. \A r \in Rec : r \in Nat
    BY Numbers
  <2>4. \A r \in Rec : st[r] = "acked" => Stored(r)
    BY DEF CustodyInv, AckedIsStored
  <2>5. Queue' \subseteq Queue /\ Waiting' \subseteq Waiting
    BY <2>1, <2>2 DEF Queue, Waiting
  <2>6. \A r \in Waiting : r \in Waiting' \/ Stored(r)
    BY <2>1, <2>2, <2>3 DEF Queue, Waiting
  <2>7. \A r \in Queue : r \in Queue' \/ Stored(r)
    BY <2>1, <2>2, <2>3, <2>4 DEF Queue
  <2>8. \A q \in Queue', r \in Queue : q < r => r \in Queue'
    <3> SUFFICES ASSUME NEW q \in Queue', NEW r \in Queue, q < r PROVE r \in Queue'
      OBVIOUS
    <3>1. q \in Rec /\ r \in Rec /\ st[r] # "none" /\ st'[q] # "none"
      BY DEF Queue
    <3>2. PICK p \in Rec : p <= q /\ s[p] \notin {"none", "acked"}
      BY <2>1, <3>1
    <3>3. p <= r
      BY <2>3, <3>1, <3>2
    <3>4. st'[r] = s[r] /\ s[r] # "none"
      BY <2>1, <2>2, <3>1, <3>2, <3>3
    <3> QED BY <3>1, <3>4 DEF Queue
  <2>9. /\ spiffs' \subseteq spiffs /\ confirmed' \subseteq confirmed
        /\ standby' = standby \cap Entries(st')
    BY <1>3 DEF AckEntries, SbFileAfter
  <2>10. \A r \in Queue' : r \in standby => r \in standby'
    BY <2>9 DEF Queue, Entries
  <2> QED BY <2>5, <2>6, <2>7, <2>8, <2>9, <2>10 DEF Shrinks
<1> QED BY <1>1, <1>2, <1>3

(* A reset that keeps the reserve keeps all of its entries.                  *)
LEMMA KeptShrinks ==
  ASSUME TypeInv, CardInv, Reliable, Restart \/ Panic PROVE Shrinks
<1>1. PICK c : KeptReboot(c, Queue)
  BY DEF Restart, Panic
<1>2. /\ st' = Revalidated(Queue) /\ standby' = standby \cap Queue
      /\ confirmed' = confirmed \cap Queue /\ spiffs' \subseteq spiffs
  BY <1>1 DEF KeptReboot, SbFileAfter
<1>3. \A r \in Rec : (st'[r] = "none" <=> st[r] = "none") /\ (st'[r] = "acked" <=> st[r] = "acked")
  BY <1>2 DEF Revalidated, Queue
<1> QED BY <1>2, <1>3, SameQueue

(* So do all steps but a push and a power loss.                              *)
LEMMA OthersShrink ==
  ASSUME TypeInv, CustodyInv, CardInv, Reliable, [Next]_vars,
         ~Push, ~StandbyPush, ~PowerLoss
  PROVE  Shrinks
<1>0. ASSUME UNCHANGED <<st, standby, spiffs>>, \A r \in confirmed' : r \in confirmed \/ disk[r] = "full"
      PROVE  Shrinks
  BY <1>0, SameQueue
<1>1. CASE MainTask \/ SdFlush \/ UNCHANGED vars
  BY <1>0, <1>1 DEF MainTask, LogBegin, EnterStandby, Purge, SetFile, SdFlush, vars, queueVars
<1>2. CASE Confirm
  <2>1. UNCHANGED <<st, standby, spiffs>> /\ \A r \in confirmed' : r \in confirmed \/ disk[r] = "full"
    BY <1>2 DEF Confirm, Confirmable
  <2> QED BY <1>0, <2>1
<1>3. CASE SendNewest
  <2>1. PICK l \in Pending, n \in PacketNo : SendEntries(n, rec[l].boot, {l})
    BY <1>3 DEF SendNewest
  <2>2. UNCHANGED <<confirmed, standby, spiffs>>
    BY <1>3 DEF SendNewest
  <2>3. {l} \in SUBSET Pending
    OBVIOUS
  <2> QED BY <2>1, <2>2, <2>3, SentStay, SameQueue
<1>4. CASE SendQueued \/ ReplayEnds \/ ReplayAbandoned
  <2>1. UNCHANGED <<confirmed, standby, spiffs>> /\ QueuePacketOrNone
    BY <1>4 DEF SendQueued, ReplayEnds, ReplayAbandoned, QueuePacketOrNone
  <2>2. CASE QueuePacket
    <3>1. PICK R \in SUBSET Pending : \E n, b : SendEntries(n, b, R)
      BY <2>2 DEF QueuePacket
    <3> QED BY <2>1, <3>1, SentStay, SameQueue
  <2>3. CASE UNCHANGED st
    BY <1>0, <2>1, <2>3
  <2> QED BY <2>1, <2>2, <2>3 DEF QueuePacketOrNone
<1>5. CASE SendReplay \/ ReplayNextFile \/ Save \/ Network
  BY <1>0, <1>5 DEF SendReplay, ReplayNextFile, Save, Network, Deliver, Lose, queueVars
<1>6. CASE (\E n \in acks : OnLateAck(n)) \/ (\E f \in files : Resend(f))
  BY <1>0, <1>6 DEF OnLateAck, Resend, queueVars
<1>7. CASE Expire
  <2>1. UNCHANGED <<confirmed, standby, spiffs>> /\ \E fl : st' = Returned(fl)
    BY <1>7 DEF Expire
  <2>2. \A r \in Rec : (st'[r] = "none" <=> st[r] = "none") /\ (st'[r] = "acked" <=> st[r] = "acked")
    BY <2>1 DEF Returned
  <2> QED BY <2>1, <2>2, SameQueue
<1>8. ~ReplayDeferred /\ ~GoDead /\ ~Damage
  BY NoneDeferred
<1> QED BY <1>1, <1>2, <1>3, <1>4, <1>5, <1>6, <1>7, <1>8, AckShrinks, KeptShrinks
        DEF Next, SdWriterTask, TelemetryTask, NextPacket, NextInOrder, Reset

(* A new record is pushed, maybe over the oldest one, or thinned out; every  *)
(* other step makes none, but a reset that cuts one off.                     *)
LEMMA PushEffect ==
  ASSUME TypeInv, CustodyInv, IdentityInv, ShelfInv, Push \/ StandbyPush
  PROVE  \/ /\ Dropped = {} \/ \E o \in Dropped : Drop(o)
            /\ \A r \in Rec : st'[r] = IF r = made + 1 THEN "pending"
                                       ELSE IF r \in Dropped THEN "none" ELSE st[r]
            /\ confirmed' = confirmed \ Dropped
            /\ standby \ Dropped \subseteq standby'
            /\ Dropped = {} => UNCHANGED <<replay, lost>>
            /\ spiffs' = spiffs \/ (StandbyPush /\ spiffs' = spiffs \cup {made + 1} /\ made + 1 \in standby')
            /\ UNCHANGED excused
         \/ /\ StandbyPush
            /\ excused' = excused \cup {made + 1}
            /\ UNCHANGED <<st, confirmed, standby, replay, lost, spiffs>>
<1>1. CASE Push
  <2>1. file # 0
    BY <1>1, FinishEffect DEF ShelfInv
  <2>2. PushLocked(made + 1, FALSE) /\ UNCHANGED <<excused, spiffs>>
    BY <1>1, <2>1 DEF Push, MayThin
  <2>3. /\ Dropped = {} \/ \E o \in Dropped : Drop(o)
        /\ \A r \in Rec : st'[r] = IF r = made + 1 THEN "pending"
                                   ELSE IF r \in Dropped THEN "none" ELSE st[r]
        /\ confirmed' = confirmed \ Dropped
        /\ standby \ Dropped \subseteq standby'
        /\ Dropped = {} => UNCHANGED <<replay, lost>>
    BY <2>2 DEF PushLocked
  <2> QED BY <2>2, <2>3
<1>2. CASE StandbyPush /\ PushLocked(made + 1, TRUE) /\ UNCHANGED excused
  <2>1. /\ Dropped = {} \/ \E o \in Dropped : Drop(o)
        /\ \A r \in Rec : st'[r] = IF r = made + 1 THEN "pending"
                                   ELSE IF r \in Dropped THEN "none" ELSE st[r]
        /\ confirmed' = confirmed \ Dropped
        /\ standby \ Dropped \subseteq standby' /\ made + 1 \in standby'
        /\ Dropped = {} => UNCHANGED <<replay, lost>>
    BY <1>2 DEF PushLocked
  <2>2. spiffs' = spiffs \/ spiffs' = spiffs \cup {made + 1}
    BY <1>2 DEF StandbyPush
  <2> QED BY <1>2, <2>1, <2>2
<1>3. CASE StandbyPush /\ ~(PushLocked(made + 1, TRUE) /\ UNCHANGED excused)
  BY <1>3 DEF StandbyPush, queueVars
<1> QED BY <1>1, <1>2, <1>3

(* After a power loss the queue has what the flash had.                      *)
LEMMA PowerLossEffect ==
  ASSUME TypeInv, PowerLoss
  PROVE  /\ Queue' = spiffs /\ Waiting' = spiffs /\ UNCHANGED <<rec, spiffs, disk, files>>
         /\ standby' = spiffs /\ confirmed' = {}
         /\ excused' = excused \cup OnlyInRam \cup (IF logging THEN {made + 1} ELSE {})
         /\ Reboot(saved, FALSE)
<1>1. /\ st' = [r \in Rec |-> IF r \in spiffs THEN "pending" ELSE "none"]
      /\ confirmed' = {} /\ standby' = spiffs /\ UNCHANGED <<disk, spiffs>>
      /\ excused' = excused \cup OnlyInRam \cup (IF logging THEN {made + 1} ELSE {})
      /\ Reboot(saved, FALSE)
  BY DEF PowerLoss
<1>2. spiffs \subseteq Rec
  BY DEF TypeInv, TypeOK, QueueTypes
<1>3. Queue' = spiffs /\ Waiting' = spiffs
  BY <1>1, <1>2 DEF Queue, Waiting
<1>4. UNCHANGED <<rec, files>>
  BY <1>1 DEF Reboot
<1> QED BY <1>1, <1>3, <1>4

(* Records are made by a push, or cut off by a reset.                        *)
LEMMA MadeSteps ==
  ASSUME TypeInv, [Next]_vars, ~Push, ~StandbyPush
  PROVE  made' = made \/ (Reset /\ made' = made + 1 /\ made + 1 \in excused')
<1>1. CASE Reset
  <2>1. made' = made \/ (logging /\ made' = made + 1)
    BY <1>1, ResetEffect
  <2>2. logging => made + 1 \in excused'
    BY <1>1 DEF Reset, Restart, Panic, Damage, PowerLoss, KeptReboot
  <2> QED BY <1>1, <2>1, <2>2
<1>2. CASE LogBegin \/ EnterStandby \/ SdFlush \/ GoDead \/ (\E c \in CardsAtBoot : SetFile(c)) \/ UNCHANGED vars
  BY <1>2 DEF LogBegin, EnterStandby, SdFlush, GoDead, SetFile, vars, recVars
<1>3. CASE \/ NextPacket \/ Expire \/ Save \/ Network \/ Confirm \/ Purge
           \/ \E n \in acks : OnAck(n) \/ OnLateAck(n)
           \/ \E f \in files : Resend(f)
  BY <1>3, RestSteps DEF Rest
<1> QED BY <1>1, <1>2, <1>3 DEF Next, MainTask, SdWriterTask, TelemetryTask
(* The numbers of entries and flash copies are of finished records.          *)
LEMMA HeldNumbers ==
  ASSUME TypeInv, CustodyInv
  PROVE  /\ \A r \in Queue : r \in Rec /\ r <= made
         /\ \A r \in spiffs : r \in Rec /\ r <= made
         /\ Waiting \subseteq Queue
<1>1. spiffs \subseteq Rec
  BY DEF TypeInv, TypeOK, QueueTypes
<1> QED BY <1>1 DEF CustodyInv, HeldAreMade, Queue, Waiting

(* The cleanup deletes no file an entry waits for.                           *)
LEMMA NextWaitingHaveFiles ==
  ASSUME TypeInv, CustodyInv, IdentityInv, ShelfInv, QueueInv, Reliable, [Next]_vars
  PROVE  WaitingHaveFiles'
<1>0. WaitingHaveFiles /\ FlashInv /\ CardInv
  BY DEF QueueInv, ShelfInv
<1>1. \A r \in Waiting : r \in Rec /\ r <= made /\ rec'[r] = rec[r]
  BY HeldNumbers, RecordsKept
<1>2. CASE Shrinks /\ ~Purge
  <2>1. files \subseteq files'
    BY <1>2, FilesStay
  <2> QED BY <1>0, <1>1, <1>2, <2>1 DEF WaitingHaveFiles, Shrinks
<1>3. CASE Purge
  <2>1. PICK f : files' = files \ {f} /\ ~Needed(f)
    BY <1>3 DEF Purge
  <2>2. \A r \in Waiting : rec[r].file # 0 => ~(rec[r].file <= f)
    BY <2>1 DEF Needed
  <2>3. \A r \in Waiting : rec[r].file # 0 => rec[r].file # f
    BY <1>1, <2>2, Numbers
  <2>4. Waiting' = Waiting
    BY <1>3 DEF Purge, queueVars, Waiting, Queue
  <2> QED BY <1>0, <1>1, <2>1, <2>3, <2>4 DEF WaitingHaveFiles
<1>4. CASE Push \/ StandbyPush
  <2>1. \A r \in Waiting' : r \in Waiting \/ r = made + 1
    BY <1>4, PushEffect DEF Waiting, Queue
  <2>2. rec'[made + 1].file = file /\ files' = files /\ (file # 0 => file \in files)
    BY <1>0, <1>4, FinishEffect DEF CardInv
  <2> QED BY <1>0, <1>1, <2>1, <2>2 DEF WaitingHaveFiles
<1>5. CASE PowerLoss
  BY <1>0, <1>5, PowerLossEffect DEF WaitingHaveFiles, FlashInv
<1> QED BY <1>0, <1>2, <1>3, <1>4, <1>5, OthersShrink

(* What is on the card as a whole stays so.                                  *)
LEMMA NextConfirmedFull ==
  ASSUME TypeInv, CustodyInv, IdentityInv, ShelfInv, QueueInv, Reliable, [Next]_vars
  PROVE  ConfirmedFull'
<1>0. ConfirmedFull /\ LinesInv /\ LogInv /\ CardInv
  BY DEF QueueInv, IdentityInv, ShelfInv
<1>1. \A r \in confirmed' : r \in confirmed \/ disk[r] = "full"
  <2>1. CASE Push \/ StandbyPush
    BY <2>1, PushEffect
  <2>2. CASE PowerLoss
    BY <2>2, PowerLossEffect
  <2> QED BY <1>0, <2>1, <2>2, OthersShrink DEF Shrinks
<1>2. \A r \in Rec : disk[r] = "full" => disk'[r] = "full"
  <2>1. \A r \in Rec : disk[r] = "full" => r <= made \/ (logging /\ r = made + 1)
    BY <1>0 DEF LinesInv
  <2>2. logging /\ disk[made + 1] = "full" => disk'[made + 1] = "full"
    <3> SUFFICES ASSUME logging, disk[made + 1] = "full" PROVE disk'[made + 1] = "full"
      OBVIOUS
    <3>1. Flushed[made + 1] = "full"
      BY Numbers DEF Flushed
    <3>2. CASE UNCHANGED disk \/ disk' = Flushed
      BY <3>1, <3>2
    <3>3. CASE SdFlush
      BY <3>1, <3>3 DEF SdFlush
    <3>4. UNCHANGED disk \/ disk' = Flushed \/ SdFlush
      <4>1. CASE MainTask \/ StandbyPush \/ UNCHANGED vars
        BY <4>1 DEF MainTask, LogBegin, Push, Finish, EnterStandby, Purge, SetFile, StandbyPush,
                    vars, cardVars
      <4>2. CASE \/ NextPacket \/ Expire \/ Save \/ Network \/ Confirm
                 \/ \E n \in acks : OnAck(n) \/ OnLateAck(n)
                 \/ \E f \in files : Resend(f)
        BY <4>2, RestSteps DEF Rest
      <4>3. CASE Reset
        BY <4>3, ResetEffect
      <4> QED BY <1>0, <4>1, <4>2, <4>3, NoneDeferred DEF Next, SdWriterTask, TelemetryTask
    <3> QED BY <3>2, <3>3, <3>4
  <2> QED BY <2>1, <2>2, DiskGrows
<1>3. confirmed' \subseteq Rec
  BY NextQueueTypes DEF QueueTypes
<1>4. confirmed \subseteq Rec
  BY DEF TypeInv, TypeOK, QueueTypes
<1> QED BY <1>0, <1>1, <1>2, <1>3, <1>4 DEF ConfirmedFull

(* A queue that shrinks does so from its tail, one that grows at its head.   *)
LEMMA NextNoGap ==
  ASSUME TypeInv, CustodyInv, IdentityInv, ShelfInv, QueueInv, Reliable, [Next]_vars
  PROVE  NoGap'
<1>0. NoGap /\ FlashInv
  BY DEF QueueInv
<1>1. \A r \in Queue : r \in Rec /\ r <= made /\ rec'[r] = rec[r] /\ r \in Nat
  BY HeldNumbers, RecordsKept, Numbers
<1>2. excused \subseteq excused' /\ made \in Nat
  BY HistoryGrows, Numbers
<1>3. CASE ~Push /\ ~StandbyPush /\ ~PowerLoss
  <2>1. Shrinks
    BY <1>3, OthersShrink DEF ShelfInv
  <2>2. \A r \in Rec : r <= made' => r <= made \/ r \in excused'
    <3>1. \A r \in Rec : r <= made + 1 => r <= made \/ r = made + 1
      BY Numbers
    <3> QED BY <1>3, <3>1, MadeSteps
  <2>3. \A q \in WithFile' : q \in WithFile /\ q \in Queue'
    BY <1>1, <2>1 DEF WithFile, Shrinks
  <2> SUFFICES ASSUME NEW q \in WithFile', NEW r \in Rec, q < r, r <= made'
               PROVE  r \in Queue' \cup excused'
    BY DEF NoGap
  <2>4. CASE r \in Queue
    BY <2>1, <2>3, <2>4 DEF Shrinks
  <2>5. CASE r \notin Queue
    BY <1>0, <1>2, <2>2, <2>3, <2>5 DEF NoGap
  <2> QED BY <2>4, <2>5
<1>4. CASE Push \/ StandbyPush
  <2>1. made' = made + 1 /\ made + 1 \in Rec
    BY <1>4, FinishEffect DEF ShelfInv
  <2>2. \A r \in Rec : r <= made + 1 => r <= made \/ r = made + 1
    BY Numbers
  <2> SUFFICES ASSUME NEW q \in WithFile', NEW r \in Rec, q < r, r <= made'
               PROVE  r \in Queue' \cup excused'
    BY DEF NoGap
  <2>3. q \in Rec /\ q <= made /\ q \in Nat /\ r \in Nat /\ q # made + 1
    <3>1. q \in Queue' /\ q \in Rec
      BY DEF WithFile, Queue
    <3>2. q < made + 1
      BY <2>1, <3>1, Numbers
    <3> QED BY <3>1, <3>2, Numbers
  <2>4. CASE excused' = excused \cup {made + 1} /\ UNCHANGED st
    <3>1. q \in WithFile
      BY <2>3, <2>4, RecordsKept DEF WithFile, Queue
    <3> QED BY <1>0, <2>1, <2>2, <2>4, <3>1 DEF NoGap, Queue
  <2>5. CASE \A x \in Rec : st'[x] = IF x = made + 1 THEN "pending"
                                     ELSE IF x \in Dropped THEN "none" ELSE st[x]
    <3>1. q \in WithFile /\ q \notin Dropped
      BY <2>3, <2>5, RecordsKept DEF WithFile, Queue
    <3>2. CASE r = made + 1
      BY <2>5, <3>2 DEF Queue
    <3>3. CASE r # made + 1
      <4>1. r \in Queue \cup excused
        BY <1>0, <2>1, <2>2, <3>1, <3>3 DEF NoGap
      <4>2. r \notin Dropped
        BY <2>3, <3>1 DEF Dropped, IsLeast, WithFile
      <4> QED BY <1>2, <2>5, <3>3, <4>1, <4>2 DEF Queue
    <3> QED BY <3>2, <3>3
  <2> QED BY <1>4, <2>4, <2>5, PushEffect
<1>5. CASE PowerLoss
  BY <1>0, <1>5, PowerLossEffect DEF NoGap, FlashInv, WithFile
<1> QED BY <1>3, <1>4, <1>5

(* Only standby() copies records to the flash: they have no file.            *)
LEMMA NextFlash ==
  ASSUME TypeInv, CustodyInv, IdentityInv, ShelfInv, QueueInv, Reliable, [Next]_vars
  PROVE  FlashInv'
<1>0. FlashInv /\ \A r \in spiffs : rec'[r] = rec[r] /\ r # made + 1
  BY HeldNumbers, RecordsKept, Numbers DEF QueueInv
<1>1. CASE ~Push /\ ~StandbyPush /\ ~PowerLoss
  <2>1. Shrinks
    BY <1>1, OthersShrink DEF ShelfInv
  <2>2. Waiting' \subseteq Queue'
    BY DEF Waiting
  <2> QED BY <1>0, <2>1, <2>2 DEF FlashInv, Shrinks
<1>2. CASE Push \/ StandbyPush
  <2>1. rec'[made + 1].file = file /\ (StandbyPush => file = 0)
    BY <1>2, FinishEffect DEF ShelfInv
  <2>2. CASE UNCHANGED <<st, standby, spiffs>>
    BY <1>0, <2>2 DEF FlashInv, Waiting, Queue
  <2>3. CASE /\ \A r \in Rec : st'[r] = IF r = made + 1 THEN "pending"
                                        ELSE IF r \in Dropped THEN "none" ELSE st[r]
             /\ standby \ Dropped \subseteq standby'
             /\ spiffs' = spiffs \/ (StandbyPush /\ spiffs' = spiffs \cup {made + 1} /\ made + 1 \in standby')
    <3>1. \A r \in spiffs : r \in Waiting' => r \in Waiting /\ r \notin Dropped
      BY <1>0, <2>3 DEF Waiting, Queue
    <3> QED BY <1>0, <2>1, <2>3, <3>1 DEF FlashInv
  <2> QED BY <1>2, <2>2, <2>3, PushEffect
<1>3. CASE PowerLoss
  BY <1>0, <1>3, PowerLossEffect DEF FlashInv
<1> QED BY <1>1, <1>2, <1>3
(* The SD writer keeps up: what the full queue drops to the open file has a  *)
(* record with lines after it.                                               *)
LEMMA DroppedIsNotLast ==
  ASSUME TypeInv, CustodyInv, ShelfInv, Push, NEW o \in Dropped, file # 0, rec[o].home = file
  PROVE  \E q \in Rec : o < q /\ q <= made /\ rec[q].home = file /\ disk[q] # "none"
<1> DEFINE S == {r \in WithFile : rec[r].file = file /\ disk[r] # "full"}
           Q == Queue \ {o}
<1> SUFFICES ASSUME \A q \in Rec : o < q /\ q <= made /\ rec[q].home = file => disk[q] = "none"
             PROVE  FALSE
  OBVIOUS
<1>1. Cardinality(Queue) >= Cap /\ o \in Queue /\ \A q \in Queue : o <= q
  BY DEF Dropped, Overflows, IsLeast
<1>2. Cardinality(S) < Cap - 1
  BY DEF Push, KeepsUp
<1>3. IsFiniteSet(Queue) /\ IsFiniteSet(S)
  <2>1. IsFiniteSet(Rec)
    <3>1. 1 \in Int /\ MaxRec \in Int
      BY BoundsAssumption
    <3> QED BY <3>1, FS_Interval DEF Rec
  <2>2. Queue \subseteq Rec /\ S \subseteq Rec
    BY DEF WithFile, Queue
  <2> QED BY <2>1, <2>2, FS_Subset
<1>4. \A q \in Q : q \in S
  <2> SUFFICES ASSUME NEW q \in Q PROVE q \in S
    OBVIOUS
  <2>1. q \in Queue /\ q # o /\ q \in Rec /\ o \in Rec /\ q <= made
    BY <1>1, HeldNumbers
  <2>2. o < q
    BY <1>1, <2>1, Numbers
  <2>3. rec[q].file = file
    BY <2>1, <2>2 DEF ShelfInv, OrderInv
  <2>4. rec[q].home = file
    BY <2>1, <2>3 DEF ShelfInv, OrderInv
  <2>5. disk[q] = "none"
    BY <2>1, <2>2, <2>4
  <2> QED BY <2>1, <2>3, <2>5 DEF WithFile
<1>5. Cardinality(Q) = Cardinality(Queue) - 1
  BY <1>1, <1>3, FS_RemoveElement
<1>6. Cardinality(Q) <= Cardinality(S)
  BY <1>3, <1>4, FS_Subset
<1>7. Cardinality(Queue) \in Nat /\ Cardinality(S) \in Nat /\ Cap \in Nat
  BY <1>3, FS_CardinalityType, BoundsAssumption
<1> HIDE DEF S, Q
<1> QED BY <1>1, <1>2, <1>5, <1>6, <1>7

(* So the replay never ends before a record because that may still grow.     *)
LEMMA NextNotLast ==
  ASSUME TypeInv, CustodyInv, IdentityInv, ShelfInv, QueueInv, Reliable, [Next]_vars
  PROVE  NotLast'
<1>0. NotLast /\ ConfirmedFull
  BY DEF QueueInv
<1> SUFFICES ASSUME NEW r \in Rec, r <= made', file' # 0, rec'[r].home = file', r \notin Queue',
                    ~Settled(r)'
             PROVE  \E q \in Rec : r < q /\ q <= made' /\ rec'[q].home = file' /\ disk'[q] # "none"
  BY DEF NotLast
<1>1. r <= made /\ made <= made'
  <2>1. made <= made'
    BY NextBootsKept
  <2>2. CASE ~Push /\ ~StandbyPush
    <3>1. made' = made
      BY <2>2, MadeSteps, ResetEffect
    <3> QED BY <2>1, <3>1
  <2>3. CASE Push \/ StandbyPush
    <3>1. made' = made + 1
      BY <2>3, FinishEffect DEF ShelfInv
    <3>2. r # made + 1
      <4> SUFFICES ASSUME r = made + 1 PROVE FALSE
        OBVIOUS
      <4>1. st'[r] = "pending" \/ r \in excused'
        BY <2>3, PushEffect
      <4> QED BY <4>1 DEF Queue, Settled
    <3> QED BY <2>1, <3>1, <3>2, Numbers
  <2> QED BY <2>2, <2>3
<1>2. rec'[r] = rec[r] /\ ~Settled(r)
  BY <1>1, OldRecords
<1>3. file' = file
  <2>1. rec[r].home # lastFile + 1
    BY Numbers DEF IdentityInv, HomesInv
  <2>2. CASE Purge
    BY <2>2 DEF Purge, fileVars
  <2> QED BY <1>2, <2>1, <2>2, FilesStay
<1>4. \A q \in Rec : q <= made /\ rec[q].home = file /\ disk[q] # "none" =>
        q <= made' /\ rec'[q].home = file' /\ disk'[q] # "none"
  BY <1>1, <1>3, RecordsKept, DiskGrows, Numbers, NextBootsKept
<1>5. \E q \in Rec : r < q /\ q <= made /\ rec[q].home = file /\ disk[q] # "none"
  <2>1. CASE r \notin Queue
    BY <1>0, <1>1, <1>2, <1>3, <2>1 DEF NotLast
  <2>2. CASE r \in Queue /\ ~Push
    <3>1. ~StandbyPush
      BY <1>3, FinishEffect DEF ShelfInv
    <3>2. ~PowerLoss
      BY ResetEffect DEF Reset
    <3>3. Shrinks
      BY <2>2, <3>1, <3>2, OthersShrink DEF ShelfInv
    <3> QED BY <1>2, <2>2, <3>3 DEF Shrinks, Settled
  <2>3. CASE r \in Queue /\ Push
    <3>1. r \in Dropped
      <4>1. ~StandbyPush
        BY <1>3, FinishEffect DEF ShelfInv
      <4>2. r # made + 1
        BY <1>1, Numbers
      <4>3. st'[r] = IF r \in Dropped THEN "none" ELSE st[r]
        BY <2>3, <4>1, <4>2, PushEffect
      <4> QED BY <2>3, <4>3 DEF Queue
    <3> QED BY <1>2, <1>3, <2>3, <3>1, DroppedIsNotLast
  <2> QED BY <2>1, <2>2, <2>3
<1> QED BY <1>4, <1>5

(* QueueInv is inductive, given the types, the custody and the shelf.        *)
LEMMA NextQueue ==
  TypeInv /\ CustodyInv /\ IdentityInv /\ ShelfInv /\ QueueInv /\ Reliable /\ [Next]_vars => QueueInv'
BY NextWaitingHaveFiles, NextConfirmedFull, NextNoGap, NextFlash, NextNotLast DEF QueueInv
-----------------------------------------------------------------------------
(* From a place (file, ts) on, a replay comes to all that the card has and   *)
(* the server has not.                                                       *)
Covers(c)    == \A r \in Rec : r <= made => Settled(r) \/ ~MayBe(r) \/ Ahead(r, c)
GoodPlace(c) == c.file \in 1..lastFile /\ c.ts <= made + 1 /\ Covers(c)

(* The running replay and the cursor in NVS are at such places.              *)
ReplayInv == replay.on => GoodPlace(replay)
CursorInv == (saved.file # 0 => GoodPlace(saved)) /\ (saved.on => saved.file # 0)

(* The custody of a record: the queue's, or the running replay's.            *)
KeptInv ==
  \A r \in Rec : r <= made => Settled(r) \/ r \in Waiting \/ (OnCard(r) /\ replay.on)

(* The ACK of a replay packet moves the replay over what was in it only: any *)
(* packet of its number has those records, and its ACK says they are stored. *)
PassedOver(r, fl) == MayBe(r) /\ Ahead(r, replay) /\ ~Ahead(r, AfterReplayAck(fl))
Carries(fl) ==
  \A r \in Rec : r <= made /\ PassedOver(r, fl) =>
    /\ \A p \in net : p.no = fl.no => p.boot = rec[r].boot /\ r \in p.recs
    /\ fl.no \in acks => Stored(r)
FlightInv ==
  /\ \A fl \in flights : fl.sd => replay.on /\ fileKnown /\ fl.next <= made + 1 /\ Carries(fl)
  /\ \A fl, gl \in flights : fl.sd /\ gl.sd => fl = gl

LossInv == KeptInv /\ ReplayInv /\ CursorInv /\ FlightInv

AllInv == TypeInv /\ CustodyInv /\ IdentityInv /\ ShelfInv /\ QueueInv /\ LossInv

(* No replay runs and no record is made at first.                            *)
LEMMA InitLoss == Init => LossInv
<1> SUFFICES ASSUME Init PROVE LossInv
  OBVIOUS
<1>1. KeptInv
  BY BoundsAssumption DEF Init, KeptInv, Rec
<1>2. ReplayInv /\ CursorInv
  BY DEF Init, ReplayInv, CursorInv, NoReplay, NoCursor
<1>3. FlightInv
  BY DEF Init, FlightInv
<1> QED BY <1>1, <1>2, <1>3 DEF LossInv

(* A record that is finished now is ahead of every good place.               *)
LEMMA NewestAhead ==
  ASSUME TypeInv, NEW f \in Nat, NEW t \in Nat, NEW r \in Nat, NEW g \in Nat, f <= g, t <= r
  PROVE  ~Before(g, r, f, t)
BY DEF Before

(* A good place stays one, whatever happens.                                 *)
LEMMA PlaceKept ==
  ASSUME TypeInv, CustodyInv, IdentityInv, ShelfInv, Reliable, [Next]_vars,
         NEW c, c.file \in Nat, c.ts \in Nat, GoodPlace(c)
  PROVE  GoodPlace(c)'
<1>0. made \in Nat /\ made' \in Nat /\ made <= made' /\ lastFile \in Nat
  BY NextBootsKept, Numbers
<1>1. lastFile' = lastFile \/ lastFile' = lastFile + 1
  <2>1. CASE MainTask \/ SdFlush \/ UNCHANGED vars
    BY <2>1 DEF MainTask, LogBegin, Push, Finish, EnterStandby, Purge, SetFile, SdFlush, vars, fileVars
  <2>2. CASE StandbyPush
    BY <2>2 DEF StandbyPush, Finish, fileVars
  <2>3. CASE \/ NextPacket \/ Expire \/ Save \/ Network \/ Confirm
             \/ \E n \in acks : OnAck(n) \/ OnLateAck(n)
             \/ \E f \in files : Resend(f)
    BY <2>3, RestSteps DEF Rest
  <2>4. CASE Reset
    BY <2>4, ResetEffect
  <2>5. ~GoDead
    BY NoneDeferred DEF ShelfInv
  <2> QED BY <2>1, <2>2, <2>3, <2>4, <2>5 DEF Next, SdWriterTask, TelemetryTask
<1>2. c.file \in 1..lastFile' /\ c.ts <= made' + 1
  BY <1>0, <1>1 DEF GoodPlace
<1>3. ASSUME NEW r \in Rec, r <= made', ~Settled(r)', MayBe(r)' PROVE Ahead(r, c)'
  <2>1. CASE r <= made
    <3>1. ~Settled(r) /\ MayBe(r) /\ rec'[r] = rec[r]
      BY <1>3, <2>1, OldRecords
    <3>2. Ahead(r, c)
      BY <2>1, <3>1 DEF GoodPlace, Covers
    <3> QED BY <3>1, <3>2 DEF Ahead
  <2>2. CASE ~(r <= made)
    <3>1. Push \/ StandbyPush
      <4> SUFFICES ASSUME ~Push, ~StandbyPush PROVE FALSE
        OBVIOUS
      <4>1. made' = made + 1 /\ made + 1 \in excused'
        BY <1>3, <2>2, MadeSteps
      <4>2. r = made + 1
        BY <1>0, <1>3, <2>2, <4>1, Numbers
      <4> QED BY <1>3, <4>1, <4>2 DEF Settled
    <3>2. made' = made + 1 /\ rec'[made + 1].file = file /\ UNCHANGED <<file, files>>
      BY <3>1, FinishEffect DEF ShelfInv
    <3>3. r = made + 1
      BY <1>0, <1>3, <2>2, <3>2, Numbers
    <3>4. file = lastFile
      BY <1>3, <3>2, <3>3 DEF MayBe, ShelfInv, CardInv
    <3>5. c.file <= file /\ c.ts <= r /\ r \in Nat /\ file \in Nat
      BY <3>3, <3>4, Numbers DEF GoodPlace
    <3>6. ~Before(file, r, c.file, c.ts)
      BY <3>5, NewestAhead
    <3> QED BY <3>2, <3>3, <3>6 DEF Ahead
  <2> QED BY <2>1, <2>2
<1> QED BY <1>2, <1>3 DEF GoodPlace, Covers

(* While no replay runs, all that is not settled waits in the queue: a       *)
(* place not after the oldest entry with a file is good.                     *)
LEMMA OldestIsGood ==
  ASSUME AllInv, ~replay.on, NEW f \in 1..lastFile, NEW t \in Nat, t <= made + 1, NEW c,
         c.file = f, c.ts = t,
         \A r \in Unconfirmed : ~Before(rec[r].file, r, f, t)
  PROVE  GoodPlace(c)
<1>1. ASSUME NEW r \in Rec, r <= made, ~Settled(r), MayBe(r) PROVE Ahead(r, c)
  <2>1. r \in Waiting
    BY <1>1 DEF AllInv, LossInv, KeptInv
  <2>2. r \in Unconfirmed
    BY <1>1, <2>1 DEF Unconfirmed, MayBe
  <2> QED BY <2>2 DEF Ahead
<1> QED BY <1>1 DEF GoodPlace, Covers

(* An entry of the queue is a good place when all that waits comes after it. *)
LEMMA EntryIsGood ==
  ASSUME AllInv, ~replay.on, NEW o \in Rec, o <= made, rec[o].file # 0,
         \A r \in Unconfirmed : o <= r, NEW c, c.file = rec[o].file, c.ts = o
  PROVE  GoodPlace(c)
<1>0. TypeInv /\ OrderInv /\ CustodyInv
  BY DEF AllInv, ShelfInv
<1>1. rec[o].file \in 1..lastFile /\ o \in Nat /\ o <= made + 1
  BY <1>0, Numbers DEF OrderInv
<1>2. ASSUME NEW r \in Unconfirmed PROVE ~Before(rec[r].file, r, rec[o].file, o)
  <2>1. r \in Rec /\ r <= made /\ o <= r /\ rec[r].file # 0
    BY <1>0, <1>2, HeldNumbers DEF Unconfirmed
  <2>2. rec[o].file <= rec[r].file
    <3>1. r = o \/ o < r
      BY <1>0, <2>1, Numbers
    <3> QED BY <1>0, <2>1, <3>1, Numbers DEF OrderInv
  <2> QED BY <1>0, <2>1, <2>2, Numbers DEF Before
<1> QED BY <1>1, <1>2, OldestIsGood

(* What txqSave() writes is a good place.                                    *)
LEMMA CursorIsGood ==
  ASSUME AllInv, NEW c \in Cursor, CursorIs(c)
  PROVE  (c.file # 0 => GoodPlace(c)) /\ (c.on <=> replay.on) /\ (c.on => c.file # 0)
<1>0. TypeInv /\ CustodyInv /\ CardInv /\ OrderInv /\ ReplayInv
  BY DEF AllInv, ShelfInv, LossInv
<1>1. CASE replay.on
  <2>1. c.file = replay.file /\ c.ts = replay.ts /\ c.on
    BY <1>1 DEF CursorIs
  <2>2. GoodPlace(replay) /\ replay.file # 0
    BY <1>0, <1>1, Numbers DEF ReplayInv, GoodPlace
  <2>3. GoodPlace(c)
    BY <2>1, <2>2 DEF GoodPlace, Covers, Ahead
  <2> QED BY <1>1, <2>1, <2>2, <2>3
<1>2. CASE ~replay.on /\ Unconfirmed # {}
  <2>1. PICK o \in Unconfirmed :
          IsLeast(o, Unconfirmed) /\ c = [file |-> rec[o].file, ts |-> o, on |-> FALSE]
    BY <1>2 DEF CursorIs
  <2>2. o \in Rec /\ o <= made /\ rec[o].file # 0 /\ \A r \in Unconfirmed : o <= r
    BY <1>0, <2>1, HeldNumbers DEF Unconfirmed, IsLeast
  <2>3. c.file = rec[o].file /\ c.ts = o /\ c.on = FALSE
    BY <2>1
  <2> QED BY <1>2, <2>2, <2>3, EntryIsGood
<1>3. CASE ~replay.on /\ Unconfirmed = {}
  <2>1. c.on = FALSE /\ (c.file # 0 => c.file = file /\ c.ts = made + 1)
    BY <1>3 DEF CursorIs, NoCursor
  <2>2. ASSUME c.file # 0 PROVE GoodPlace(c)
    <3>1. file \in 1..lastFile /\ made + 1 \in Nat
      BY <1>0, <2>1, <2>2, Numbers DEF CardInv
    <3> QED BY <1>3, <2>1, <2>2, <3>1, OldestIsGood
  <2> QED BY <1>3, <2>1, <2>2
<1> QED BY <1>1, <1>2, <1>3
-----------------------------------------------------------------------------
(* What the replay would read next.                                          *)
LEMMA InLines ==
  ASSUME TypeInv, ShelfInv, NEW r \in Rec, rec[r].file = replay.file, replay.file # 0,
         disk[r] # "none", Ahead(r, replay)
  PROVE  r \in Lines
<1>1. rec[r].home = replay.file
  BY DEF ShelfInv, OrderInv
<1>2. r >= replay.ts
  BY Numbers DEF Ahead, Before
<1> QED BY <1>1, <1>2 DEF Lines

(* A record the replay still has to send is on the card, in the replay's     *)
(* file or a later one.                                                      *)
LEMMA LeftToReplay ==
  ASSUME AllInv, NEW r \in Rec, r <= made, ~Settled(r), r \notin Waiting
  PROVE  /\ r \notin Queue /\ replay.on /\ OnCard(r) /\ MayBe(r) /\ Ahead(r, replay)
         /\ replay.file \in 1..lastFile /\ replay.file <= rec[r].file /\ rec[r].file <= lastFile
<1>0. TypeInv /\ CustodyInv /\ CardInv /\ OrderInv /\ KeptInv /\ ReplayInv
  BY DEF AllInv, ShelfInv, LossInv
<1>1. r \notin Queue
  BY <1>0 DEF Waiting, CustodyInv, AckedIsStored, Settled
<1>2. OnCard(r) /\ replay.on
  BY <1>0 DEF KeptInv
<1>3. MayBe(r) /\ rec[r].file <= lastFile
  BY <1>0, <1>2 DEF OnCard, MayBe, CardInv, OrderInv
<1>4. replay.file \in 1..lastFile /\ Ahead(r, replay)
  BY <1>0, <1>2, <1>3 DEF ReplayInv, GoodPlace, Covers
<1>5. replay.file <= rec[r].file
  BY <1>0, <1>4, Numbers DEF Ahead, Before
<1> QED BY <1>1, <1>2, <1>3, <1>4, <1>5

(* A building replay has the card's state.                                   *)
LEMMA BuildingKnows ==
  ASSUME CardInv, Building
  PROVE  replay.on /\ ~SdBusy /\ fileKnown /\ maxFile = lastFile /\ card = "ok" /\ lastFile # 0
BY DEF Building, CanBuild, Blocked, CardInv

(* A replay ends only where nothing is left to it: at the queue's oldest     *)
(* entry with a file, or at the end of the last file.                        *)
LEMMA EndsRight ==
  ASSUME AllInv, ReplayEnds \/ ReplayAbandoned, NEW r \in Rec, r <= made, ~Settled(r)
  PROVE  r \in Waiting
<1> SUFFICES ASSUME r \notin Waiting PROVE FALSE
  OBVIOUS
<1>0. TypeInv /\ CustodyInv /\ ShelfInv /\ CardInv /\ OrderInv /\ QueueInv
  BY DEF AllInv, ShelfInv
<1>1. /\ r \notin Queue /\ OnCard(r) /\ Ahead(r, replay)
      /\ replay.file \in 1..lastFile /\ replay.file <= rec[r].file /\ rec[r].file <= lastFile
  BY LeftToReplay
<1>2. Building
  BY DEF ReplayEnds, ReplayAbandoned
<1>3. maxFile = lastFile /\ card = "ok"
  BY <1>0, <1>2, BuildingKnows
<1>4. replay.file = rec[r].file /\ replay.file # 0 => r \in Lines
  BY <1>0, <1>1, InLines DEF OnCard
<1>5. replay.file # 0 /\ replay.file \in Nat /\ r \in Nat
  BY <1>0, <1>1, Numbers
<1>6. CASE ReplayAbandoned
  <2>1. replay.file = rec[r].file
    BY <1>0, <1>1, <1>3, <1>6, Numbers DEF ReplayAbandoned
  <2>2. replay.file \notin files
    BY <1>3, <1>6 DEF ReplayAbandoned, Readable
  <2> QED BY <1>1, <2>1, <2>2 DEF OnCard
<1>7. CASE ReplayEnds /\ Stops # {}
  <2>1. PICK s \in Stops : StopsAt(replay.file, s)
    BY <1>7 DEF Stops
  <2>2. PICK o \in WithFile : IsLeast(o, WithFile) /\ ~Before(replay.file, s, rec[o].file, o)
    BY <2>1 DEF StopsAt
  <2>3. o \in Queue /\ o \in Rec /\ o <= made /\ o \in Nat /\ s \in Nat /\ rec[o].file # 0
    BY <1>0, <2>2, HeldNumbers, Numbers DEF WithFile, Stops, Lines
  <2>4. rec[o].file <= replay.file
    BY <1>0, <2>2, <2>3, Numbers DEF Before
  <2>5. r < o
    <3>1. r # o
      BY <1>1, <2>3
    <3>2. ~(o < r)
      BY <1>0, <1>1, <2>2 DEF QueueInv, NoGap, Settled
    <3> QED BY <1>5, <2>3, <3>1, <3>2
  <2>6. rec[r].file <= rec[o].file
    BY <1>0, <2>3, <2>5 DEF OrderInv
  <2>7. rec[r].file = replay.file /\ rec[o].file = replay.file
    BY <1>0, <1>1, <2>3, <2>4, <2>6, Numbers
  <2>8. r \in Lines
    BY <1>4, <1>5, <2>7
  <2>9. ~StopsAt(replay.file, r)
    <3>1. \A q \in WithFile : IsLeast(q, WithFile) => q = o
      BY <1>0, <2>2, HeldNumbers, Numbers DEF IsLeast, WithFile
    <3>2. Before(replay.file, r, rec[o].file, o)
      BY <2>5, <2>7 DEF Before
    <3> QED BY <3>1, <3>2 DEF StopsAt
  <2>10. r \in ToSend
    BY <2>8, <2>9 DEF ToSend, Stops
  <2>11. Growing(ToSend) = {}
    BY <1>7 DEF Growing, AtEof
  <2>12. Growing(ToSend) = {r}
    BY <1>7, <2>10 DEF ReplayEnds, NothingLeft
  <2> QED BY <2>11, <2>12
<1>8. CASE ReplayEnds /\ Stops = {}
  <2>1. replay.file >= lastFile
    BY <1>3, <1>8 DEF ReplayEnds
  <2>2. replay.file = rec[r].file
    BY <1>0, <1>1, <2>1, Numbers
  <2>3. r \in Lines /\ ToSend = Lines
    BY <1>4, <1>5, <1>8, <2>2 DEF ToSend
  <2>4. Growing(ToSend) = {r}
    BY <1>8, <2>3 DEF ReplayEnds, NothingLeft
  <2>5. replay.file = file /\ IsLast(r, Lines)
    BY <2>3, <2>4 DEF Growing
  <2>6. rec[r].home = file /\ file # 0
    BY <2>3, <2>5, <1>5 DEF Lines
  <2>7. PICK q \in Rec : r < q /\ q <= made /\ rec[q].home = file /\ disk[q] # "none"
    BY <1>0, <1>1, <2>6 DEF QueueInv, NotLast
  <2>8. q \in Nat /\ r >= replay.ts /\ replay.ts \in Nat
    BY <1>0, <2>3, Numbers DEF Lines
  <2>9. q \in Lines
    BY <1>5, <2>5, <2>7, <2>8 DEF Lines
  <2> QED BY <1>5, <2>5, <2>7, <2>8, <2>9 DEF IsLast
<1> QED BY <1>6, <1>7, <1>8

(* A file the replay leaves has nothing more for it.                         *)
LEMMA NextFileIsGood ==
  ASSUME AllInv, ReplayNextFile PROVE GoodPlace(NextFile)
<1>0. TypeInv /\ ShelfInv /\ CardInv /\ ReplayInv /\ Building
  BY DEF AllInv, ShelfInv, LossInv, ReplayNextFile
<1>1. replay.on /\ maxFile = lastFile /\ card = "ok"
  BY <1>0, BuildingKnows
<1>2. GoodPlace(replay) /\ replay.file \in 1..lastFile /\ replay.file < lastFile
  BY <1>0, <1>1 DEF ReplayInv, GoodPlace, ReplayNextFile
<1>3. NextFile.file = replay.file + 1 /\ NextFile.ts = 0
  BY DEF NextFile, ReplayAt
<1>4. NextFile.file \in 1..lastFile /\ NextFile.ts <= made + 1
  BY <1>0, <1>2, <1>3, Numbers
<1>5. ASSUME NEW r \in Rec, r <= made, ~Settled(r), MayBe(r) PROVE Ahead(r, NextFile)
  <2>1. Ahead(r, replay)
    BY <1>2, <1>5 DEF GoodPlace, Covers
  <2>2. rec[r].file # replay.file
    <3> SUFFICES ASSUME rec[r].file = replay.file PROVE FALSE
      OBVIOUS
    <3>1. replay.file # file /\ replay.file # 0
      BY <1>0, <1>2, Numbers DEF CardInv
    <3>2. disk[r] = "full" /\ replay.file \in files
      BY <1>5, <3>1 DEF MayBe
    <3>3. Readable(replay.file)
      BY <1>1, <3>2 DEF Readable
    <3>4. NothingLeft /\ Stops = {}
      BY <3>3 DEF ReplayNextFile
    <3>5. r \in ToSend
      BY <1>0, <2>1, <3>1, <3>2, <3>4, InLines DEF ToSend
    <3>6. Growing(ToSend) = {r}
      BY <3>4, <3>5 DEF NothingLeft
    <3> QED BY <3>1, <3>6 DEF Growing
  <2>3. replay.file + 1 <= rec[r].file
    BY <1>0, <2>1, <2>2, Numbers DEF Ahead, Before
  <2> QED BY <1>0, <1>3, <1>4, <2>3, NewestAhead, Numbers DEF Ahead
<1> QED BY <1>4, <1>5 DEF GoodPlace, Covers

-----------------------------------------------------------------------------
(* What a step does to the replay.                                           *)
LEMMA ReplaySteps ==
  ASSUME AllInv, Reliable, [Next]_vars
  PROVE  \/ UNCHANGED replay
         \/ ~replay.on /\ \E o \in Dropped : o \in Unconfirmed /\ replay' = ReplayAt(rec[o].file, o)
         \/ ReplayEnds \/ ReplayAbandoned \/ ReplayNextFile \/ Restart \/ Panic \/ PowerLoss
         \/ \E n \in acks : \E fl \in flights : fl.no = n /\ AckReplay(fl)
         \/ \E f \in files : Resend(f)
<1>0. ~ReplayDeferred /\ ~Damage
  BY NoneDeferred DEF AllInv, ShelfInv
<1>1. CASE Push \/ StandbyPush
  <2>1. CASE UNCHANGED replay
    BY <2>1
  <2>2. CASE ~UNCHANGED replay
    <3>1. PICK o \in Dropped : Drop(o)
      BY <1>1, <2>2, PushEffect DEF AllInv
    <3>2. QED BY <3>1, <2>2 DEF Drop, Dropped, Queue, Waiting, Unconfirmed
  <2>3. QED BY <2>1, <2>2
<1>2. CASE LogBegin \/ EnterStandby \/ Purge \/ (\E c \in CardsAtBoot : SetFile(c)) \/ SdWriterTask \/ Network
  BY <1>2 DEF LogBegin, EnterStandby, Purge, SetFile, SdWriterTask, SdFlush, Confirm, GoDead,
              Network, Deliver, Lose
<1>3. CASE SendNewest \/ SendQueued \/ SendReplay \/ Expire \/ Save
  BY <1>3 DEF SendNewest, SendQueued, SendReplay, Expire, Save
<1>4. CASE \E n \in acks : OnAck(n) \/ OnLateAck(n)
  BY <1>4 DEF OnAck, OnLateAck, AckEntries
<1>5. CASE UNCHANGED vars
  BY <1>5 DEF vars
<1>6. QED
  BY <1>0, <1>1, <1>2, <1>3, <1>4, <1>5
     DEF Next, MainTask, SdWriterTask, TelemetryTask, NextPacket, NextInOrder, Network, Reset

(* A running replay goes on till it ends, also over a reset: NVS has it.     *)
LEMMA ReplayStays ==
  ASSUME AllInv, Reliable, [Next]_vars, replay.on
  PROVE  replay'.on \/ ReplayEnds \/ ReplayAbandoned
<1>1. CASE ReplayNextFile
  BY <1>1 DEF ReplayNextFile, NextFile, ReplayAt
<1>2. CASE \E n \in acks : \E fl \in flights : fl.no = n /\ AckReplay(fl)
  <2>1. PICK fl \in flights : replay' = AfterReplayAck(fl)
    BY <1>2 DEF AckReplay
  <2>2. QED BY <2>1 DEF AfterReplayAck, NextFile, ReplayAt, AllInv, TypeInv, TypeOK, ReplayTypes
<1>3. CASE \E f \in files : Resend(f)
  BY <1>3 DEF Resend, ReplayAt
<1>4. CASE Restart
  <2>1. PICK c \in Cursor : CursorIs(c) /\ replay' = ReplayFrom(c, TRUE)
    BY <1>4 DEF Restart, Saves, KeptReboot, Reboot, AllInv, ShelfInv, CardInv
  <2>2. c.on /\ c.file # 0
    BY <2>1, CursorIsGood
  <2>3. QED BY <2>1, <2>2 DEF ReplayFrom, ReplayAt
<1>5. CASE Panic
  <2>1. saved.on /\ saved.file # 0
    BY <1>5 DEF Panic, Reliable, AllInv, LossInv, CursorInv
  <2>2. replay' = ReplayFrom(saved, TRUE)
    BY <1>5 DEF Panic, KeptReboot, Reboot
  <2>3. QED BY <2>1, <2>2 DEF ReplayFrom, ReplayAt
<1>6. CASE PowerLoss
  <2>1. saved.file # 0
    BY <1>6 DEF PowerLoss, Reliable
  <2>2. replay' = ReplayFrom(saved, FALSE)
    BY <1>6 DEF PowerLoss, Reboot
  <2>3. QED BY <2>1, <2>2 DEF ReplayFrom, ReplayAt
<1>7. QED BY <1>1, <1>2, <1>3, <1>4, <1>5, <1>6, ReplaySteps

(* A place is its file and its record.                                       *)
LEMMA SamePlace ==
  ASSUME NEW c, NEW d, c.file = d.file, c.ts = d.ts, GoodPlace(c) PROVE GoodPlace(d)
  BY DEF GoodPlace, Covers, Ahead

(* The ACK of a replay packet takes the replay to a good place: what it goes *)
(* past is stored.                                                           *)
LEMMA AckedPlaceIsGood ==
  ASSUME AllInv, NEW fl \in flights, fl.sd, fl.no \in acks PROVE GoodPlace(AfterReplayAck(fl))
<1> DEFINE c == AfterReplayAck(fl)
<1>1. replay.on /\ fileKnown /\ fl.next <= made + 1 /\ Carries(fl)
  BY DEF AllInv, LossInv, FlightInv
<1>2. GoodPlace(replay)
  BY <1>1 DEF AllInv, LossInv, ReplayInv
<1>3. Covers(c)
  <2>1. SUFFICES ASSUME NEW r \in Rec, r <= made, ~Settled(r), MayBe(r), ~Ahead(r, c)
                 PROVE  FALSE
    BY DEF Covers
  <2>2. Ahead(r, replay)
    BY <1>2, <2>1 DEF GoodPlace, Covers
  <2>3. Stored(r)
    BY <1>1, <2>1, <2>2 DEF PassedOver, Carries
  <2>4. QED BY <2>1, <2>3 DEF Settled
<1>4. c.file \in 1..lastFile /\ c.ts <= made + 1
  <2>1. maxFile = lastFile
    BY <1>1 DEF AllInv, ShelfInv, CardInv
  <2>2. replay.file \in 1..lastFile
    BY <1>2 DEF GoodPlace
  <2>3. CASE c = NextFile /\ replay.file < maxFile
    BY <2>1, <2>2, <2>3, Numbers DEF NextFile, ReplayAt, AllInv
  <2>4. CASE c = [replay EXCEPT !.ts = fl.next]
    <3>1. c.file = replay.file /\ c.ts = fl.next
      BY <2>4 DEF AllInv, TypeInv, TypeOK, ReplayTypes
    <3>2. QED BY <1>1, <2>2, <3>1
  <2>5. QED BY <2>3, <2>4 DEF AfterReplayAck
<1>5. QED BY <1>3, <1>4 DEF GoodPlace

(* The server asks for a file: nothing before it is open, neither in the     *)
(* queue nor on a replay's way.                                              *)
LEMMA ResentIsGood ==
  ASSUME AllInv, Reliable, NEW f \in files, Resend(f) PROVE GoodPlace(ReplayAt(f, 0))
<1> DEFINE c == ReplayAt(f, 0)
<1>1. f \in 1..lastFile
  BY DEF AllInv, ShelfInv, CardInv
<1>2. c.file = f /\ c.ts = 0
  BY DEF ReplayAt
<1>3. ASSUME NEW r \in Rec, r <= made, ~Settled(r), MayBe(r) PROVE f <= rec[r].file
  <2>1. CASE r \in Waiting
    BY <1>3, <2>1 DEF Resend, Reliable, Unconfirmed, MayBe
  <2>2. CASE r \notin Waiting
    <3>1. replay.on /\ replay.file \in 1..lastFile /\ replay.file <= rec[r].file
      BY <1>3, <2>2, LeftToReplay
    <3>2. ~(replay.file <= f)
      BY <3>1 DEF Resend, Covered
    <3>3. QED BY <1>1, <1>3, <3>1, <3>2, Numbers DEF AllInv
  <2>3. QED BY <2>1, <2>2
<1>4. Covers(c)
  BY <1>1, <1>2, <1>3, Numbers DEF Covers, Ahead, Before, AllInv
<1>5. QED BY <1>1, <1>2, <1>4, Numbers DEF GoodPlace, AllInv

(* Wherever a step takes the replay, it is a good place already.             *)
LEMMA ReplayAfter ==
  ASSUME AllInv, Reliable, [Next]_vars, replay'.on
  PROVE  \E c \in [on : BOOLEAN, file : Nat, ts : Nat] : replay' = c /\ GoodPlace(c)
<1> DEFINE Place == [on : BOOLEAN, file : Nat, ts : Nat]
<1>1. replay \in Place
  BY Numbers DEF AllInv, TypeInv, TypeOK, ReplayTypes
<1>2. \A g \in Nat, t \in Nat : ReplayAt(g, t) \in Place /\ ReplayAt(g, t).file = g /\ ReplayAt(g, t).ts = t
  BY DEF ReplayAt
<1>3. CASE UNCHANGED replay
  BY <1>1, <1>3 DEF AllInv, LossInv, ReplayInv
<1>4. CASE ~replay.on /\ \E o \in Dropped : o \in Unconfirmed /\ replay' = ReplayAt(rec[o].file, o)
  <2>1. PICK o \in Dropped : o \in Unconfirmed /\ replay' = ReplayAt(rec[o].file, o)
    BY <1>4
  <2>2. o \in Rec /\ rec[o].file # 0 /\ o <= made /\ rec[o].file \in Nat /\ o \in Nat
    BY <2>1, HeldNumbers, Numbers DEF AllInv, Unconfirmed, Dropped
  <2>3. \A r \in Unconfirmed : o <= r
    BY DEF Dropped, IsLeast, Unconfirmed, Waiting
  <2>4. GoodPlace(ReplayAt(rec[o].file, o))
    BY <1>2, <1>4, <2>2, <2>3, EntryIsGood
  <2>5. QED BY <1>2, <2>1, <2>2, <2>4
<1>5. CASE ReplayEnds \/ ReplayAbandoned
  BY <1>5 DEF ReplayEnds, ReplayAbandoned, NoReplay
<1>6. CASE ReplayNextFile
  <2>1. NextFile \in Place
    BY Numbers DEF NextFile, ReplayAt, AllInv
  <2>2. QED BY <1>6, <2>1, NextFileIsGood DEF ReplayNextFile
<1>7. CASE \E n \in acks : \E fl \in flights : fl.no = n /\ AckReplay(fl)
  <2>1. PICK fl \in flights : fl.no \in acks /\ fl.sd /\ replay' = AfterReplayAck(fl)
    BY <1>7 DEF AckReplay
  <2>2. fl.next \in Nat
    BY DEF AllInv, TypeInv, TypeOK, ReplayTypes, Flight
  <2>3. [replay EXCEPT !.ts = fl.next] \in Place /\ NextFile \in Place
    BY <1>1, <2>2, Numbers DEF NextFile, ReplayAt, AllInv
  <2>4. AfterReplayAck(fl) \in Place
    BY <2>3 DEF AfterReplayAck
  <2>5. QED BY <2>1, <2>4, AckedPlaceIsGood
<1>8. CASE \E f \in files : Resend(f)
  <2>1. PICK f \in files : Resend(f)
    BY <1>8
  <2>2. f \in Nat /\ replay' = ReplayAt(f, 0)
    BY <2>1 DEF Resend, AllInv, TypeInv, TypeOK, CardTypes, File
  <2>3. QED BY <1>2, <2>1, <2>2, ResentIsGood
<1>9. CASE Restart
  <2>1. PICK c \in Cursor : CursorIs(c) /\ replay' = ReplayFrom(c, TRUE)
    BY <1>9 DEF Restart, Saves, KeptReboot, Reboot, AllInv, ShelfInv, CardInv
  <2>2. c.file # 0 /\ c.file \in Nat /\ c.ts \in Nat /\ replay' = ReplayAt(c.file, c.ts)
    BY <2>1 DEF ReplayFrom, NoReplay, Cursor, BoundsAssumption
  <2>3. GoodPlace(ReplayAt(c.file, c.ts))
    BY <1>2, <2>1, <2>2, CursorIsGood, SamePlace
  <2>4. QED BY <1>2, <2>2, <2>3
<1>10. CASE Panic \/ PowerLoss
  <2>1. replay' = ReplayFrom(saved, TRUE) \/ replay' = ReplayFrom(saved, FALSE)
    BY <1>10 DEF Panic, PowerLoss, KeptReboot, Reboot
  <2>2. saved.file # 0 /\ replay' = ReplayAt(saved.file, saved.ts)
    BY <2>1 DEF ReplayFrom, NoReplay
  <2>3. saved.file \in Nat /\ saved.ts \in Nat
    BY Numbers DEF AllInv
  <2>4. GoodPlace(ReplayAt(saved.file, saved.ts))
    BY <1>2, <2>2, <2>3, SamePlace DEF AllInv, LossInv, CursorInv
  <2>5. QED BY <1>2, <2>2, <2>3, <2>4
<1>11. QED
  BY <1>3, <1>4, <1>5, <1>6, <1>7, <1>8, <1>9, <1>10, ReplaySteps

(* So the replay is always at a good place.                                  *)
LEMMA NextReplay == ASSUME AllInv, Reliable, [Next]_vars PROVE ReplayInv'
<1>1. SUFFICES ASSUME replay'.on PROVE GoodPlace(replay)'
  BY DEF ReplayInv
<1>2. PICK c \in [on : BOOLEAN, file : Nat, ts : Nat] : replay' = c /\ GoodPlace(c)
  BY <1>1, ReplayAfter
<1>3. c.file \in Nat /\ c.ts \in Nat
  OBVIOUS
<1>4. GoodPlace(c)'
  BY <1>2, <1>3, PlaceKept DEF AllInv
<1>5. QED BY <1>2, <1>4 DEF GoodPlace, Covers, Ahead

(* And so is the cursor in NVS: it was saved from one.                       *)
LEMMA CursorAfter ==
  ASSUME AllInv, Reliable, [Next]_vars
  PROVE  \E c \in [file : Nat, ts : Nat, on : BOOLEAN] :
           saved' = c /\ (c.file # 0 => GoodPlace(c)) /\ (c.on => c.file # 0)
<1> DEFINE Place == [file : Nat, ts : Nat, on : BOOLEAN]
<1>1. Cursor \subseteq Place
  BY DEF Cursor, BoundsAssumption
<1>2. ~ReplayDeferred /\ ~Damage
  BY NoneDeferred DEF AllInv, ShelfInv
<1>3. CASE UNCHANGED saved
  BY <1>1, <1>3 DEF AllInv, LossInv, CursorInv, TypeInv, TypeOK, ReplayTypes
<1>4. CASE Save \/ Restart
  <2>1. PICK c \in Cursor : CursorIs(c) /\ saved' = c
    BY <1>4 DEF Save, Restart, Saves, KeptReboot, Reboot, AllInv, ShelfInv, CardInv
  <2>2. QED BY <1>1, <2>1, CursorIsGood
<1>5. CASE \E f \in files : Resend(f)
  <2>1. PICK f \in files : Resend(f)
    BY <1>5
  <2>2. f \in 1..lastFile /\ f \in Nat
    BY Numbers DEF AllInv, ShelfInv, CardInv
  <2>3. saved' = [file |-> f, ts |-> 0, on |-> TRUE]
    BY <2>1 DEF Resend, AllInv, ShelfInv, CardInv
  <2>4. GoodPlace([file |-> f, ts |-> 0, on |-> TRUE])
    BY <2>1, ResentIsGood, SamePlace DEF ReplayAt
  <2>5. saved' \in Place /\ saved'.file = f
    BY <2>2, <2>3
  <2>6. GoodPlace(saved')
    BY <2>3, <2>4
  <2>7. QED BY <2>2, <2>5, <2>6
<1>6. CASE Panic \/ PowerLoss
  BY <1>3, <1>6 DEF Panic, PowerLoss, KeptReboot, Reboot
<1>7. CASE MainTask \/ SdWriterTask \/ Network
  BY <1>3, <1>7 DEF MainTask, LogBegin, Push, EnterStandby, Purge, SetFile, SdWriterTask, SdFlush,
                    Confirm, GoDead, Network, Deliver, Lose, Finish
<1>8. CASE StandbyPush \/ NextPacket \/ Expire \/ \E n \in acks : OnAck(n) \/ OnLateAck(n)
  BY <1>2, <1>3, <1>8
     DEF StandbyPush, Finish, NextPacket, NextInOrder, SendNewest, SendQueued, SendReplay,
         ReplayEnds, ReplayNextFile, ReplayAbandoned, Expire, OnAck, OnLateAck
<1>9. CASE UNCHANGED vars
  BY <1>3, <1>9 DEF vars
<1>10. QED
  BY <1>2, <1>4, <1>5, <1>6, <1>7, <1>8, <1>9 DEF Next, TelemetryTask, Reset

(* A reset finds it good, however late it was saved.                         *)
LEMMA NextCursor == ASSUME AllInv, Reliable, [Next]_vars PROVE CursorInv'
<1>1. PICK c \in [file : Nat, ts : Nat, on : BOOLEAN] :
        saved' = c /\ (c.file # 0 => GoodPlace(c)) /\ (c.on => c.file # 0)
  BY CursorAfter
<1>2. c.file \in Nat /\ c.ts \in Nat
  OBVIOUS
<1>3. c.file # 0 => GoodPlace(c)'
  BY <1>1, <1>2, PlaceKept DEF AllInv
<1>4. saved'.file # 0 => GoodPlace(saved)'
  BY <1>1, <1>3 DEF GoodPlace, Covers, Ahead
<1>5. QED BY <1>1, <1>4 DEF CursorInv

(* What the cleanup deletes the replay does not need.                        *)
LEMMA PurgeKeeps ==
  ASSUME AllInv, Reliable, [Next]_vars, Purge, NEW r \in Rec, r <= made, ~Settled(r), r \notin Waiting
  PROVE  OnCard(r)'
<1>1. PICK f \in files \ {file} : ~Needed(f) /\ files' = files \ {f}
  BY DEF Purge
<1>2. OnCard(r) /\ replay.on /\ replay.file \in 1..lastFile /\ replay.file <= rec[r].file
  BY LeftToReplay
<1>3. rec[r].file # f
  BY <1>1, <1>2, Numbers DEF Needed, AllInv
<1>4. rec'[r] = rec[r] /\ disk' = disk
  BY DEF Purge, recVars
<1>5. QED BY <1>1, <1>2, <1>3, <1>4 DEF OnCard

(* A record the queue lets go without an ACK is left to a replay that runs,  *)
(* or it is counted or given up.                                             *)
LEMMA NextKept == ASSUME AllInv, Reliable, [Next]_vars PROVE KeptInv'
<1>1. SUFFICES ASSUME NEW r \in Rec, r <= made', ~Settled(r)', r \notin Waiting'
               PROVE  OnCard(r)' /\ replay'.on
  BY DEF KeptInv
<1> USE DEF AllInv
<1>2. ASSUME r <= made PROVE ~Settled(r) /\ rec'[r] = rec[r] /\ (OnCard(r) => OnCard(r)' \/ Purge)
  BY <1>1, <1>2, OldRecords
<1>3. ASSUME r <= made, r \notin Waiting PROVE OnCard(r)' /\ replay'.on
  <2>1. OnCard(r) /\ replay.on
    BY <1>2, <1>3, LeftToReplay
  <2>2. OnCard(r)'
    BY <1>2, <1>3, <2>1, PurgeKeeps
  <2>3. replay'.on
    BY <1>2, <1>3, <2>1, ReplayStays, EndsRight
  <2>4. QED BY <2>2, <2>3
<1>4. ASSUME UNCHANGED <<disk, files>>, r <= made, OnCard(r) PROVE OnCard(r)'
  BY <1>2, <1>4 DEF OnCard
<1>5. CASE Push \/ StandbyPush
  <2>1. made' = made + 1 /\ made \in Nat /\ UNCHANGED <<disk, files>> /\ r \in Nat
    BY <1>5, FinishEffect, Numbers DEF ShelfInv
  <2>2. CASE r \in Dropped /\ r <= made /\ r \in Waiting
    <3>1. PICK o \in Dropped : Drop(o)
      BY <1>5, <2>2, <1>1, PushEffect DEF Waiting, Queue
    <3>2. o = r
      BY <2>2, <2>1 DEF Dropped, IsLeast, Queue, Rec
    <3>3. r \notin lost'
      BY <1>1 DEF Settled
    <3>4. rec[r].file # 0 /\ r \in confirmed /\ replay'.on
      BY <2>2, <3>1, <3>2, <3>3 DEF Drop, ReplayAt, Waiting
    <3>5. OnCard(r)
      BY <2>2, <3>4 DEF OnCard, QueueInv, WaitingHaveFiles, ConfirmedFull
    <3>6. QED BY <1>4, <2>1, <2>2, <3>4, <3>5
  <2>3. CASE r \notin Dropped /\ r <= made /\ r \in Waiting
    <3>1. st'[r] = st[r]
      BY <1>5, <2>1, <2>3, PushEffect
    <3>2. QED BY <1>1, <2>3, <3>1 DEF Waiting, Queue
  <2>4. CASE ~(r <= made)
    <3>1. r = made + 1
      BY <1>1, <2>1, <2>4
    <3>2. st'[r] = "pending" \/ r \in excused'
      BY <1>5, <3>1, PushEffect
    <3>3. QED BY <1>1, <3>2 DEF Waiting, Queue, Settled
  <2>5. QED BY <1>3, <2>2, <2>3, <2>4
<1>6. CASE PowerLoss
  <2>1. saved.file # 0 /\ Reboot(saved, FALSE) /\ UNCHANGED <<disk, files>> /\ Waiting' = spiffs
        /\ excused' = excused \cup OnlyInRam \cup (IF logging THEN {made + 1} ELSE {})
    BY <1>6, PowerLossEffect DEF PowerLoss, Reliable
  <2>2. replay'.on
    BY <2>1 DEF Reboot, ReplayFrom, ReplayAt
  <2>3. r <= made
    BY <1>1, <2>1, Numbers DEF Reboot, Settled
  <2>4. CASE r \in Waiting
    <3>1. OnCard(r)
      BY <1>1, <2>1, <2>4 DEF OnlyInRam, Settled
    <3>2. QED BY <1>4, <2>1, <2>2, <2>3, <3>1
  <2>5. QED BY <1>3, <2>3, <2>4
<1>7. CASE ~Push /\ ~StandbyPush /\ ~PowerLoss
  <2>1. r <= made
    BY <1>1, <1>7, MadeSteps, Numbers DEF Settled
  <2>2. Shrinks
    BY <1>7, OthersShrink DEF ShelfInv
  <2>3. r \notin Waiting
    BY <1>1, <1>2, <2>1, <2>2 DEF Shrinks, Settled
  <2>4. QED BY <1>3, <2>1, <2>3
<1>8. QED BY <1>5, <1>6, <1>7

-----------------------------------------------------------------------------
(* A replay packet takes the replay to a record that is made, at most.       *)
LEMMA NextTsBound ==
  ASSUME AllInv, Building, Readable(replay.file), NEW R \in SUBSET ToSend, ReadUpTo(R),
         R \ Growing(R) # {}, NEW t \in Nat, NextTs(R, t)
  PROVE  t <= made + 1
<1> USE DEF AllInv
<1>1. \A r \in R \ Growing(R) : r <= made
  BY ReplayWhole
<1>2. \A r \in Lines : r \in Rec /\ disk[r] # "none"
  BY DEF Lines
<1>3. R \subseteq Lines
  BY DEF ToSend
<1>4. CASE AtEof(R) /\ Growing(R) = {}
  <2>1. t > 0 /\ t - 1 \in R
    BY <1>4 DEF NextTs, IsLast
  <2>2. t - 1 <= made
    BY <1>1, <1>4, <2>1
  <2>3. QED BY <2>1, <2>2, Numbers
<1>5. CASE ~(AtEof(R) /\ Growing(R) = {})
  <2>1. t \in (Lines \ R) \cup Growing(R)
    BY <1>5 DEF NextTs, IsLeast
  <2>2. t \in Lines
    BY <1>3, <2>1 DEF Growing
  <2>3. t <= made \/ t = made + 1
    BY <1>2, <2>2 DEF IdentityInv, LinesInv
  <2>4. QED BY <2>3, Numbers
<1>6. QED BY <1>4, <1>5

(* The record has lines when one that the packet reads comes after it.       *)
LEMMA WrittenBefore ==
  ASSUME AllInv, NEW r \in Rec, MayBe(r), rec[r].file = replay.file, NEW q \in Lines, r < q
  PROVE  disk[r] # "none"
<1> USE DEF AllInv
<1>1. q \in Rec /\ rec[q].home = replay.file /\ disk[q] # "none"
  BY DEF Lines
<1>2. rec[r].file # 0 /\ rec[r].home = replay.file
  BY DEF MayBe, ShelfInv, OrderInv
<1>3. CASE replay.file = file
  BY <1>1, <1>2, <1>3 DEF ShelfInv, FlushInv
<1>4. CASE replay.file # file
  BY <1>4 DEF MayBe
<1>5. QED BY <1>3, <1>4

(* What the ACK of a replay packet goes past was in the packet.              *)
LEMMA PassedIsSent ==
  ASSUME AllInv, Building, Readable(replay.file), NEW R \in SUBSET ToSend, ReadUpTo(R),
         R \ Growing(R) # {}, NEW t \in Nat, NextTs(R, t), NEW n,
         NEW r \in Rec, r <= made, PassedOver(r, ReplayFlight(n, R, t))
  PROVE  rec[r].home = replay.file /\ replay.file # 0 /\ r \in R \ Growing(R)
<1> DEFINE fl == ReplayFlight(n, R, t)
<1> USE DEF AllInv
<1>1. replay.on /\ replay.file \in 1..lastFile /\ maxFile = lastFile /\ lastFile \in Nat
  BY BuildingKnows, Numbers DEF ShelfInv, LossInv, ReplayInv, GoodPlace
<1>2. MayBe(r) /\ Ahead(r, replay) /\ ~Ahead(r, AfterReplayAck(fl))
  BY DEF PassedOver
<1>3. rec[r].file \in Nat /\ r \in Nat /\ replay.ts \in Nat /\ replay.file \in Nat
  BY Numbers
<1>4. ASSUME rec[r].file = replay.file
      PROVE  /\ rec[r].home = replay.file /\ replay.file # 0
             /\ disk[r] # "none" => r \in Lines
  BY <1>1, <1>2, <1>4, InLines DEF ShelfInv, OrderInv
<1>5. CASE AfterReplayAck(fl) = NextFile /\ AtEof(R) /\ replay.file < maxFile
  <2>1. rec[r].file = replay.file
    BY <1>2, <1>3, <1>5 DEF Ahead, Before, NextFile, ReplayAt
  <2>2. replay.file # file
    BY <1>1, <1>5 DEF ShelfInv, CardInv
  <2>3. r \in Lines
    BY <1>2, <1>4, <2>1, <2>2 DEF MayBe
  <2>4. R = Lines /\ Growing(R) = {}
    BY <1>5, <2>2 DEF AtEof, ToSend, Growing
  <2>5. QED BY <1>4, <2>1, <2>3, <2>4
<1>6. CASE AfterReplayAck(fl) = [replay EXCEPT !.ts = t]
  <2>1. AfterReplayAck(fl).file = replay.file /\ AfterReplayAck(fl).ts = t
    BY <1>6 DEF TypeInv, TypeOK, ReplayTypes
  <2>2. rec[r].file = replay.file /\ r < t
    BY <1>2, <1>3, <2>1 DEF Ahead, Before
  <2>3. CASE AtEof(R) /\ Growing(R) = {}
    <3>1. t - 1 \in R
      BY <2>3 DEF NextTs, IsLast
    <3>2. t - 1 \in Lines /\ R = Lines
      BY <2>3, <3>1 DEF AtEof, ToSend
    <3>3. CASE r = t - 1
      BY <1>4, <2>2, <2>3, <3>1, <3>3
    <3>4. CASE r < t - 1
      BY <1>2, <1>4, <2>2, <2>3, <3>2, <3>4, WrittenBefore
    <3>5. QED BY <1>3, <2>2, <3>3, <3>4
  <2>4. CASE ~(AtEof(R) /\ Growing(R) = {})
    <3>1. IsLeast(t, (Lines \ R) \cup Growing(R))
      BY <2>4 DEF NextTs
    <3>2. t \in Lines
      BY <3>1 DEF IsLeast, Growing, ToSend
    <3>3. r \in Lines
      BY <1>2, <1>4, <2>2, <3>2, WrittenBefore
    <3>4. r \notin (Lines \ R) \cup Growing(R)
      BY <1>3, <2>2, <3>1 DEF IsLeast
    <3>5. QED BY <1>4, <2>2, <3>3, <3>4
  <2>5. QED BY <2>3, <2>4
<1>7. QED BY <1>5, <1>6 DEF AfterReplayAck, ReplayFlight

(* A new replay packet has all that its ACK will go past, under its boot.    *)
LEMMA SentFlight ==
  ASSUME AllInv, SendReplay, NEW fl \in flights', fl.sd
  PROVE  /\ fl.next <= made + 1 /\ Carries(fl)'
         /\ \A gl \in flights' : gl.sd => fl = gl
<1> USE DEF AllInv
<1>1. PICK R \in SUBSET ToSend : \E n \in PacketNo : \E t \in 0..MaxRec + 1 :
        /\ ReadUpTo(R) /\ R \ Growing(R) # {}
        /\ NewNo(n) /\ NextTs(R, t)
        /\ flights' = flights \cup {ReplayFlight(n, R, t)}
        /\ \E r \in R : net' = net \cup {Packet(n, rec[r].boot, R \ Growing(R))}
  BY DEF SendReplay
<1>2. PICK n \in PacketNo : \E t \in 0..MaxRec + 1 :
        /\ ReadUpTo(R) /\ R \ Growing(R) # {}
        /\ NewNo(n) /\ NextTs(R, t)
        /\ flights' = flights \cup {ReplayFlight(n, R, t)}
        /\ \E r \in R : net' = net \cup {Packet(n, rec[r].boot, R \ Growing(R))}
  BY <1>1
<1>3. PICK t \in 0..MaxRec + 1 :
        /\ ReadUpTo(R) /\ R \ Growing(R) # {}
        /\ NewNo(n) /\ NextTs(R, t)
        /\ flights' = flights \cup {ReplayFlight(n, R, t)}
        /\ \E r \in R : net' = net \cup {Packet(n, rec[r].boot, R \ Growing(R))}
  BY <1>2
<1>4. PICK q \in R : net' = net \cup {Packet(n, rec[q].boot, R \ Growing(R))}
  BY <1>3
<1>5. Building /\ Readable(replay.file) /\ ~SdBusy
      /\ UNCHANGED <<made, rec, disk, files, file, replay, maxFile, stored, acks>>
  BY DEF SendReplay, Building, recVars, cardVars, fileVars, history
<1>6. fl = ReplayFlight(n, R, t) /\ \A gl \in flights' : gl.sd => gl = fl
  BY <1>3, <1>5 DEF SdBusy
<1>7. fl.no = n /\ fl.next = t /\ t \in Nat
  BY <1>6, BoundsAssumption DEF ReplayFlight
<1>8. t <= made + 1
  BY <1>3, <1>5, <1>7, NextTsBound
<1>9. ASSUME NEW r \in Rec, r <= made, PassedOver(r, fl)
      PROVE  /\ \A p \in net' : p.no = fl.no => p.boot = rec[r].boot /\ r \in p.recs
             /\ fl.no \notin acks
  <2>1. rec[r].home = replay.file /\ replay.file # 0 /\ r \in R \ Growing(R)
    BY <1>3, <1>5, <1>6, <1>7, <1>9, PassedIsSent
  <2>2. q \in Rec /\ rec[q].home = replay.file
    BY <1>4 DEF ToSend, Lines
  <2>3. rec[r].boot = rec[q].boot
    BY <2>1, <2>2 DEF IdentityInv, HomesInv
  <2>4. \A p \in net : p.no # n
    BY <1>3 DEF NewNo, IsLeast, InUse
  <2>5. n \notin acks
    BY <1>3 DEF NewNo, IsLeast, InUse
  <2>6. ASSUME NEW p \in net', p.no = fl.no PROVE p.boot = rec[r].boot /\ r \in p.recs
    <3>1. p = Packet(n, rec[q].boot, R \ Growing(R))
      BY <1>4, <1>7, <2>4, <2>6
    <3>2. QED BY <2>1, <2>3, <3>1 DEF Packet
  <2>7. QED BY <1>7, <2>5, <2>6
<1>10. \A r \in Rec : PassedOver(r, fl)' = PassedOver(r, fl)
  BY <1>5 DEF PassedOver, MayBe, Ahead, Before, AfterReplayAck, NextFile, ReplayAt
<1>11. Carries(fl)'
  BY <1>5, <1>9, <1>10 DEF Carries
<1>12. QED BY <1>6, <1>7, <1>8, <1>11

(* The flight of a replay packet is left alone until its ACK, a new replay   *)
(* or a reset ends it: meanwhile the replay stays, and its number is not     *)
(* used again.                                                               *)
LEMMA SdFlights ==
  ASSUME AllInv, Reliable, [Next]_vars, ~SendReplay, NEW fl \in flights', fl.sd
  PROVE  /\ fl \in flights /\ UNCHANGED <<replay, maxFile>> /\ fileKnown'
         /\ \A p \in net' : p.no = fl.no => p \in net
         /\ fl.no \in acks' => \/ fl.no \in acks
                               \/ \E p \in net : p.no = fl.no /\ \A r \in p.recs : <<p.boot, r>> \in stored'
<1> USE DEF AllInv
<1>1. ASSUME fl \in flights PROVE replay.on /\ fileKnown /\ SdBusy
  BY <1>1 DEF LossInv, FlightInv, SdBusy
<1>2. ASSUME NEW n, NEW b, NEW R, NewNo(n), SendEntries(n, b, R)
      PROVE  fl \in flights /\ \A p \in net' : p.no = fl.no => p \in net
  <2>1. fl \in flights
    BY <1>2 DEF SendEntries, QueueFlight
  <2>2. fl.no # n
    BY <1>2, <2>1 DEF NewNo, IsLeast, InUse
  <2>3. \A p \in net' : p \in net \/ p.no = n
    BY <1>2 DEF SendEntries, Packet
  <2>4. QED BY <2>1, <2>2, <2>3
<1>3. ASSUME QueuePacketOrNone
      PROVE  fl \in flights /\ \A p \in net' : p.no = fl.no => p \in net
  <2>1. CASE QueuePacket
    BY <1>2, <2>1 DEF QueuePacket
  <2>2. CASE UNCHANGED <<st, pkt, flights, net>>
    BY <2>2
  <2>3. QED BY <1>3, <2>1, <2>2 DEF QueuePacketOrNone
<1>4. CASE ReplayEnds \/ ReplayAbandoned \/ ReplayNextFile
  <2>1. fl \in flights /\ ~SdBusy
    BY <1>3, <1>4 DEF ReplayEnds, ReplayAbandoned, ReplayNextFile, Building
  <2>2. QED BY <1>1, <2>1
<1>5. CASE SendNewest
  BY <1>1, <1>2, <1>5 DEF SendNewest, fileVars
<1>6. CASE SendQueued
  BY <1>1, <1>3, <1>6 DEF SendQueued, QueuePacketOrNone, fileVars
<1>7. CASE Push \/ StandbyPush
  <2>1. fl \in flights /\ UNCHANGED <<net, acks, maxFile, fileKnown>>
    BY <1>7 DEF Push, StandbyPush, Finish, fileVars, netVars
  <2>2. UNCHANGED replay
    <3>1. Dropped = {} \/ (\E o \in Dropped : Drop(o)) \/ UNCHANGED replay
      BY <1>7, PushEffect
    <3>2. replay.on
      BY <1>1, <2>1
    <3>3. QED BY <1>7, <3>1, <3>2, PushEffect DEF Drop
  <2>3. QED BY <1>1, <2>1, <2>2
<1>8. CASE \E c \in CardsAtBoot : SetFile(c)
  BY <1>1, <1>8 DEF SetFile
<1>9. CASE LogBegin \/ EnterStandby \/ Purge \/ SdWriterTask \/ Save \/ UNCHANGED vars
  BY <1>1, <1>9 DEF LogBegin, EnterStandby, Purge, SdWriterTask, SdFlush, Confirm, GoDead, Save,
                    fileVars, netVars, vars
<1>10. CASE \E n \in acks : OnAck(n) \/ OnLateAck(n)
  <2>1. PICK n \in acks : OnAck(n) \/ OnLateAck(n)
    BY <1>10
  <2>2. CASE OnLateAck(n)
    BY <1>1, <2>2 DEF OnLateAck, fileVars
  <2>3. CASE OnAck(n)
    <3>1. PICK gl \in flights : flights' = flights \ {gl} /\ (AckReplay(gl) \/ AckEntries(gl))
      BY <2>3 DEF OnAck
    <3>2. fl \in flights /\ ~gl.sd
      BY <3>1 DEF LossInv, FlightInv
    <3>3. UNCHANGED replay
      BY <3>1, <3>2 DEF AckReplay, AckEntries
    <3>4. QED BY <1>1, <2>3, <3>2, <3>3 DEF OnAck, fileVars
  <2>4. QED BY <2>1, <2>2, <2>3
<1>11. CASE Expire
  BY <1>1, <1>11 DEF Expire, fileVars, netVars
<1>12. CASE \E f \in files : Resend(f)
  BY <1>12 DEF Resend
<1>13. CASE Network
  <2>1. CASE Lose
    BY <1>1, <2>1 DEF Lose, fileVars
  <2>2. ASSUME NEW p \in net, Deliver(p)
        PROVE  /\ UNCHANGED <<flights, replay, maxFile, fileKnown>>
               /\ net' \subseteq net /\ acks' = acks \cup {p.no}
               /\ \A r \in p.recs : <<p.boot, r>> \in stored'
    BY <2>2 DEF Deliver, fileVars
  <2>3. CASE \E p \in net : Deliver(p)
    BY <1>1, <2>2, <2>3
  <2>4. QED BY <1>13, <2>1, <2>3 DEF Network
<1>14. CASE Reset
  BY <1>14 DEF Reset, Restart, Panic, Damage, PowerLoss, KeptReboot, Reboot
<1>15. ~ReplayDeferred
  BY NoneDeferred DEF ShelfInv
<1>16. QED
  BY <1>4, <1>5, <1>6, <1>7, <1>8, <1>9, <1>10, <1>11, <1>12, <1>13, <1>14, <1>15
     DEF Next, MainTask, TelemetryTask, NextPacket, NextInOrder

(* A replay flight under way stays true to what it carries: records that are *)
(* made meanwhile come after it.                                             *)
LEMMA FlightKept ==
  ASSUME AllInv, Reliable, [Next]_vars, ~SendReplay, NEW fl \in flights', fl.sd
  PROVE  replay'.on /\ fileKnown' /\ fl.next <= made' + 1 /\ Carries(fl)'
<1> USE DEF AllInv
<1>1. /\ fl \in flights /\ UNCHANGED <<replay, maxFile>> /\ fileKnown'
      /\ \A p \in net' : p.no = fl.no => p \in net
      /\ fl.no \in acks' => \/ fl.no \in acks
                            \/ \E p \in net : p.no = fl.no /\ \A r \in p.recs : <<p.boot, r>> \in stored'
  BY SdFlights
<1>2. replay.on /\ fileKnown /\ fl.next <= made + 1 /\ Carries(fl) /\ GoodPlace(replay)
  BY <1>1 DEF LossInv, FlightInv, ReplayInv
<1>3. made' \in Nat /\ made <= made' /\ made \in Nat /\ fl.next \in Nat
  BY <1>1, NextBootsKept, Numbers DEF TypeInv, TypeOK, ReplayTypes, Flight
<1>4. AfterReplayAck(fl)' = AfterReplayAck(fl)
  BY <1>1 DEF AfterReplayAck, NextFile, ReplayAt
<1>5. ASSUME NEW r \in Rec, r <= made, PassedOver(r, fl)'
      PROVE  /\ \A p \in net' : p.no = fl.no => p.boot = rec'[r].boot /\ r \in p.recs
             /\ fl.no \in acks' => Stored(r)'
  <2>1. rec'[r] = rec[r] /\ (MayBe(r)' => MayBe(r))
    BY <1>5, OldRecords
  <2>2. PassedOver(r, fl)
    BY <1>1, <1>4, <1>5, <2>1 DEF PassedOver, Ahead
  <2>3. /\ \A p \in net : p.no = fl.no => p.boot = rec[r].boot /\ r \in p.recs
        /\ fl.no \in acks => Stored(r)
    BY <1>2, <1>5, <2>2 DEF Carries
  <2>4. stored \subseteq stored'
    BY HistoryGrows
  <2>5. fl.no \in acks' => Stored(r)'
    BY <1>1, <2>1, <2>3, <2>4 DEF Stored
  <2>6. QED BY <1>1, <2>1, <2>3, <2>5
<1>6. ASSUME NEW r \in Rec, r <= made', ~(r <= made), PassedOver(r, fl)'
      PROVE  FALSE
  <2>1. MayBe(r)' /\ ~Ahead(r, AfterReplayAck(fl))'
    BY <1>6 DEF PassedOver
  <2>2. rec'[r].file \in files' /\ rec'[r].file # 0
    BY <2>1 DEF MayBe
  <2>3. CASE Push \/ StandbyPush
    <3>1. r = made + 1 /\ rec'[r].file = file
      BY <1>3, <1>6, <2>3, FinishEffect DEF ShelfInv, Rec
    <3>2. file = lastFile
      BY <2>2, <3>1 DEF ShelfInv, CardInv
    <3>3. rec'[r].file = maxFile /\ rec'[r].file \in Nat
      BY <1>2, <3>1, <3>2, Numbers DEF ShelfInv, CardInv
    <3>4. replay.file <= maxFile
      BY <1>2, Numbers DEF GoodPlace, ShelfInv, CardInv
    <3>5. AfterReplayAck(fl).file <= maxFile /\ AfterReplayAck(fl).ts <= r
          /\ AfterReplayAck(fl).file \in Nat /\ AfterReplayAck(fl).ts \in Nat
      <4>1. CASE AfterReplayAck(fl) = NextFile /\ replay.file < maxFile
        BY <1>3, <3>1, <4>1, Numbers DEF NextFile, ReplayAt
      <4>2. CASE AfterReplayAck(fl) = [replay EXCEPT !.ts = fl.next]
        <5>1. AfterReplayAck(fl).file = replay.file /\ AfterReplayAck(fl).ts = fl.next
          BY <4>2 DEF TypeInv, TypeOK, ReplayTypes
        <5>2. QED BY <1>2, <1>3, <3>1, <3>4, <5>1, Numbers
      <4>3. QED BY <4>1, <4>2 DEF AfterReplayAck
    <3>6. Ahead(r, AfterReplayAck(fl))'
      BY <1>3, <1>4, <3>1, <3>3, <3>5 DEF Ahead, Before
    <3>7. QED BY <2>1, <3>6
  <2>4. CASE ~Push /\ ~StandbyPush
    <3>1. Reset
      BY <1>6, <2>4, MadeSteps
    <3>2. fileKnown' = FALSE
      BY <3>1, ResetEffect
    <3>3. QED BY <1>1, <3>2
  <2>5. QED BY <2>3, <2>4
<1>7. Carries(fl)'
  BY <1>5, <1>6 DEF Carries
<1>8. QED BY <1>1, <1>2, <1>3, <1>7

(* There is one replay flight at a time, and its ACK means what it says.     *)
LEMMA NextFlight == ASSUME AllInv, Reliable, [Next]_vars PROVE FlightInv'
<1>1. CASE SendReplay
  <2>1. replay'.on /\ fileKnown' /\ made' = made
    BY <1>1, BuildingKnows DEF SendReplay, recVars, fileVars, AllInv, ShelfInv
  <2>2. QED BY <1>1, <2>1, SentFlight DEF FlightInv
<1>2. CASE ~SendReplay
  <2>1. ASSUME NEW fl \in flights', fl.sd, NEW gl \in flights', gl.sd PROVE fl = gl
    BY <1>2, <2>1, SdFlights DEF AllInv, LossInv, FlightInv
  <2>2. QED BY <1>2, <2>1, FlightKept DEF FlightInv
<1>3. QED BY <1>1, <1>2

-----------------------------------------------------------------------------
(* Where a record is, where the replay and the cursor are, what is queued and*)
(* what is under way hold each other up: none is inductive without the rest. *)
LEMMA NextAll == ASSUME AllInv, Reliable, [Next]_vars PROVE AllInv'
<1>1. TypeInv' /\ CustodyInv' /\ IdentityInv'
  BY NextTypes, NextCustody, NextIdentity DEF AllInv
<1>2. ShelfInv' /\ QueueInv'
  BY NextShelf, NextQueue DEF AllInv
<1>3. LossInv'
  BY NextKept, NextReplay, NextCursor, NextFlight DEF LossInv
<1>4. QED BY <1>1, <1>2, <1>3 DEF AllInv

(* AllInv is an invariant.                                                   *)
LEMMA AllHolds == ASSUME Reliable PROVE Spec => []AllInv
<1>1. Init => AllInv
  BY InitTypes, InitCustody, InitIdentity, InitShelf, InitQueue, InitLoss DEF AllInv
<1>2. AllInv /\ [Next]_vars => AllInv'
  BY NextAll
<1>3. QED BY <1>1, <1>2, PTL DEF Spec

(* The promise of txqueue.h: whatever is parked, purged, lost or repeated on *)
(* the way, and wherever the device panics or loses its power, a finished    *)
(* record is stored, counted lost, given up as documented, or still comes.   *)
THEOREM NothingLostInSilence == ASSUME Reliable PROVE Spec => []NoSilentLoss
<1>1. AllInv => NoSilentLoss
  <2>1. SUFFICES ASSUME AllInv, NEW r \in 1..made, ~Settled(r), r \notin Waiting PROVE OnItsWay(r)
    BY DEF NoSilentLoss, OnItsWay, Settled
  <2>2. r \in Rec /\ r <= made
    BY <2>1, Numbers DEF AllInv
  <2>3. QED BY <2>1, <2>2, LeftToReplay DEF OnItsWay
<1>2. QED BY <1>1, AllHolds, PTL

(* What is on the card may be replayed.                                      *)
LEMMA CardHasFile == ASSUME ShelfInv, NEW r \in Rec, OnCard(r) PROVE MayBe(r)
  BY DEF OnCard, MayBe, ShelfInv, CardInv

(* The cursor in NVS, saved whenever it was, has passed no record on the     *)
(* card that the server still has to get.                                    *)
THEOREM CursorIsEnough == ASSUME Reliable PROVE Spec => []CursorCovers
<1>1. AllInv => CursorCovers
  <2>1. SUFFICES ASSUME AllInv, saved.file # 0, NEW r \in 1..made, ~Settled(r), OnCard(r)
                 PROVE  Ahead(r, saved)
    BY DEF CursorCovers, Settled
  <2>2. r \in Rec /\ r <= made
    BY <2>1, Numbers DEF AllInv
  <2>3. Covers(saved)
    BY <2>1 DEF AllInv, LossInv, CursorInv, GoodPlace
  <2>4. QED BY <2>1, <2>2, <2>3, CardHasFile DEF Covers, AllInv
<1>2. QED BY <1>1, AllHolds, PTL

(* purgeOldFiles() asks txqOldestFileNeeded(): no file with a record the     *)
(* server still has to get is deleted.                                       *)
THEOREM PurgeIsSafe == ASSUME Reliable PROVE Spec => PurgeSparesUndelivered
<1>1. ASSUME AllInv, [Next]_vars, NEW f \in files \ files', NEW r \in Undelivered PROVE rec[r].file # f
  <2>1. r \in Rec /\ r <= made /\ ~Settled(r)
    BY <1>1, Numbers DEF AllInv, Undelivered, Settled
  <2>2. Purge
    BY <1>1, FilesStay DEF AllInv
  <2>3. ~Needed(f) /\ f \in 1..lastFile
    BY <1>1, <2>2 DEF Purge, AllInv, ShelfInv, CardInv
  <2>4. CASE r \in Waiting
    BY <2>3, <2>4, Numbers DEF Needed, AllInv
  <2>5. CASE r \notin Waiting
    <3>1. replay.on /\ replay.file \in 1..lastFile /\ replay.file <= rec[r].file
      BY <1>1, <2>1, <2>5, LeftToReplay
    <3>2. QED BY <2>3, <3>1 DEF Needed
  <2>6. QED BY <2>4, <2>5
<1>2. AllInv /\ [Next]_vars => [\A f \in files \ files' : \A r \in Undelivered : rec[r].file # f]_vars
  BY <1>1
<1>3. QED BY <1>2, AllHolds, PTL DEF Spec, PurgeSparesUndelivered

(* txqOnAck() and validateRing() delete the flash copies only when no entry  *)
(* of the queue with one waits any more.                                     *)
LEMMA FlashSteps ==
  ASSUME AllInv, Reliable, [Next]_vars
  PROVE  \/ spiffs \subseteq spiffs'
         \/ Shrinks /\ spiffs' = SbFileAfter(st')
<1>0. ~ReplayDeferred /\ ~Damage
  BY NoneDeferred DEF AllInv, ShelfInv
<1>1. CASE Push \/ StandbyPush
  BY <1>1, PushEffect DEF AllInv
<1>2. CASE \E n \in acks : OnAck(n) \/ OnLateAck(n)
  BY <1>2, AckShrinks DEF OnAck, OnLateAck, AckReplay, AckEntries, queueVars, AllInv
<1>3. CASE Restart \/ Panic
  BY <1>3, KeptShrinks DEF Restart, Panic, KeptReboot, AllInv, ShelfInv
<1>4. CASE LogBegin \/ EnterStandby \/ Purge \/ SdWriterTask \/ Network \/ Expire \/ Save \/ PowerLoss
  BY <1>4 DEF LogBegin, EnterStandby, Purge, SdWriterTask, SdFlush, Confirm, GoDead, Network, Deliver,
              Lose, Expire, Save, PowerLoss
<1>5. CASE (\E c \in CardsAtBoot : SetFile(c)) \/ (\E f \in files : Resend(f)) \/ UNCHANGED vars
  BY <1>5 DEF SetFile, Resend, vars
<1>6. CASE NextPacket
  BY <1>0, <1>6 DEF NextPacket, NextInOrder, SendNewest, SendQueued, SendReplay, ReplayEnds,
                    ReplayNextFile, ReplayAbandoned
<1>7. QED
  BY <1>0, <1>1, <1>2, <1>3, <1>4, <1>5, <1>6 DEF Next, MainTask, TelemetryTask, Reset

(* So a standby record's copy in the internal flash outlives the wait for    *)
(* the server.                                                               *)
THEOREM FlashIsKept == ASSUME Reliable PROVE Spec => FlashCopyKept
<1>1. ASSUME AllInv, [Next]_vars, NEW r \in spiffs \ spiffs' PROVE r \notin Undelivered
  <2>1. SUFFICES ASSUME r \in Undelivered PROVE FALSE
    OBVIOUS
  <2>2. r \in Rec /\ r <= made /\ ~Settled(r)
    BY <1>1, <2>1, HeldNumbers DEF AllInv, Undelivered, Settled
  <2>3. rec[r].file = 0
    BY <1>1 DEF AllInv, QueueInv, FlashInv
  <2>4. r \in Waiting
    BY <1>1, <2>2, <2>3, LeftToReplay, CardHasFile DEF MayBe, AllInv
  <2>5. r \in standby
    BY <1>1, <2>4 DEF AllInv, QueueInv, FlashInv
  <2>6. Shrinks /\ spiffs' = SbFileAfter(st')
    BY <1>1, FlashSteps
  <2>7. r \in Waiting'
    BY <2>2, <2>4, <2>6 DEF Shrinks, Settled
  <2>8. QED BY <1>1, <2>5, <2>6, <2>7 DEF SbFileAfter, Waiting, Queue
<1>2. AllInv /\ [Next]_vars => [\A r \in spiffs \ spiffs' : r \notin Undelivered]_vars
  BY <1>1
<1>3. QED BY <1>2, AllHolds, PTL DEF Spec, FlashCopyKept
-----------------------------------------------------------------------------
(* The reserve's bytes (RecordRing).                                         *)

(* Induction, from the well-founded order of the naturals: a set of naturals *)
(* with 0 and with the successor of each of its members has them all.        *)
LEMMA LeastNatural ==
  ASSUME NEW T \in SUBSET Nat, T # {} PROVE \E n \in T : \A m \in T : n <= m
<1> DEFINE R == {ss \in Nat \X Nat : ss[1] < ss[2]}
<1>1. R = OpToRel(<, Nat)
  BY DEF OpToRel
<1>2. IsWellFoundedOn(R, Nat)
  BY <1>1, NatLessThanWellFounded
<1>3. PICK n \in T : \A m \in T : ~(<<m, n>> \in R)
  <2> HIDE DEF R
  <2> QED BY <1>2, WFMin
<1>4. ASSUME NEW m \in T PROVE n <= m
  <2>1. <<m, n>> \notin R
    BY <1>3
  <2>2. m \in Nat /\ n \in Nat
    OBVIOUS
  <2> QED BY <2>1, <2>2
<1> QED BY <1>4

LEMMA SetInduction ==
  ASSUME NEW S \in SUBSET Nat, 0 \in S, \A n \in S : n + 1 \in S PROVE S = Nat
<1> SUFFICES ASSUME Nat \ S # {} PROVE FALSE
  OBVIOUS
<1>1. PICK n \in Nat \ S : \A m \in Nat \ S : n <= m
  BY LeastNatural
<1>2. n # 0 /\ n - 1 \in Nat /\ n - 1 \in S
  BY <1>1
<1> QED BY <1>1, <1>2

(* A cell, a header.                                                         *)
Cell ==
  {c \in [kind : CellKind, id : 0..MaxPush, size : {0} \cup Sizes,
          state : {"none", "pending", "inflight", "acked"}] :
     IF c.kind = "entry" THEN c.size \in Sizes /\ c.id \in Record ELSE c.state = "none"}
Memory == [Cells -> Cell]
Header == [head : DStart..RingCap, tail : DStart..RingCap, count : Nat, last : Cells, sealed : BOOLEAN]

(* The positions p of n records that lie one after the other from t on.      *)
Chain(m, t, n, p) ==
  /\ p \in [1..n -> Cells]
  /\ \A i \in 1..n : p[i] = Norm(m, IF i = 1 THEN t ELSE NextPos(m, p[i - 1]))

(* There are cells, and an entry fits in them; the first one is among them.  *)
LEMMA RingNumbers ==
  /\ RingCap \in Nat /\ Ent \in Nat \ {0} /\ DStart \in Cells /\ DStart = 1
  /\ Cells \subseteq Nat /\ DStart..RingCap \subseteq Nat /\ \A c \in Cells : 1 <= c /\ c < RingCap
  /\ \A c \in Nat : 1 <= c /\ c < RingCap => c \in Cells
  /\ \A z \in Sizes : z \in Nat /\ Ent <= z /\ DStart + z <= RingCap
  /\ MaxPush \in Nat /\ MaxReset \in Nat
<1>1. PICK z \in Sizes : TRUE
  BY RingAssumption
<1>2. z \in Nat /\ Ent <= z /\ DStart + z <= RingCap /\ Ent \in Nat /\ Ent >= 1 /\ RingCap \in Nat
  BY RingAssumption
<1>3. DStart = 1 /\ 2 <= RingCap
  BY <1>2 DEF DStart
<1>4. \A c : c \in Cells <=> c \in Nat /\ 1 <= c /\ c < RingCap
  BY <1>2, <1>3 DEF Cells
<1>5. DStart..RingCap \subseteq Nat
  BY <1>2, <1>3
<1> QED BY <1>2, <1>3, <1>4, <1>5, RingAssumption

LEMMA NormPlace ==
  ASSUME NEW m, NEW pos \in DStart..RingCap
  PROVE  /\ Norm(m, pos) \in Cells
         /\ Norm(m, pos) = DStart \/ (Norm(m, pos) = pos /\ pos + Ent <= RingCap)
BY RingNumbers DEF Norm

(* A whole record ends in the ring or with it.                               *)
LEMMA WholeRecord ==
  ASSUME NEW m \in Memory, NEW pos \in Cells, Whole(m, pos)
  PROVE  /\ m[pos].kind = "entry" /\ m[pos].size \in Sizes /\ m[pos].id \in Record
         /\ NextPos(m, pos) \in DStart..RingCap /\ pos + Ent <= NextPos(m, pos)
         /\ pos < NextPos(m, pos) /\ NextPos(m, pos) \in Nat
         /\ \A c \in Cells : pos < c /\ c < NextPos(m, pos) => m[c] = Text(m[pos].id)
<1>1. m[pos] \in Cell /\ m[pos].kind = "entry"
  BY DEF Memory, Whole
<1>2. m[pos].size \in Sizes /\ m[pos].id \in Record
  BY <1>1 DEF Cell
<1>3. pos \in Nat /\ 1 <= pos /\ m[pos].size \in Nat /\ Ent <= m[pos].size /\ Ent >= 1 /\ Ent \in Nat
  BY <1>2, RingNumbers
<1>4. pos + m[pos].size <= RingCap /\ RingCap \in Nat
  BY RingNumbers DEF Whole
<1>5. ASSUME NEW c \in Cells, pos < c, c < NextPos(m, pos) PROVE m[c] = Text(m[pos].id)
  <2>1. c \in (pos + 1)..(pos + m[pos].size - 1)
    BY <1>3, <1>5, RingNumbers DEF NextPos
  <2> QED BY <2>1 DEF Whole
<1> QED BY <1>1, <1>2, <1>3, <1>4, <1>5, RingNumbers DEF NextPos

-----------------------------------------------------------------------------
(* The recursive functions along the ring.                                   *)

(* A chain is determined by where it begins.                                 *)
LEMMA ChainUnique ==
  ASSUME NEW m, NEW t, NEW n \in Nat, NEW k \in Nat, NEW p, NEW q,
         Chain(m, t, n, p), Chain(m, t, k, q)
  PROVE  \A i \in 1..n : i <= k => p[i] = q[i]
<1> DEFINE S == {i \in Nat : i \in 1..n /\ i <= k => p[i] = q[i]}
<1>1. 0 \in S
  OBVIOUS
<1>2. ASSUME NEW i \in S PROVE i + 1 \in S
  <2> SUFFICES ASSUME i + 1 \in 1..n, i + 1 <= k PROVE p[i + 1] = q[i + 1]
    OBVIOUS
  <2>1. /\ p[i + 1] = Norm(m, IF i + 1 = 1 THEN t ELSE NextPos(m, p[i + 1 - 1]))
        /\ q[i + 1] = Norm(m, IF i + 1 = 1 THEN t ELSE NextPos(m, q[i + 1 - 1]))
    BY DEF Chain
  <2>2. i + 1 # 1 => p[i] = q[i] /\ i + 1 - 1 = i
    OBVIOUS
  <2> QED BY <2>1, <2>2
<1>3. S = Nat
  <2> HIDE DEF S
  <2> QED BY <1>1, <1>2, SetInduction DEF S
<1> QED BY <1>3

LEMMA PlacesAre ==
  ASSUME NEW m, NEW h, NEW p, h.count \in Nat, Chain(m, h.tail, h.count, p)
  PROVE  Places(m, h) = p
<1> DEFINE n == h.count
           F(f) == [i \in 1..n |-> Norm(m, IF i = 1 THEN h.tail ELSE NextPos(m, f[i - 1]))]
           q == CHOOSE f : f = F(f)
<1>1. p = F(p)
  BY DEF Chain
<1>2. q = F(q)
  BY <1>1
<1>3. Places(m, h) = q
  BY DEF Places
<1> HIDE DEF q
<1> DEFINE S == {i \in Nat : i \in 1..n => q[i] = p[i]}
<1>4. 0 \in S
  OBVIOUS
<1>5. ASSUME NEW i \in S PROVE i + 1 \in S
  <2> SUFFICES ASSUME i + 1 \in 1..n PROVE q[i + 1] = p[i + 1]
    OBVIOUS
  <2>1. q[i + 1] = F(q)[i + 1] /\ p[i + 1] = F(p)[i + 1]
    BY <1>1, <1>2
  <2>2. i + 1 # 1 => q[i] = p[i] /\ i + 1 - 1 = i
    OBVIOUS
  <2> QED BY <2>1, <2>2
<1>6. S = Nat
  <2> HIDE DEF S
  <2> QED BY <1>4, <1>5, SetInduction DEF S
<1>7. q = p
  <2>1. p = [i \in 1..n |-> p[i]] /\ q = [i \in 1..n |-> q[i]]
    BY <1>1, <1>2
  <2>2. \A i \in 1..n : q[i] = p[i]
    BY <1>6
  <2> QED BY <2>1, <2>2
<1> QED BY <1>3, <1>7

(* The header without the oldest k of n records.                             *)
After(m, h, p, k) ==
  IF k = 0 THEN h ELSE IF k = h.count THEN Empty
  ELSE [h EXCEPT !.tail = NextPos(m, p[k]), !.count = h.count - k]

LEMMA WithoutOldestIs ==
  ASSUME NEW m, NEW h \in Header, NEW p, Chain(m, h.tail, h.count, p)
  PROVE  WithoutOldest(m, h) = [k \in 0..h.count |-> After(m, h, p, k)]
<1> DEFINE n == h.count
           F(f) == [k \in 0..n |-> IF k = 0 THEN h ELSE DropTail(m, f[k - 1])]
           g == [k \in 0..n |-> After(m, h, p, k)]
           q == CHOOSE f : f = F(f)
<1>0. n \in Nat /\ h = [head |-> h.head, tail |-> h.tail, count |-> n, last |-> h.last, sealed |-> h.sealed]
  BY DEF Header
<1>1. g = F(g)
  <2>1. ASSUME NEW k \in 0..n, k # 0 PROVE After(m, h, p, k) = DropTail(m, After(m, h, p, k - 1))
    <3> DEFINE a == After(m, h, p, k - 1)
    <3>1. k \in 1..n /\ k - 1 \in 0..n /\ k - 1 # n
      BY <1>0, <2>1
    <3>2. a = (IF k - 1 = 0 THEN h ELSE [h EXCEPT !.tail = NextPos(m, p[k - 1]), !.count = n - (k - 1)])
      BY <3>1 DEF After
    <3>3. a.count = n - (k - 1) /\ a.tail = (IF k = 1 THEN h.tail ELSE NextPos(m, p[k - 1]))
      <4>1. CASE k = 1
        BY <1>0, <3>1, <3>2, <4>1
      <4>2. CASE k # 1
        <5>1. a = [h EXCEPT !.tail = NextPos(m, p[k - 1]), !.count = n - (k - 1)]
          BY <3>1, <3>2, <4>2
        <5> QED BY <1>0, <4>2, <5>1
      <4> QED BY <4>1, <4>2
    <3>4. p[k] = Norm(m, a.tail)
      BY <3>1, <3>3 DEF Chain
    <3>5. CASE k = n
      <4>1. a.count = 1
        BY <1>0, <3>3, <3>5
      <4> QED BY <4>1, <3>1, <3>5 DEF DropTail, After
    <3>6. CASE k # n
      <4>1. a.count # 1 /\ a.count - 1 = n - k
        BY <1>0, <3>1, <3>3, <3>6
      <4>2. DropTail(m, a) = [a EXCEPT !.tail = NextPos(m, p[k]), !.count = n - k]
        BY <4>1, <3>4 DEF DropTail
      <4>3. @ = [h EXCEPT !.tail = NextPos(m, p[k]), !.count = n - k]
        BY <1>0, <3>2
      <4> QED BY <4>2, <4>3, <2>1, <3>6 DEF After
    <3> QED BY <3>5, <3>6
  <2>2. ASSUME NEW k \in 0..n PROVE g[k] = F(g)[k]
    <3>1. k # 0 => k - 1 \in 0..n
      BY <1>0
    <3> HIDE DEF n
    <3>2. CASE k = 0
      BY <3>2 DEF After
    <3>3. CASE k # 0
      BY <2>1, <3>1, <3>3
    <3> QED BY <3>2, <3>3
  <2> HIDE DEF n
  <2> QED BY <2>2
<1>2. q = F(q)
  <2> HIDE DEF g
  <2> QED BY <1>1
<1>3. WithoutOldest(m, h) = q
  BY DEF WithoutOldest
<1> HIDE DEF q
<1> DEFINE S == {i \in Nat : i \in 0..n => q[i] = g[i]}
<1>4. 0 \in S
  BY <1>2 DEF After
<1>5. ASSUME NEW i \in S PROVE i + 1 \in S
  <2> HIDE DEF g
  <2> SUFFICES ASSUME i + 1 \in 0..n PROVE q[i + 1] = g[i + 1]
    OBVIOUS
  <2>1. q[i + 1] = F(q)[i + 1] /\ g[i + 1] = F(g)[i + 1]
    BY <1>1, <1>2
  <2>2. i \in 0..n /\ q[i] = g[i] /\ i + 1 - 1 = i /\ i + 1 # 0
    BY <1>0
  <2> QED BY <2>1, <2>2
<1>6. S = Nat
  <2> HIDE DEF S
  <2> QED BY <1>4, <1>5, SetInduction DEF S
<1>7. q = g
  <2> HIDE DEF g
  <2>1. g = [k \in 0..n |-> g[k]] /\ q = [k \in 0..n |-> q[k]]
    BY <1>1, <1>2
  <2>2. \A k \in 0..n : q[k] = g[k]
    BY <1>0, <1>6
  <2> QED BY <2>1, <2>2
<1> QED BY <1>3, <1>7

-----------------------------------------------------------------------------
(* What validateRing() finds.                                                *)

(* Where the next record would be sought after n records at p.               *)
Slot(m, t, n, p) == IF n = 0 THEN t ELSE NextPos(m, p[n])

AllWhole(m, n, p) == \A i \in 1..n : Whole(m, p[i])

LEMMA SlotPlace ==
  ASSUME NEW m \in Memory, NEW t \in DStart..RingCap, NEW n \in Nat, NEW p,
         Chain(m, t, n, p), AllWhole(m, n, p)
  PROVE  /\ \A i \in 0..n : Slot(m, t, i, p) \in DStart..RingCap
         /\ \A i \in 1..n : p[i] \in Cells /\ p[i] = Norm(m, Slot(m, t, i - 1, p))
<1>1. ASSUME NEW i \in 1..n PROVE p[i] \in Cells /\ NextPos(m, p[i]) \in DStart..RingCap
  <2>1. p[i] \in Cells /\ Whole(m, p[i])
    BY DEF Chain, AllWhole
  <2> QED BY <2>1, WholeRecord
<1>2. ASSUME NEW i \in 0..n PROVE Slot(m, t, i, p) \in DStart..RingCap
  <2>1. CASE i = 0
    BY <2>1 DEF Slot
  <2>2. CASE i # 0
    <3>1. i \in 1..n
      BY <2>2
    <3> QED BY <1>1, <2>2, <3>1 DEF Slot
  <2> QED BY <2>1, <2>2
<1>3. ASSUME NEW i \in 1..n PROVE p[i] = Norm(m, Slot(m, t, i - 1, p))
  <2>1. (IF i = 1 THEN t ELSE NextPos(m, p[i - 1])) = Slot(m, t, i - 1, p)
    BY DEF Slot
  <2> QED BY <2>1 DEF Chain
<1> QED BY <1>1, <1>2, <1>3

(* The longest chain of whole records, as far as the header counts.          *)
LEMMA LongestChain ==
  ASSUME NEW m \in Memory, NEW h \in Header
  PROVE  \E n \in 0..h.count : \E p :
           /\ Chain(m, h.tail, n, p) /\ AllWhole(m, n, p)
           /\ n < h.count => ~Whole(m, Norm(m, Slot(m, h.tail, n, p)))
<1> DEFINE Good(n, p) == Chain(m, h.tail, n, p) /\ AllWhole(m, n, p)
           T == {k \in 0..h.count : \E p : Good(h.count - k, p)}
<1>0. h.count \in Nat /\ h.tail \in DStart..RingCap
  BY DEF Header
<1>1. Good(0, [i \in 1..0 |-> DStart])
  <2>1. \A i : i \notin 1..0
    OBVIOUS
  <2>2. [i \in 1..0 |-> DStart] \in [1..0 -> Cells]
    BY <2>1
  <2> QED BY <2>1, <2>2 DEF Chain, AllWhole
<1>2. h.count \in T
  <2>1. h.count - h.count = 0 /\ h.count \in 0..h.count
    BY <1>0
  <2>2. \E p : Good(h.count - h.count, p)
    BY <1>1, <2>1
  <2> HIDE DEF Good
  <2> QED BY <2>1, <2>2
<1>3. PICK k \in T : \A j \in T : k <= j
  <2> HIDE DEF Good
  <2>1. T \in SUBSET Nat /\ T # {}
    BY <1>0, <1>2
  <2> HIDE DEF T
  <2> QED BY <2>1, LeastNatural
<1> DEFINE n == h.count - k
<1>4. n \in 0..h.count /\ k \in 0..h.count
  BY <1>0, <1>3
<1>5. PICK p : Good(n, p)
  BY <1>3
<1>6. ASSUME n < h.count, Whole(m, Norm(m, Slot(m, h.tail, n, p))) PROVE FALSE
  <2> DEFINE x == Norm(m, Slot(m, h.tail, n, p))
             q == [i \in 1..(n + 1) |-> IF i = n + 1 THEN x ELSE p[i]]
  <2>0. n \in Nat /\ n + 1 \in 1..(n + 1)
    BY <1>4
  <2>1. Slot(m, h.tail, n, p) \in DStart..RingCap
    BY <1>0, <1>5, <2>0, SlotPlace
  <2>2. x \in Cells
    BY <2>1, NormPlace
  <2>3. \A i \in 1..n : p[i] \in Cells /\ i \in 1..(n + 1) /\ i # n + 1 /\ q[i] = p[i]
    BY <1>5, <2>0 DEF Chain
  <2>4. q[n + 1] = x
    BY <2>0
  <2>5. q \in [1..(n + 1) -> Cells]
    <3>1. ASSUME NEW i \in 1..(n + 1) PROVE (IF i = n + 1 THEN x ELSE p[i]) \in Cells
      <4> HIDE DEF x, q
      <4>1. i = n + 1 \/ i \in 1..n
        BY <2>0
      <4> QED BY <2>2, <2>3, <4>1
    <3> HIDE DEF x
    <3> QED BY <3>1
  <2>6. ASSUME NEW i \in 1..(n + 1)
        PROVE  q[i] = Norm(m, IF i = 1 THEN h.tail ELSE NextPos(m, q[i - 1])) /\ Whole(m, q[i])
    <3> HIDE DEF x, q
    <3>0. i - 1 = 0 \/ i - 1 \in 1..n
      BY <2>0
    <3>1. CASE i = n + 1
      <4>1. (IF i = 1 THEN h.tail ELSE NextPos(m, q[i - 1])) = Slot(m, h.tail, n, p)
        <5>1. CASE n = 0
          BY <3>1, <5>1 DEF Slot
        <5>2. CASE n # 0
          <6>1. i # 1 /\ i - 1 = n /\ n \in 1..n
            BY <2>0, <3>1, <5>2
          <6> QED BY <5>2, <6>1, <2>3 DEF Slot
        <5> QED BY <5>1, <5>2
      <4> QED BY <1>6, <2>4, <3>1, <4>1 DEF x
    <3>2. CASE i # n + 1
      <4>1. i \in 1..n
        BY <2>0, <3>2
      <4>2. p[i] = Norm(m, IF i = 1 THEN h.tail ELSE NextPos(m, p[i - 1])) /\ Whole(m, p[i])
        BY <1>5, <4>1 DEF Chain, AllWhole
      <4>3. i # 1 => q[i - 1] = p[i - 1]
        BY <2>3, <3>0
      <4> QED BY <2>3, <4>1, <4>2, <4>3
    <3> QED BY <3>1, <3>2
  <2>7. Good(n + 1, q)
    <3> HIDE DEF q
    <3> QED BY <2>5, <2>6 DEF Chain, AllWhole
  <2>8. k - 1 \in 0..h.count /\ h.count - (k - 1) = n + 1 /\ ~(k <= k - 1)
    BY <1>0, <1>4, <1>6
  <2>9. k - 1 \in T
    <3> HIDE DEF Good, q, n
    <3> QED BY <2>7, <2>8
  <2> QED BY <1>3, <2>8, <2>9
<1> QED
  <2> HIDE DEF n
  <2> QED BY <1>4, <1>5, <1>6

(* The steps of the walk along that chain, and after its end.                *)
StepsAlong(m, h, n, p) ==
  [i \in 0..h.count |->
     IF i <= n
     THEN [pos |-> Slot(m, h.tail, i, p), last |-> IF i = 0 THEN h.tail ELSE p[i], n |-> i, on |-> TRUE]
     ELSE [pos |-> Norm(m, Slot(m, h.tail, n, p)), last |-> IF n = 0 THEN h.tail ELSE p[n],
           n |-> n, on |-> FALSE]]

LEMMA StepsAre ==
  ASSUME NEW m \in Memory, NEW h \in Header, NEW n \in 0..h.count, NEW p,
         Chain(m, h.tail, n, p), AllWhole(m, n, p),
         n < h.count => ~Whole(m, Norm(m, Slot(m, h.tail, n, p)))
  PROVE  Steps(m, h) = StepsAlong(m, h, n, p)
<1> DEFINE N == h.count
           First == [pos |-> h.tail, last |-> h.tail, n |-> 0, on |-> TRUE]
           Go(i, s) ==
             LET x == Norm(m, s.pos)
             IN  IF ~s.on THEN s
                 ELSE IF Whole(m, x)
                      THEN [pos |-> NextPos(m, x), last |-> x, n |-> i, on |-> TRUE]
                      ELSE [pos |-> x, last |-> s.last, n |-> s.n, on |-> FALSE]
           F(f) == [i \in 0..N |-> IF i = 0 THEN First ELSE Go(i, f[i - 1])]
           g == StepsAlong(m, h, n, p)
           q == CHOOSE f : f = F(f)
<1>0. N \in Nat /\ n \in Nat /\ n <= N /\ h.tail \in DStart..RingCap
  BY DEF Header
<1>1. ASSUME NEW i \in 0..N PROVE g[i] = IF i = 0 THEN First ELSE Go(i, g[i - 1])
  <2>1. CASE i = 0
    BY <1>0, <2>1 DEF StepsAlong, Slot
  <2>2. CASE i # 0 /\ i <= n
    <3>1. i \in 1..n /\ i - 1 \in 0..N /\ i - 1 <= n /\ i - 1 \in 0..n
      BY <1>0, <2>2
    <3>2. p[i] = Norm(m, Slot(m, h.tail, i - 1, p)) /\ Whole(m, p[i])
      BY <1>0, <3>1, SlotPlace DEF AllWhole
    <3>3. g[i - 1].pos = Slot(m, h.tail, i - 1, p) /\ g[i - 1].on = TRUE
      BY <3>1 DEF StepsAlong
    <3>4. Go(i, g[i - 1]) = [pos |-> NextPos(m, p[i]), last |-> p[i], n |-> i, on |-> TRUE]
      <4> HIDE DEF g
      <4> QED BY <3>2, <3>3
    <3>5. g[i] = [pos |-> NextPos(m, p[i]), last |-> p[i], n |-> i, on |-> TRUE]
      BY <2>2, <3>1 DEF StepsAlong, Slot
    <3> QED BY <2>2, <3>4, <3>5
  <2>3. CASE i = n + 1
    <3>1. i # 0 /\ n \in 0..N /\ i - 1 = n /\ n < N /\ ~(i <= n)
      BY <1>0, <2>3
    <3> DEFINE s == g[n]
    <3>2. s = [pos |-> Slot(m, h.tail, n, p), last |-> IF n = 0 THEN h.tail ELSE p[n], n |-> n, on |-> TRUE]
      BY <1>0, <3>1 DEF StepsAlong
    <3>3. ~Whole(m, Norm(m, s.pos)) /\ s.on = TRUE
      BY <3>1, <3>2
    <3>4. Go(i, s) = [pos |-> Norm(m, s.pos), last |-> s.last, n |-> s.n, on |-> FALSE]
      <4> HIDE DEF s
      <4> QED BY <3>3
    <3>5. @ = [pos |-> Norm(m, Slot(m, h.tail, n, p)), last |-> IF n = 0 THEN h.tail ELSE p[n], n |-> n, on |-> FALSE]
      <4> HIDE DEF s, g
      <4> QED BY <3>2
    <3>6. g[i] = [pos |-> Norm(m, Slot(m, h.tail, n, p)), last |-> IF n = 0 THEN h.tail ELSE p[n], n |-> n, on |-> FALSE]
      BY <3>1 DEF StepsAlong
    <3> QED BY <3>1, <3>4, <3>5, <3>6
  <2>4. CASE i > n + 1
    <3>1. i # 0 /\ i - 1 \in 0..N /\ ~(i <= n) /\ ~(i - 1 <= n)
      BY <1>0, <2>4
    <3>2. g[i] = g[i - 1] /\ g[i - 1].on = FALSE
      BY <3>1 DEF StepsAlong
    <3> HIDE DEF g
    <3> QED BY <3>1, <3>2
  <2> QED BY <1>0, <2>1, <2>2, <2>3, <2>4
<1>2. g = F(g)
  <2>1. g = [i \in 0..N |-> g[i]]
    BY DEF StepsAlong
  <2> HIDE DEF g, Go, First
  <2>2. F(g) = [i \in 0..N |-> IF i = 0 THEN First ELSE Go(i, g[i - 1])]
    OBVIOUS
  <2>3. @ = [i \in 0..N |-> g[i]]
    BY <1>1
  <2> QED BY <2>1, <2>2, <2>3
<1>3. q = F(q)
  <2> HIDE DEF g, Go, First
  <2> QED BY <1>2
<1>4. Steps(m, h) = q
  BY DEF Steps
<1> HIDE DEF q, Go, First, g
<1> DEFINE S == {i \in Nat : i \in 0..N => q[i] = g[i]}
<1>5. 0 \in S
  <2>1. 0 \in 0..N
    BY <1>0
  <2>2. q[0] = First
    BY <1>3, <2>1
  <2>3. g[0] = First
    BY <1>1, <2>1
  <2> QED BY <2>2, <2>3
<1>6. ASSUME NEW i \in S PROVE i + 1 \in S
  <2> SUFFICES ASSUME i + 1 \in 0..N PROVE q[i + 1] = g[i + 1]
    OBVIOUS
  <2>1. i \in 0..N /\ i + 1 # 0 /\ i + 1 - 1 = i /\ q[i] = g[i]
    BY <1>0
  <2>2. q[i + 1] = Go(i + 1, q[i])
    BY <1>3, <2>1
  <2>3. g[i + 1] = Go(i + 1, g[i])
    BY <1>1, <2>1
  <2> QED BY <2>1, <2>2, <2>3
<1>7. S = Nat
  <2> HIDE DEF S
  <2> QED BY <1>5, <1>6, SetInduction DEF S
<1>8. q = g
  <2>1. q = [i \in 0..N |-> q[i]] /\ g = [i \in 0..N |-> g[i]]
    BY <1>2, <1>3
  <2>2. \A i \in 0..N : q[i] = g[i]
    BY <1>0, <1>7
  <2> QED BY <2>1, <2>2
<1> QED BY <1>4, <1>8 DEF g

-----------------------------------------------------------------------------
(* The layout of the records.                                                *)

(* The records of h lie whole at p, in a row from the tail to the end of the *)
(* ring (the first k) and in a row from its start to the tail (the others).  *)
Ring(m, h, p, k) ==
  /\ h.count # 0 /\ h.sealed = TRUE
  /\ Chain(m, h.tail, h.count, p) /\ AllWhole(m, h.count, p)
  /\ h.last = p[h.count]
  /\ k \in 0..h.count
  /\ k # 0 => p[1] = h.tail
  /\ \A i \in 1..(h.count - 1) : i # k => p[i + 1] = NextPos(m, p[i])
  /\ k < h.count => /\ p[k + 1] = DStart /\ NextPos(m, p[h.count]) <= h.tail
                    /\ h.head = NextPos(m, p[h.count])
  /\ k = h.count => \/ h.head = NextPos(m, p[h.count])
                    \/ /\ h.head = DStart /\ DStart < h.tail
                       /\ Norm(m, NextPos(m, p[h.count])) = DStart

Lay(m, h) == h = Empty \/ \E p, k : Ring(m, h, p, k)

LEMMA Ascending ==
  ASSUME NEW a \in Nat, NEW b \in Nat, NEW f, NEW g,
         \A i \in a..b : f[i] \in Nat /\ g[i] \in Nat /\ f[i] < g[i],
         \A i \in a..b : i # b => f[i + 1] = g[i]
  PROVE  \A i, j \in a..b : i < j => g[i] <= f[j]
<1> DEFINE S == {d \in Nat : \A i \in a..b : i + d + 1 \in a..b => g[i] <= f[i + d + 1]}
<1>1. 0 \in S
  <2>1. ASSUME NEW i \in a..b, i + 0 + 1 \in a..b PROVE g[i] <= f[i + 0 + 1]
    <3>1. i # b /\ i + 0 + 1 = i + 1
      BY <2>1
    <3> QED BY <3>1
  <2> QED BY <2>1
<1>2. ASSUME NEW d \in S PROVE d + 1 \in S
  <2>1. ASSUME NEW i \in a..b, i + (d + 1) + 1 \in a..b PROVE g[i] <= f[i + (d + 1) + 1]
    <3> DEFINE j == i + d + 1
    <3>1. j \in a..b /\ j # b /\ i + (d + 1) + 1 = j + 1
      BY <2>1
    <3>2. g[i] <= f[j]
      BY <3>1
    <3> HIDE DEF j
    <3>3. f[j + 1] = g[j] /\ f[j] < g[j] /\ f[j] \in Nat /\ g[j] \in Nat /\ g[i] \in Nat
      BY <3>1
    <3> QED BY <3>1, <3>2, <3>3
  <2> QED BY <2>1
<1>3. S = Nat
  <2> HIDE DEF S
  <2> QED BY <1>1, <1>2, SetInduction DEF S
<1>4. ASSUME NEW i \in a..b, NEW j \in a..b, i < j PROVE g[i] <= f[j]
  <2>1. j - i - 1 \in Nat /\ i + (j - i - 1) + 1 = j
    BY <1>4
  <2>2. j - i - 1 \in S
    BY <1>3, <2>1
  <2>3. i + (j - i - 1) + 1 \in a..b => g[i] <= f[i + (j - i - 1) + 1]
    BY <2>2
  <2> QED BY <2>1, <2>3
<1> QED BY <1>4

(* The records lie apart from each other, in order.                          *)
LEMMA RingOrder ==
  ASSUME NEW m \in Memory, NEW h \in Header, NEW p, NEW k, Ring(m, h, p, k)
  PROVE  /\ h.count \in Nat \ {0} /\ k \in 0..h.count
         /\ \A i \in 1..h.count : /\ p[i] \in Cells /\ NextPos(m, p[i]) \in DStart..RingCap
                                  /\ p[i] < NextPos(m, p[i]) /\ Whole(m, p[i])
         /\ \A i, j \in 1..h.count : i < j /\ (j <= k \/ k < i) => NextPos(m, p[i]) <= p[j]
         /\ \A i \in 1..k : h.tail <= p[i]
         /\ \A i \in (k + 1)..h.count : NextPos(m, p[i]) <= h.tail
<1> DEFINE n == h.count
           g == [i \in 1..n |-> NextPos(m, p[i])]
<1>1. n \in Nat \ {0} /\ k \in 0..n /\ k \in Nat /\ h.tail \in Nat /\ h.tail \in DStart..RingCap
  BY RingNumbers DEF Header, Ring
<1>2. ASSUME NEW i \in 1..n
      PROVE  /\ p[i] \in Cells /\ NextPos(m, p[i]) \in DStart..RingCap
             /\ p[i] < NextPos(m, p[i]) /\ Whole(m, p[i])
             /\ p[i] \in Nat /\ g[i] \in Nat /\ g[i] = NextPos(m, p[i]) /\ p[i] < g[i]
  <2>1. p[i] \in Cells /\ Whole(m, p[i])
    BY DEF Ring, Chain, AllWhole
  <2>2. NextPos(m, p[i]) \in DStart..RingCap /\ p[i] < NextPos(m, p[i]) /\ NextPos(m, p[i]) \in Nat
    BY <2>1, WholeRecord
  <2> QED BY <2>1, <2>2, RingNumbers
<1>3. ASSUME NEW i \in 1..n, i # n, i # k PROVE p[i + 1] = g[i]
  <2>1. i \in 1..(n - 1)
    BY <1>1, <1>3
  <2> QED BY <1>3, <2>1, <1>2 DEF Ring
<1> HIDE DEF n, g
<1>4. \A i, j \in 1..k : i < j => g[i] <= p[j]
  <2>1. \A i \in 1..k : i \in 1..n /\ p[i] \in Nat /\ g[i] \in Nat /\ p[i] < g[i]
    BY <1>1, <1>2
  <2>2. \A i \in 1..k : i # k => i # n /\ p[i + 1] = g[i]
    BY <1>1, <1>3
  <2>3. 1 \in Nat
    OBVIOUS
  <2> QED BY <1>1, <2>1, <2>2, <2>3, Ascending
<1>5. \A i, j \in (k + 1)..n : i < j => g[i] <= p[j]
  <2>1. \A i \in (k + 1)..n : i \in 1..n /\ p[i] \in Nat /\ g[i] \in Nat /\ p[i] < g[i]
    BY <1>1, <1>2
  <2>2. \A i \in (k + 1)..n : i # n => i # k /\ p[i + 1] = g[i]
    BY <1>1, <1>3
  <2>3. k + 1 \in Nat /\ n \in Nat
    BY <1>1
  <2> QED BY <2>1, <2>2, <2>3, Ascending
<1>6. ASSUME NEW i \in 1..n, NEW j \in 1..n, i < j, j <= k \/ k < i PROVE NextPos(m, p[i]) <= p[j]
  <2>1. (i \in 1..k /\ j \in 1..k) \/ (i \in (k + 1)..n /\ j \in (k + 1)..n)
    BY <1>1, <1>6
  <2> QED BY <1>2, <1>4, <1>5, <1>6, <2>1
<1>7. ASSUME NEW i \in 1..k PROVE h.tail <= p[i]
  <2>1. 1 \in 1..k /\ i \in 1..n /\ 1 \in 1..n /\ k # 0 /\ (i = 1 \/ 1 < i)
    BY <1>1
  <2>2. p[1] = h.tail
    BY <2>1 DEF Ring
  <2>3. 1 < i => g[1] <= p[i]
    BY <1>4, <2>1
  <2>4. p[1] < g[1] /\ p[1] \in Nat /\ g[1] \in Nat /\ p[i] \in Nat
    BY <1>2, <2>1
  <2> QED BY <1>1, <2>1, <2>2, <2>3, <2>4
<1>8. ASSUME NEW i \in (k + 1)..n PROVE NextPos(m, p[i]) <= h.tail
  <2>1. n \in (k + 1)..n /\ k < n /\ i \in 1..n /\ n \in 1..n /\ (i = n \/ i < n)
    BY <1>1
  <2>2. NextPos(m, p[n]) <= h.tail
    BY <2>1 DEF Ring, n
  <2>3. i < n => g[i] <= p[n]
    BY <1>5, <2>1
  <2>4. p[n] < g[n] /\ p[n] \in Nat /\ g[n] \in Nat /\ g[i] \in Nat /\ g[n] = NextPos(m, p[n]) /\ g[i] = NextPos(m, p[i])
    BY <1>2, <2>1
  <2> QED BY <1>1, <2>1, <2>2, <2>3, <2>4
<1> QED BY <1>1, <1>2, <1>6, <1>7, <1>8 DEF n

(* The head is beyond the tail exactly while no record lies before the tail. *)
LEMMA RingHead ==
  ASSUME NEW m \in Memory, NEW h \in Header, NEW p, NEW k, Ring(m, h, p, k)
  PROVE  /\ h.head > h.tail => k = h.count /\ h.head = NextPos(m, p[h.count])
         /\ h.head <= h.tail => k < h.count \/ (h.head = DStart /\ DStart < h.tail)
         /\ \A i \in 1..h.count : i > k => NextPos(m, p[i]) <= h.head
<1>1. /\ h.count \in Nat \ {0} /\ k \in 0..h.count /\ k \in Nat
      /\ h.head \in Nat /\ h.tail \in Nat /\ h.count \in 1..h.count
  BY RingOrder, RingNumbers DEF Header
<1>2. NextPos(m, p[h.count]) \in Nat /\ p[h.count] \in Nat /\ p[h.count] < NextPos(m, p[h.count])
  <2>1. p[h.count] \in Cells /\ NextPos(m, p[h.count]) \in DStart..RingCap /\ p[h.count] < NextPos(m, p[h.count])
    BY <1>1, RingOrder
  <2> DEFINE a == p[h.count]
             b == NextPos(m, p[h.count])
  <2>2. a \in Cells /\ b \in DStart..RingCap /\ a < b
    BY <2>1
  <2> HIDE DEF a, b
  <2>3. a \in Nat /\ b \in Nat
    BY <2>2, RingNumbers
  <2> QED BY <2>2, <2>3 DEF a, b
<1>3. CASE k < h.count
  <2>1. h.head = NextPos(m, p[h.count]) /\ h.head <= h.tail
    BY <1>3 DEF Ring
  <2>2. ASSUME NEW i \in 1..h.count, i > k PROVE NextPos(m, p[i]) <= h.head
    <3>1. CASE i = h.count
      BY <1>2, <2>1, <3>1
    <3>2. CASE i # h.count
      <4>1. NextPos(m, p[i]) <= p[h.count] /\ NextPos(m, p[i]) \in Nat
        <5>1. i < h.count /\ k < i
          BY <1>1, <2>2, <3>2
        <5> QED BY <1>1, <5>1, RingOrder, RingNumbers
      <4> QED BY <1>2, <2>1, <4>1
    <3> QED BY <3>1, <3>2
  <2> QED BY <1>1, <1>2, <1>3, <2>1, <2>2
<1>4. CASE k = h.count
  <2>1. h.head = NextPos(m, p[h.count]) \/ (h.head = DStart /\ DStart < h.tail)
    BY <1>4 DEF Ring
  <2>2. h.tail <= p[h.count]
    BY <1>1, <1>4, RingOrder
  <2>3. \A i \in 1..h.count : ~(i > k)
    BY <1>1, <1>4
  <2>4. DStart \in Nat
    BY RingNumbers
  <2> QED BY <1>1, <1>2, <1>4, <2>1, <2>2, <2>3, <2>4
<1> QED BY <1>1, <1>3, <1>4

(* The queue of such a header.                                               *)
LEMMA LayQueue ==
  ASSUME NEW m \in Memory, NEW h \in Header
  PROVE  /\ h = Empty => QueueOf(m, h) = << >>
         /\ \A p, k : Ring(m, h, p, k) =>
              Places(m, h) = p /\ QueueOf(m, h) = [n \in 1..h.count |-> m[p[n]].id]
<1>1. ASSUME NEW p, NEW k, Ring(m, h, p, k)
      PROVE Places(m, h) = p /\ QueueOf(m, h) = [n \in 1..h.count |-> m[p[n]].id]
  <2>1. Places(m, h) = p
    BY <1>1, PlacesAre DEF Ring, Header
  <2> QED BY <2>1 DEF QueueOf
<1>2. ASSUME h = Empty PROVE QueueOf(m, h) = << >>
  <2>1. h.count = 0 /\ 1..0 = {}
    BY <1>2 DEF Empty
  <2> QED BY <2>1 DEF QueueOf
<1> QED BY <1>1, <1>2

-----------------------------------------------------------------------------
(* Memories that differ only in the states of their records.                 *)

Same(m, w) == \A c \in Cells : /\ m[c].kind = w[c].kind /\ m[c].id = w[c].id /\ m[c].size = w[c].size
                               /\ m[c].kind # "entry" => m[c] = w[c]

LEMMA SameWalk ==
  ASSUME NEW m \in Memory, NEW w \in Memory, Same(m, w)
  PROVE  /\ \A pos \in DStart..RingCap : Norm(m, pos) = Norm(w, pos)
         /\ \A pos \in Cells : NextPos(m, pos) = NextPos(w, pos) /\ (Whole(m, pos) <=> Whole(w, pos))
<1>1. ASSUME NEW pos \in DStart..RingCap PROVE Norm(m, pos) = Norm(w, pos)
  <2>1. pos \in Cells \/ pos + Ent > RingCap
    BY RingNumbers
  <2> QED BY <2>1 DEF Norm, Same
<1>2. ASSUME NEW pos \in Cells PROVE NextPos(m, pos) = NextPos(w, pos)
  BY DEF NextPos, Same
<1>3. ASSUME NEW pos \in Cells, NEW x \in Memory, NEW y \in Memory, Same(x, y), Whole(x, pos) PROVE Whole(y, pos)
  <2>1. y[pos].kind = "entry" /\ y[pos].size = x[pos].size /\ y[pos].id = x[pos].id
    BY <1>3 DEF Same, Whole
  <2>2. pos + x[pos].size <= RingCap /\ x[pos].size \in Nat /\ pos \in Nat /\ pos >= 1 /\ RingCap \in Nat
    BY <1>3, RingNumbers, WholeRecord DEF Whole
  <2>3. ASSUME NEW c \in (pos + 1)..(pos + y[pos].size - 1) PROVE y[c] = Text(y[pos].id)
    <3>1. c \in Cells /\ c \in (pos + 1)..(pos + x[pos].size - 1)
      BY <2>1, <2>2, RingNumbers
    <3>2. x[c] = Text(x[pos].id)
      BY <1>3, <3>1 DEF Whole
    <3>3. x[c].kind # "entry"
      BY <3>2 DEF Text
    <3>4. y[c] = x[c]
      BY <1>3, <3>1, <3>3 DEF Same
    <3> QED BY <2>1, <3>2, <3>4
  <2> QED BY <2>1, <2>2, <2>3 DEF Whole
<1>4. Same(w, m)
  BY DEF Same
<1> QED BY <1>1, <1>2, <1>3, <1>4

LEMMA SameRing ==
  ASSUME NEW m \in Memory, NEW w \in Memory, Same(m, w), NEW h \in Header, NEW p, NEW k, Ring(m, h, p, k)
  PROVE  Ring(w, h, p, k)
<1>1. h.count \in Nat \ {0} /\ h.tail \in DStart..RingCap
  BY RingOrder DEF Header
<1>2. \A i \in 1..h.count : p[i] \in Cells /\ NextPos(m, p[i]) \in DStart..RingCap /\ Whole(m, p[i])
  BY RingOrder
<1>3. \A i \in 1..h.count : NextPos(w, p[i]) = NextPos(m, p[i])
  BY <1>2, SameWalk
<1>4. Chain(w, h.tail, h.count, p)
  <2>1. ASSUME NEW i \in 1..h.count
        PROVE  p[i] = Norm(w, IF i = 1 THEN h.tail ELSE NextPos(w, p[i - 1]))
    <3> DEFINE t == IF i = 1 THEN h.tail ELSE NextPos(m, p[i - 1])
    <3>1. i # 1 => i - 1 \in 1..h.count
      BY <1>1
    <3>2. t \in DStart..RingCap
      BY <1>1, <1>2, <3>1
    <3>3. t = (IF i = 1 THEN h.tail ELSE NextPos(w, p[i - 1]))
      BY <1>3, <3>1
    <3>4. p[i] = Norm(m, t)
      BY DEF Ring, Chain
    <3> HIDE DEF t
    <3> QED BY <3>2, <3>3, <3>4, SameWalk
  <2> QED BY <2>1 DEF Ring, Chain
<1>5. AllWhole(w, h.count, p)
  BY <1>2, SameWalk DEF AllWhole
<1>6. h.count \in 1..h.count /\ \A i \in 1..(h.count - 1) : i \in 1..h.count
  BY <1>1
<1>7. Norm(w, NextPos(m, p[h.count])) = Norm(m, NextPos(m, p[h.count]))
  BY <1>2, <1>6, SameWalk
<1> QED BY <1>3, <1>4, <1>5, <1>6, <1>7 DEF Ring

LEMMA SameLay ==
  ASSUME NEW m \in Memory, NEW w \in Memory, Same(m, w), NEW h \in Header, Lay(m, h)
  PROVE  Lay(w, h) /\ QueueOf(w, h) = QueueOf(m, h) /\ Places(w, h) = Places(m, h)
<1>1. CASE h = Empty
  <2>1. Places(w, h) = Places(m, h)
    <3>1. h.count = 0 /\ 1..0 = {}
      BY <1>1 DEF Empty
    <3>2. Chain(m, h.tail, h.count, [i \in 1..0 |-> DStart]) /\ Chain(w, h.tail, h.count, [i \in 1..0 |-> DStart])
      BY <3>1 DEF Chain
    <3>3. h.count \in Nat
      BY <3>1
    <3>4. Places(m, h) = [i \in 1..0 |-> DStart] /\ Places(w, h) = [i \in 1..0 |-> DStart]
      <4> DEFINE p == [i \in 1..0 |-> DStart]
      <4> HIDE DEF p
      <4>1. Chain(m, h.tail, h.count, p) /\ Chain(w, h.tail, h.count, p)
        BY <3>2 DEF p
      <4> QED BY <3>3, <4>1, PlacesAre DEF p
    <3> QED BY <3>4
  <2> QED BY <1>1, <2>1, LayQueue DEF Lay
<1>2. ASSUME NEW p, NEW k, Ring(m, h, p, k)
      PROVE  Lay(w, h) /\ QueueOf(w, h) = QueueOf(m, h) /\ Places(w, h) = Places(m, h)
  <2>1. Ring(w, h, p, k)
    BY <1>2, SameRing
  <2>2. Places(m, h) = p /\ Places(w, h) = p
    BY <1>2, <2>1, LayQueue
  <2>3. \A i \in 1..h.count : w[p[i]].id = m[p[i]].id
    BY <1>2, RingOrder DEF Same
  <2>4. QueueOf(m, h) = [n \in 1..h.count |-> m[p[n]].id] /\ QueueOf(w, h) = [n \in 1..h.count |-> w[p[n]].id]
    BY <1>2, <2>1, LayQueue
  <2> QED BY <2>1, <2>2, <2>3, <2>4 DEF Lay
<1> QED BY <1>1, <1>2 DEF Lay

(* Changing the states of records at a set of entries.                       *)
Restate(m, at, s) == [c \in Cells |-> IF c \in at THEN [m[c] EXCEPT !.state = s] ELSE m[c]]

LEMMA RestateSame ==
  ASSUME NEW m \in Memory, NEW at, \A c \in at : c \in Cells => m[c].kind = "entry",
         NEW s \in {"pending", "inflight", "acked"}
  PROVE  Restate(m, at, s) \in Memory /\ Same(m, Restate(m, at, s))
<1> DEFINE w == Restate(m, at, s)
<1>1. ASSUME NEW c \in Cells
      PROVE  /\ w[c] \in Cell /\ w[c].kind = m[c].kind /\ w[c].id = m[c].id /\ w[c].size = m[c].size
             /\ m[c].kind # "entry" => w[c] = m[c]
  <2>1. m[c] \in Cell
    BY DEF Memory
  <2>2. CASE c \in at
    <3>1. w[c] = [m[c] EXCEPT !.state = s] /\ m[c].kind = "entry"
      BY <2>2 DEF Restate
    <3> HIDE DEF w
    <3> QED BY <2>1, <3>1 DEF Cell
  <2>3. CASE c \notin at
    <3>1. w[c] = m[c]
      BY <2>3 DEF Restate
    <3> QED BY <2>1, <3>1
  <2> QED BY <2>2, <2>3
<1>2. w = [c \in Cells |-> w[c]]
  BY DEF Restate
<1> HIDE DEF w
<1>3. w \in Memory
  BY <1>1, <1>2 DEF Memory
<1> QED BY <1>1, <1>3 DEF Same, w

-----------------------------------------------------------------------------
(* Taking the oldest records away.                                           *)

LEMMA HeaderFacts ==
  /\ Empty \in Header /\ Torn \in Header /\ Empty.count = 0
  /\ \A h \in Header : /\ h.head \in DStart..RingCap /\ h.tail \in DStart..RingCap
                       /\ h.head \in Nat /\ h.tail \in Nat /\ h.count \in Nat
<1>1. DStart \in DStart..RingCap /\ DStart \in Cells
  BY RingNumbers
<1>2. Empty \in Header
  BY <1>1 DEF Empty, Header
<1>3. Torn \in Header
  BY <1>2 DEF Torn, Header
<1> QED BY <1>2, <1>3, RingNumbers DEF Header, Empty

Shift(p, d, n) == [i \in 1..(n - d) |-> p[i + d]]

LEMMA DropRing ==
  ASSUME NEW m \in Memory, NEW h \in Header, NEW p, NEW k, Ring(m, h, p, k), NEW d \in 1..(h.count - 1)
  PROVE  /\ After(m, h, p, d) \in Header /\ After(m, h, p, d).count = h.count - d
         /\ \E j : Ring(m, After(m, h, p, d), Shift(p, d, h.count), j)
<1> DEFINE n == h.count
           a == After(m, h, p, d)
           q == Shift(p, d, n)
           j == IF d <= k THEN k - d ELSE n - d
<1>0. /\ n \in Nat \ {0} /\ k \in 0..n /\ k \in Nat /\ d \in Nat /\ d # 0 /\ d < n /\ d \in 1..n
      /\ n \in 1..n /\ n - d \in Nat /\ n - d # 0 /\ DStart \in Nat
  BY RingOrder, RingNumbers
<1>1. \A i \in 1..n : /\ p[i] \in Nat /\ NextPos(m, p[i]) \in Nat /\ p[i] < NextPos(m, p[i])
                      /\ p[i] \in Cells /\ NextPos(m, p[i]) \in DStart..RingCap /\ Whole(m, p[i])
  BY RingOrder, RingNumbers
<1>2. a = [h EXCEPT !.tail = NextPos(m, p[d]), !.count = n - d]
  BY <1>0 DEF After
<1>3. /\ a \in Header /\ a.tail = NextPos(m, p[d]) /\ a.count = n - d
      /\ a.head = h.head /\ a.last = h.last /\ a.sealed = h.sealed
  <2>1. NextPos(m, p[d]) \in DStart..RingCap
    BY <1>0, <1>1
  <2> HIDE DEF a
  <2> QED BY <1>0, <1>2, <2>1 DEF Header
<1> HIDE DEF a
<1>4. \A i \in 1..(n - d) : q[i] = p[i + d] /\ i + d \in 1..n
  BY <1>0 DEF Shift
<1>5. q \in [1..(n - d) -> Cells]
  <2> HIDE DEF n
  <2> QED BY <1>1, <1>4 DEF Shift
<1> HIDE DEF q
<1>6. Chain(m, a.tail, n - d, q)
  <2>1. ASSUME NEW i \in 1..(n - d)
        PROVE  q[i] = Norm(m, IF i = 1 THEN a.tail ELSE NextPos(m, q[i - 1]))
    <3>1. p[i + d] = Norm(m, NextPos(m, p[i + d - 1]))
      <4>1. i + d \in 1..n /\ i + d # 1
        BY <1>0, <1>4
      <4> QED BY <4>1 DEF Ring, Chain
    <3>2. CASE i = 1
      <4>1. i + d - 1 = d
        BY <1>0, <3>2
      <4> QED BY <1>3, <1>4, <3>1, <3>2, <4>1
    <3>3. CASE i # 1
      <4>1. i - 1 \in 1..(n - d) /\ i + d - 1 = (i - 1) + d
        BY <1>0, <3>3
      <4> QED BY <1>4, <3>1, <3>3, <4>1
    <3> QED BY <3>2, <3>3
  <2> QED BY <1>5, <2>1 DEF Chain
<1>7. AllWhole(m, n - d, q)
  BY <1>1, <1>4 DEF AllWhole
<1>8. n - d \in 1..(n - d) /\ q[n - d] = p[n]
  BY <1>0, <1>4
<1>9. j \in 0..(n - d)
  BY <1>0
<1>10. ASSUME j # 0 PROVE q[1] = a.tail
  <2>1. d # k /\ d \in 1..(n - 1) /\ 1 \in 1..(n - d) /\ 1 + d = d + 1
    BY <1>0, <1>10
  <2> QED BY <1>3, <1>4, <2>1 DEF Ring
<1>11. ASSUME NEW i \in 1..(n - d - 1), i # j PROVE q[i + 1] = NextPos(m, q[i])
  <2>1. i + d # k /\ i + d \in 1..(n - 1) /\ i \in 1..(n - d) /\ i + 1 \in 1..(n - d) /\ i + 1 + d = (i + d) + 1
    BY <1>0, <1>11
  <2> QED BY <1>4, <2>1 DEF Ring
<1>12. d <= k => h.tail < a.tail
  <2>1. d <= k => h.tail <= p[d]
    BY <1>0, RingOrder
  <2> QED BY <1>0, <1>1, <1>3, <2>1, HeaderFacts
<1>13. ASSUME j < n - d
       PROVE  q[j + 1] = DStart /\ NextPos(m, q[n - d]) <= a.tail /\ a.head = NextPos(m, q[n - d])
  <2>1. d <= k /\ k < n /\ j + 1 \in 1..(n - d) /\ j + 1 + d = k + 1
    BY <1>0, <1>13
  <2>2. p[k + 1] = DStart /\ NextPos(m, p[n]) <= h.tail /\ h.head = NextPos(m, p[n])
    BY <2>1 DEF Ring
  <2>3. NextPos(m, p[n]) <= a.tail
    BY <1>0, <1>1, <1>3, <1>12, <2>1, <2>2, HeaderFacts
  <2> HIDE DEF j
  <2> QED BY <1>3, <1>4, <1>8, <2>1, <2>2, <2>3
<1>14. ASSUME j = n - d
       PROVE  \/ a.head = NextPos(m, q[n - d])
              \/ a.head = DStart /\ DStart < a.tail /\ Norm(m, NextPos(m, q[n - d])) = DStart
  <2>1. k < n \/ (k = n /\ d <= k)
    BY <1>0
  <2>2. CASE k < n
    BY <1>3, <1>8, <2>2 DEF Ring
  <2>3. CASE k = n /\ d <= k
    <3>1. \/ h.head = NextPos(m, p[n])
          \/ h.head = DStart /\ DStart < h.tail /\ Norm(m, NextPos(m, p[n])) = DStart
      BY <2>3 DEF Ring
    <3>2. DStart < h.tail => DStart < a.tail
      BY <1>0, <1>3, <1>12, <2>3, HeaderFacts
    <3> QED BY <1>3, <1>8, <3>1, <3>2
  <2> QED BY <2>1, <2>2, <2>3
<1>15. Ring(m, a, q, j)
  <2> HIDE DEF j
  <2>1. a.count = n - d /\ a.sealed = TRUE /\ a.last = q[n - d]
    BY <1>3, <1>8 DEF Ring
  <2> QED BY <1>0, <1>6, <1>7, <1>9, <1>10, <1>11, <1>13, <1>14, <2>1 DEF Ring
<1> QED BY <1>3, <1>15 DEF a, q

(* A header without its oldest records counts the others.                    *)
LEMMA WithoutLay ==
  ASSUME NEW m \in Memory, NEW h \in Header, Lay(m, h), NEW d \in 0..h.count
  PROVE  /\ WithoutOldest(m, h)[d] \in Header /\ Lay(m, WithoutOldest(m, h)[d])
         /\ WithoutOldest(m, h)[d].count = h.count - d
         /\ \A i \in 1..(h.count - d) : Places(m, WithoutOldest(m, h)[d])[i] = Places(m, h)[i + d]
         /\ d = h.count => WithoutOldest(m, h)[d] = Empty
<1>1. CASE h = Empty
  <2>1. h.count = 0 /\ d = 0 /\ 1..0 = {} /\ 0 \in 0..0
    BY <1>1 DEF Empty
  <2>2. Chain(m, h.tail, h.count, [i \in 1..0 |-> DStart])
    BY <2>1 DEF Chain
  <2>3. WithoutOldest(m, h) = [x \in 0..h.count |-> After(m, h, [i \in 1..0 |-> DStart], x)]
    BY <2>2, WithoutOldestIs
  <2>4. WithoutOldest(m, h)[d] = h
    BY <2>1, <2>3 DEF After
  <2>5. h.count - d = 0
    BY <2>1
  <2> QED BY <1>1, <2>1, <2>4, <2>5
<1>2. ASSUME NEW p, NEW k, Ring(m, h, p, k), h # Empty
      PROVE  /\ WithoutOldest(m, h)[d] \in Header /\ Lay(m, WithoutOldest(m, h)[d])
             /\ WithoutOldest(m, h)[d].count = h.count - d
             /\ \A i \in 1..(h.count - d) : Places(m, WithoutOldest(m, h)[d])[i] = Places(m, h)[i + d]
             /\ d = h.count => WithoutOldest(m, h)[d] = Empty
  <2> DEFINE a == After(m, h, p, d)
  <2>1. WithoutOldest(m, h)[d] = a
    <3>1. WithoutOldest(m, h) = [x \in 0..h.count |-> After(m, h, p, x)]
      BY <1>2, WithoutOldestIs DEF Ring
    <3> QED BY <3>1
  <2>2. h.count \in Nat \ {0} /\ Places(m, h) = p
    BY <1>2, RingOrder, LayQueue
  <2>3. CASE d = 0
    <3>1. a = h /\ h.count - d = h.count /\ \A i \in 1..h.count : i + d = i
      BY <2>2, <2>3 DEF After
    <3> HIDE DEF a
    <3> QED BY <2>1, <2>2, <2>3, <3>1
  <2>4. CASE d = h.count
    <3>1. a = Empty /\ h.count - d = 0 /\ 1..0 = {}
      BY <2>2, <2>4 DEF After
    <3> HIDE DEF a
    <3> QED BY <2>1, <3>1, HeaderFacts DEF Lay
  <2>5. CASE d # 0 /\ d # h.count
    <3>1. d \in 1..(h.count - 1)
      BY <2>2, <2>5
    <3>2. PICK j : a \in Header /\ a.count = h.count - d /\ Ring(m, a, Shift(p, d, h.count), j)
      BY <1>2, <3>1, DropRing
    <3> HIDE DEF a
    <3>3. Places(m, a) = Shift(p, d, h.count)
      BY <3>2, LayQueue
    <3>4. \A i \in 1..(h.count - d) : Places(m, a)[i] = p[i + d]
      BY <3>3 DEF Shift
    <3> QED BY <2>1, <2>2, <2>5, <3>2, <3>4 DEF Lay
  <2> QED BY <2>3, <2>4, <2>5
<1> QED BY <1>1, <1>2 DEF Lay

-----------------------------------------------------------------------------
(* Writing a record.                                                         *)

Onto(p, n, at) == [i \in 1..(n + 1) |-> IF i = n + 1 THEN at ELSE p[i]]

(* A record at `at`, after those of h, in a memory w that keeps theirs.      *)
LEMMA PushOnto ==
  ASSUME NEW m \in Memory, NEW w \in Memory, NEW h \in Header, NEW a \in Header, NEW p, NEW k, NEW j,
         NEW at \in Cells, Ring(m, h, p, k),
         \A i \in 1..h.count : \A c \in Cells : p[i] <= c /\ c < NextPos(m, p[i]) => w[c] = m[c],
         \A c \in Cells : k < h.count /\ h.tail <= c => w[c] = m[c],
         Norm(w, NextPos(m, p[h.count])) = at, Whole(w, at),
         a.sealed = TRUE, a.count = h.count + 1, a.tail = h.tail, a.last = at, a.head = NextPos(w, at),
         \/ j = h.count + 1 /\ k = h.count /\ at = NextPos(m, p[h.count])
         \/ /\ j = k /\ a.head <= h.tail
            /\ (k < h.count /\ at = NextPos(m, p[h.count])) \/ (k = h.count /\ at = DStart)
  PROVE  Ring(w, a, Onto(p, h.count, at), j)
<1> DEFINE n == h.count
           q == Onto(p, n, at)
<1>0. /\ n \in Nat \ {0} /\ k \in 0..n /\ k \in Nat /\ n \in 1..n /\ DStart \in Nat
      /\ h.tail \in Nat /\ h.tail \in DStart..RingCap
  BY RingOrder, RingNumbers, HeaderFacts
<1>1. \A i \in 1..n : /\ p[i] \in Nat /\ NextPos(m, p[i]) \in Nat /\ p[i] < NextPos(m, p[i])
                      /\ p[i] \in Cells /\ NextPos(m, p[i]) \in DStart..RingCap /\ Whole(m, p[i])
  BY RingOrder, RingNumbers
<1>2. ASSUME NEW i \in 1..n PROVE w[p[i]] = m[p[i]] /\ NextPos(w, p[i]) = NextPos(m, p[i]) /\ Whole(w, p[i])
  <2>1. w[p[i]] = m[p[i]]
    BY <1>1
  <2>2. NextPos(w, p[i]) = NextPos(m, p[i])
    BY <2>1 DEF NextPos
  <2>3. ASSUME NEW c \in (p[i] + 1)..(p[i] + m[p[i]].size - 1) PROVE w[c] = Text(m[p[i]].id)
    <3>1. m[p[i]].size \in Nat
      <4>1. m[p[i]].size \in Sizes
        BY <1>1, WholeRecord
      <4> QED BY <4>1, RingNumbers
    <3>2. p[i] <= c /\ c < NextPos(m, p[i]) /\ c \in Cells
      BY <1>1, <2>3, <3>1, RingNumbers DEF NextPos
    <3>3. m[c] = Text(m[p[i]].id)
      BY <1>1, <2>3 DEF Whole
    <3> QED BY <3>2, <3>3
  <2>4. w[p[i]].kind = "entry" /\ p[i] + w[p[i]].size <= RingCap
    BY <1>1, <2>1 DEF Whole
  <2> QED BY <2>1, <2>2, <2>3, <2>4 DEF Whole
<1>3. \A i \in 1..n : q[i] = p[i] /\ i \in 1..(n + 1) /\ i # n + 1
  BY <1>0 DEF Onto
<1>4. q[n + 1] = at /\ n + 1 \in 1..(n + 1) /\ n + 1 - 1 = n /\ n + 1 # 1
  BY <1>0 DEF Onto
<1>5. q \in [1..(n + 1) -> Cells]
  <2>1. ASSUME NEW i \in 1..(n + 1) PROVE (IF i = n + 1 THEN at ELSE p[i]) \in Cells
    <3>1. i = n + 1 \/ i \in 1..n
      BY <1>0
    <3> HIDE DEF n
    <3> QED BY <1>1, <3>1
  <2> HIDE DEF n
  <2> QED BY <2>1 DEF Onto
<1> HIDE DEF q
<1>6. ASSUME NEW i \in 1..n
      PROVE  p[i] = Norm(w, IF i = 1 THEN h.tail ELSE NextPos(w, p[i - 1]))
  <2> DEFINE t == IF i = 1 THEN h.tail ELSE NextPos(m, p[i - 1])
  <2>0. i # 1 => i - 1 \in 1..n /\ i - 1 \in 1..(n - 1) /\ (i - 1) + 1 = i
    BY <1>0
  <2>1. p[i] = Norm(m, t)
    BY DEF Ring, Chain
  <2>2. t = (IF i = 1 THEN h.tail ELSE NextPos(w, p[i - 1]))
    BY <1>2, <2>0
  <2>3. t \in DStart..RingCap
    BY <1>0, <1>1, <2>0
  <2>4. t = p[i] \/ (k < n /\ h.tail <= t)
    <3>1. CASE i = 1
      <4>1. k # 0 => p[1] = h.tail
        BY DEF Ring
      <4> QED BY <1>0, <3>1, <4>1
    <3>2. CASE i # 1
      <4>1. i - 1 # k => p[i] = t
        BY <2>0, <3>2 DEF Ring
      <4>2. i - 1 = k => k < n /\ k \in 1..k
        BY <1>0, <2>0, <3>2
      <4>3. i - 1 = k => h.tail <= p[k] /\ t = NextPos(m, p[k]) /\ k \in 1..n
        BY <2>0, <3>2, <4>2, RingOrder
      <4> HIDE DEF t
      <4> QED BY <1>0, <1>1, <4>1, <4>2, <4>3
    <3> QED BY <3>1, <3>2
  <2> HIDE DEF t
  <2>5. t \in Cells \/ t + Ent > RingCap
    BY <2>3, RingNumbers
  <2>6. CASE t = p[i]
    <3>1. w[t] = m[t]
      BY <1>2, <2>6
    <3> QED BY <2>1, <2>2, <3>1 DEF Norm
  <2>7. CASE k < n /\ h.tail <= t
    <3>1. t \in Cells => w[t] = m[t]
      BY <2>7
    <3> QED BY <2>1, <2>2, <2>5, <3>1 DEF Norm
  <2> QED BY <2>4, <2>6, <2>7
<1>7. Chain(w, a.tail, n + 1, q)
  <2>1. ASSUME NEW i \in 1..(n + 1)
        PROVE  q[i] = Norm(w, IF i = 1 THEN a.tail ELSE NextPos(w, q[i - 1]))
    <3>1. CASE i = n + 1
      <4>1. i # 1 /\ q[i - 1] = p[n] /\ q[i] = at
        BY <1>0, <1>3, <1>4, <3>1
      <4> QED BY <1>0, <1>2, <4>1
    <3>2. CASE i # n + 1
      <4>1. i \in 1..n /\ (i # 1 => i - 1 \in 1..n)
        BY <1>0, <3>2
      <4>2. q[i] = p[i] /\ (i # 1 => q[i - 1] = p[i - 1])
        BY <1>3, <4>1
      <4> QED BY <1>6, <4>1, <4>2
    <3> QED BY <3>1, <3>2
  <2> QED BY <1>5, <2>1 DEF Chain
<1>8. AllWhole(w, n + 1, q)
  <2>1. \A i \in 1..(n + 1) : i = n + 1 \/ i \in 1..n
    BY <1>0
  <2> QED BY <1>2, <1>3, <1>4, <2>1 DEF AllWhole
<1>9. j \in 0..(n + 1)
  BY <1>0
<1>10. ASSUME j # 0 PROVE q[1] = a.tail
  <2>1. k # 0 /\ 1 \in 1..n
    BY <1>0, <1>10
  <2> QED BY <1>3, <2>1 DEF Ring
<1>11. ASSUME NEW i \in 1..n, i # j PROVE q[i + 1] = NextPos(w, q[i])
  <2>1. CASE i = n
    <3>1. at = NextPos(m, p[n])
      BY <1>0, <1>11, <2>1
    <3> QED BY <1>0, <1>2, <1>3, <1>4, <2>1, <3>1
  <2>2. CASE i # n
    <3>1. i # k /\ i \in 1..(n - 1) /\ i + 1 \in 1..n
      BY <1>0, <1>11, <2>2
    <3>2. p[i + 1] = NextPos(m, p[i])
      BY <3>1 DEF Ring
    <3> QED BY <1>2, <1>3, <3>1, <3>2
  <2> QED BY <2>1, <2>2
<1>12. ASSUME j < n + 1 PROVE q[j + 1] = DStart /\ NextPos(w, q[n + 1]) <= a.tail /\ a.head = NextPos(w, q[n + 1])
  <2>1. j = k /\ a.head <= h.tail
    BY <1>0, <1>12
  <2>2. CASE k < n
    <3>1. p[k + 1] = DStart /\ k + 1 \in 1..n
      BY <1>0, <2>2 DEF Ring
    <3> QED BY <1>3, <1>4, <2>1, <3>1
  <2>3. CASE k = n
    BY <1>0, <1>4, <2>1, <2>3
  <2> QED BY <1>0, <2>2, <2>3
<1>13. a.last = q[n + 1] /\ a.head = NextPos(w, q[n + 1]) /\ n + 1 # 0 /\ n + 1 - 1 = n
  BY <1>0, <1>4
<1>14. a.count = n + 1
  OBVIOUS
<1>15. Ring(w, a, q, j)
  <2> HIDE DEF n
  <2>0. a.count - 1 = n
    BY <1>0, <1>14
  <2>1. \A i \in 1..(a.count - 1) : i # j => q[i + 1] = NextPos(w, q[i])
    BY <1>11, <2>0
  <2>2. j < a.count => q[j + 1] = DStart /\ NextPos(w, q[a.count]) <= a.tail /\ a.head = NextPos(w, q[a.count])
    BY <1>12, <1>14
  <2>3. Chain(w, a.tail, a.count, q) /\ AllWhole(w, a.count, q) /\ a.last = q[a.count] /\ j \in 0..a.count /\ a.count # 0
    BY <1>7, <1>8, <1>9, <1>13, <1>14
  <2>4. a.head = NextPos(w, q[a.count])
    BY <1>13, <1>14
  <2> QED BY <1>10, <2>1, <2>2, <2>3, <2>4 DEF Ring
<1> QED BY <1>15 DEF q

(* A record written into the room findSpace() found after those of h.        *)
Pushed(m, h, at, r, z) == Written(MarkWrap(m, h, z), at, r, z)
Counted(h, at, z) == [h EXCEPT !.head = at + z, !.last = at, !.count = h.count + 1]

LEMMA WrittenWhole ==
  ASSUME NEW m \in Memory, NEW h \in Header, NEW z \in Sizes, NEW at \in Cells, at + z <= RingCap,
         NEW r \in Record
  PROVE  /\ Pushed(m, h, at, r, z) \in Memory
         /\ Pushed(m, h, at, r, z)[at] = Entry(r, z) /\ Whole(Pushed(m, h, at, r, z), at)
         /\ NextPos(Pushed(m, h, at, r, z), at) = at + z
         /\ \A c \in Cells : c < at \/ at + z <= c => Pushed(m, h, at, r, z)[c] = MarkWrap(m, h, z)[c]
         /\ \A c \in Cells : at < c /\ c < at + z => Pushed(m, h, at, r, z)[c] = Text(r)
<1> DEFINE v == MarkWrap(m, h, z)
           w == Pushed(m, h, at, r, z)
<1>0. z \in Nat /\ at \in Nat /\ r \in 0..MaxPush /\ 1 <= z /\ Ent \in Nat /\ Ent >= 1 /\ Ent <= z /\ RingCap \in Nat
  BY RingNumbers DEF Record
<1>1. Wrap \in Cell /\ Text(r) \in Cell /\ Entry(r, z) \in Cell
  <2>1. MaxPush \in Nat
    BY RingNumbers
  <2> QED BY <1>0, <2>1 DEF Wrap, Text, Entry, Cell, CellKind
<1>2. v \in Memory
  BY <1>1 DEF MarkWrap, Memory
<1> HIDE DEF v
<1>3. w = [c \in Cells |-> IF c = at THEN Entry(r, z) ELSE IF c \in (at + 1)..(at + z - 1) THEN Text(r) ELSE v[c]]
  BY DEF Pushed, Written, v
<1> HIDE DEF w
<1>4. w \in Memory
  BY <1>1, <1>2, <1>3 DEF Memory
<1>5. w[at] = Entry(r, z)
  BY <1>3
<1>6. \A c \in Cells : c < at \/ at + z <= c => w[c] = v[c]
  BY <1>0, <1>3, RingNumbers
<1>7. \A c \in Cells : at < c /\ c < at + z => w[c] = Text(r)
  BY <1>0, <1>3, RingNumbers
<1>8. w[at].kind = "entry" /\ w[at].size = z /\ w[at].id = r
  BY <1>5 DEF Entry
<1>9. NextPos(w, at) = at + z
  BY <1>8 DEF NextPos
<1>10. Whole(w, at)
  <2>1. ASSUME NEW c \in (at + 1)..(at + z - 1) PROVE w[c] = Text(r)
    <3>1. c \in Cells /\ at < c /\ c < at + z
      BY <1>0, RingNumbers
    <3> QED BY <1>7, <3>1
  <2> QED BY <1>8, <2>1 DEF Whole
<1> QED BY <1>4, <1>5, <1>6, <1>7, <1>9, <1>10 DEF w, v

LEMMA SpaceRoom ==
  ASSUME NEW m \in Memory, NEW h \in Header, Lay(m, h), NEW z \in Sizes, NEW at \in Space(h, z)
  PROVE  at \in Cells /\ at + z <= RingCap
<1>0. z \in Nat /\ Ent <= z /\ DStart + z <= RingCap /\ DStart \in Cells /\ Ent \in Nat /\ Ent >= 1 /\ RingCap \in Nat
  BY RingNumbers
<1>1. h.head \in DStart..RingCap /\ h.tail \in DStart..RingCap /\ h.head \in Nat /\ h.tail \in Nat
  BY HeaderFacts
<1>2. at = DStart \/ (at = h.head /\ (h.head + z <= RingCap \/ h.head + z < h.tail))
  BY DEF Space
<1> QED BY <1>0, <1>1, <1>2, RingNumbers

(* A push keeps the layout, and the records it does not drop.                *)
LEMMA PushLay ==
  ASSUME NEW m \in Memory, NEW h \in Header, Lay(m, h), NEW z \in Sizes, NEW at \in Space(h, z),
         NEW r \in Record
  PROVE  LET w == Pushed(m, h, at, r, z)
             a == Counted(h, at, z)
         IN  /\ w \in Memory /\ a \in Header /\ Lay(w, a) /\ a.count = h.count + 1
             /\ Places(w, a)[h.count + 1] = at
             /\ \A i \in 1..h.count : /\ Places(w, a)[i] = Places(m, h)[i]
                                      /\ w[Places(m, h)[i]] = m[Places(m, h)[i]]
<1> DEFINE w == Pushed(m, h, at, r, z)
           v == MarkWrap(m, h, z)
           a == Counted(h, at, z)
           n == h.count
<1>0. /\ z \in Nat /\ Ent <= z /\ DStart + z <= RingCap /\ DStart \in Cells /\ DStart \in Nat
      /\ Ent \in Nat /\ Ent >= 1 /\ RingCap \in Nat
      /\ h.head \in DStart..RingCap /\ h.tail \in DStart..RingCap /\ h.head \in Nat /\ h.tail \in Nat
      /\ n \in Nat
  BY RingNumbers, HeaderFacts
<1>1. at \in Cells /\ at + z <= RingCap /\ at \in Nat /\ at + z \in DStart..RingCap /\ at >= DStart
  <2>1. at \in Cells /\ at + z <= RingCap
    BY SpaceRoom
  <2> QED BY <1>0, <2>1, RingNumbers
<1>2. /\ w \in Memory /\ w[at] = Entry(r, z) /\ Whole(w, at) /\ NextPos(w, at) = at + z
      /\ \A c \in Cells : c < at \/ at + z <= c => w[c] = v[c]
  BY <1>1, WrittenWhole
<1>3. /\ a \in Header /\ a.head = at + z /\ a.last = at /\ a.count = n + 1
      /\ a.tail = h.tail /\ a.sealed = h.sealed
  <2>1. a = [h EXCEPT !.head = at + z, !.last = at, !.count = n + 1] /\ n + 1 \in Nat
    BY <1>0 DEF Counted
  <2> HIDE DEF a, n
  <2> QED BY <1>1, <2>1 DEF Header
<1>4. \A c \in Cells : v[c] = m[c] \/ (c = h.head /\ v[c] = Wrap /\ h.head > h.tail /\ h.head + z > RingCap)
  BY DEF MarkWrap, Memory
<1> HIDE DEF w, v, a
<1>5. CASE h = Empty
  <2>1. n = 0 /\ at = DStart /\ h.tail = DStart /\ h.sealed = TRUE
    BY <1>5 DEF Empty, Space
  <2> DEFINE q == [i \in 1..1 |-> DStart]
  <2>2. q[1] = DStart /\ 1 \in 1..1 /\ \A i \in 1..1 : i = 1
    OBVIOUS
  <2>3. q \in [1..1 -> Cells]
    BY <1>0
  <2> HIDE DEF q
  <2>4. Norm(w, DStart) = DStart
    BY <1>0 DEF Norm
  <2>5. Chain(w, a.tail, 1, q) /\ AllWhole(w, 1, q)
    BY <1>2, <1>3, <2>1, <2>2, <2>3, <2>4 DEF Chain, AllWhole
  <2>6. Ring(w, a, q, 1)
    <3>1. a.count = 1 /\ 1 \in 0..1 /\ a.head = NextPos(w, q[1]) /\ a.last = q[1] /\ q[1] = a.tail /\ a.sealed = TRUE
      BY <1>2, <1>3, <2>1, <2>2
    <3>2. \A i : ~(i \in 1..(1 - 1))
      OBVIOUS
    <3>3. ~(1 < 1)
      OBVIOUS
    <3> QED BY <2>5, <3>1, <3>2, <3>3 DEF Ring
  <2>7. Places(w, a) = q
    BY <1>2, <1>3, <2>6, LayQueue
  <2>8. \A i : ~(i \in 1..0)
    OBVIOUS
  <2> QED BY <1>2, <1>3, <2>1, <2>2, <2>6, <2>7, <2>8 DEF Lay, w, a
<1>6. ASSUME NEW p, NEW k, Ring(m, h, p, k)
      PROVE  /\ Lay(w, a)
             /\ Places(w, a)[n + 1] = at
             /\ \A i \in 1..n : Places(w, a)[i] = Places(m, h)[i] /\ w[Places(m, h)[i]] = m[Places(m, h)[i]]
  <2>1. n # 0 /\ n \in 1..n /\ k \in 0..n /\ k \in Nat /\ h.sealed = TRUE
    BY <1>0, <1>6, RingOrder DEF Ring
  <2>2. \A i \in 1..n : /\ p[i] \in Nat /\ NextPos(m, p[i]) \in Nat /\ p[i] < NextPos(m, p[i])
                        /\ p[i] \in Cells /\ NextPos(m, p[i]) \in DStart..RingCap
                        /\ (i > k => NextPos(m, p[i]) <= h.head) /\ (i <= k => h.tail <= p[i])
    <3>1. \A i \in 1..n : i <= k => i \in 1..k
      BY <2>1
    <3>2. \A i \in 1..n : i > k => NextPos(m, p[i]) <= h.head
      BY <1>6, RingHead
    <3>3. \A i \in 1..n : /\ p[i] < NextPos(m, p[i])
                          /\ p[i] \in Cells /\ NextPos(m, p[i]) \in DStart..RingCap
      BY <1>6, RingOrder
    <3>4. \A i \in 1..k : h.tail <= p[i]
      BY <1>6, RingOrder
    <3> QED BY <3>1, <3>2, <3>3, <3>4, RingNumbers
  <2> DEFINE q == Onto(p, n, at)
             Keeps == \A i \in 1..n : \A c \in Cells : p[i] <= c /\ c < NextPos(m, p[i]) => w[c] = m[c]
  <2>3. ASSUME Keeps, \E j : Ring(w, a, q, j)
        PROVE  /\ Lay(w, a)
               /\ Places(w, a)[n + 1] = at
               /\ \A i \in 1..n : Places(w, a)[i] = Places(m, h)[i] /\ w[Places(m, h)[i]] = m[Places(m, h)[i]]
    <3>1. Places(w, a) = q
      BY <1>2, <1>3, <2>3, LayQueue
    <3>2. q[n + 1] = at /\ \A i \in 1..n : q[i] = p[i]
      BY <2>1, <1>0 DEF Onto
    <3>3. \A i \in 1..n : w[p[i]] = m[p[i]]
      BY <2>2, <2>3
    <3>4. Places(m, h) = p
      BY <1>6, LayQueue
    <3> HIDE DEF q, Keeps
    <3> QED BY <2>3, <3>1, <3>2, <3>3, <3>4 DEF Lay
  <2>4. \/ h.head > h.tail /\ h.head + z <= RingCap /\ at = h.head
        \/ h.head > h.tail /\ h.head + z > RingCap /\ DStart + z < h.tail /\ at = DStart
        \/ h.head <= h.tail /\ h.head + z < h.tail /\ at = h.head
    BY <1>0, <2>1 DEF Space
  <2>5. CASE h.head > h.tail /\ h.head + z <= RingCap /\ at = h.head
    <3>1. k = n /\ h.head = NextPos(m, p[n])
      BY <1>6, <2>5, RingHead
    <3>2. \A i \in 1..n : NextPos(m, p[i]) <= h.head
      <4>1. ASSUME NEW i \in 1..n, i # n PROVE NextPos(m, p[i]) <= p[n]
        <5>1. i < n
          BY <1>0, <4>1
        <5> QED BY <1>0, <1>6, <2>1, <3>1, <5>1, RingOrder
      <4>2. p[n] < NextPos(m, p[n]) /\ p[n] \in Nat /\ NextPos(m, p[n]) \in Nat
        BY <2>1, <2>2
      <4> QED BY <2>2, <3>1, <4>1, <4>2
    <3>3. Keeps
      BY <1>0, <1>2, <1>4, <2>2, <2>5, <3>2, RingNumbers
    <3>4. Norm(w, NextPos(m, p[n])) = at
      BY <1>0, <1>2, <2>5, <3>1 DEF Norm, Entry
    <3>5. Ring(w, a, q, n + 1)
      <4>1. ~(k < h.count)
        BY <1>0, <3>1
      <4> QED BY <1>1, <1>2, <1>3, <1>6, <2>1, <2>5, <3>1, <3>3, <3>4, <4>1, PushOnto
    <3> HIDE DEF q, Keeps
    <3> QED BY <2>3, <3>3, <3>5
  <2>6. CASE h.head > h.tail /\ h.head + z > RingCap /\ DStart + z < h.tail /\ at = DStart
    <3>1. k = n /\ h.head = NextPos(m, p[n])
      BY <1>6, <2>6, RingHead
    <3>2. \A i \in 1..n : NextPos(m, p[i]) <= h.head
      <4>1. ASSUME NEW i \in 1..n, i # n PROVE NextPos(m, p[i]) <= p[n]
        <5>1. i < n
          BY <1>0, <4>1
        <5> QED BY <1>0, <1>6, <2>1, <3>1, <5>1, RingOrder
      <4>2. p[n] < NextPos(m, p[n]) /\ p[n] \in Nat /\ NextPos(m, p[n]) \in Nat
        BY <2>1, <2>2
      <4> QED BY <2>2, <3>1, <4>1, <4>2
    <3>3. Keeps
      <4>1. ASSUME NEW i \in 1..n, NEW c \in Cells, p[i] <= c, c < NextPos(m, p[i]) PROVE w[c] = m[c]
        <5>1. h.tail <= p[i]
          BY <1>0, <2>1, <2>2, <3>1
        <5>2. at + z <= c /\ c # h.head
          BY <1>0, <2>2, <2>6, <3>2, <4>1, <5>1, RingNumbers
        <5> QED BY <1>2, <1>4, <5>2
      <4> QED BY <4>1
    <3>4. Norm(w, NextPos(m, p[n])) = at
      <4>1. CASE h.head + Ent > RingCap
        BY <2>6, <3>1, <4>1 DEF Norm
      <4>2. CASE h.head + Ent <= RingCap
        <5>1. h.head \in Cells /\ at + z <= h.head
          BY <1>0, <2>6, <4>2, RingNumbers
        <5>2. v[h.head] = Wrap
          BY <1>0, <2>1, <2>6, <4>2, <5>1 DEF v, MarkWrap, Memory
        <5>3. w[h.head].kind = "wrap"
          BY <1>2, <5>1, <5>2 DEF Wrap
        <5> QED BY <2>6, <3>1, <5>3 DEF Norm
      <4> QED BY <1>0, <4>1, <4>2
    <3>5. Ring(w, a, q, n)
      <4>1. ~(k < h.count)
        BY <1>0, <3>1
      <4>2. a.head <= h.tail
        BY <1>0, <1>3, <2>6
      <4> QED BY <1>1, <1>2, <1>3, <1>6, <2>1, <2>6, <3>1, <3>3, <3>4, <4>1, <4>2, PushOnto
    <3> HIDE DEF q, Keeps
    <3> QED BY <2>3, <3>3, <3>5
  <2>7. CASE h.head <= h.tail /\ h.head + z < h.tail /\ at = h.head
    <3>1. \A c \in Cells : c < at \/ h.tail <= c => w[c] = m[c]
      BY <1>0, <1>1, <1>2, <1>4, <2>7, RingNumbers
    <3>2. k < n \/ (k = n /\ at = DStart)
      BY <1>6, <2>1, <2>7, RingHead
    <3>3. Keeps
      <4>1. ASSUME NEW i \in 1..n, NEW c \in Cells, p[i] <= c, c < NextPos(m, p[i]) PROVE w[c] = m[c]
        <5>1. c < at \/ h.tail <= c
          BY <1>0, <2>1, <2>2, <2>7, <4>1, RingNumbers
        <5> QED BY <3>1, <5>1
      <4> QED BY <4>1
    <3>4. Norm(w, NextPos(m, p[n])) = at /\ (k < n => at = NextPos(m, p[n]))
      <4>1. CASE k < n
        <5>1. h.head = NextPos(m, p[n])
          BY <1>6, <4>1 DEF Ring
        <5> QED BY <1>0, <1>1, <1>2, <2>7, <5>1 DEF Norm, Entry
      <4>2. CASE k = n /\ at = DStart
        <5>1. Norm(m, NextPos(m, p[n])) = DStart
          <6>1. h.tail < NextPos(m, p[n])
            BY <1>0, <2>1, <2>2, <4>2
          <6>2. h.head # NextPos(m, p[n])
            BY <1>0, <2>1, <2>2, <2>7, <6>1
          <6> QED BY <1>6, <4>2, <6>2 DEF Ring
        <5>2. h.tail <= NextPos(m, p[n])
          BY <1>0, <2>1, <2>2, <4>2
        <5>3. NextPos(m, p[n]) \in Cells \/ NextPos(m, p[n]) + Ent > RingCap
          BY <1>0, <2>1, <2>2, RingNumbers
        <5>4. NextPos(m, p[n]) \in Cells => w[NextPos(m, p[n])] = m[NextPos(m, p[n])]
          BY <3>1, <5>2
        <5>5. Norm(w, NextPos(m, p[n])) = Norm(m, NextPos(m, p[n]))
          BY <5>3, <5>4 DEF Norm
        <5>6. ~(k < n)
          BY <1>0, <4>2
        <5> QED BY <4>2, <5>1, <5>5, <5>6
      <4> QED BY <3>2, <4>1, <4>2
    <3>5. Ring(w, a, q, k)
      <4>1. a.head <= h.tail
        BY <1>0, <1>3, <2>7
      <4>2. \A c \in Cells : k < h.count /\ h.tail <= c => w[c] = m[c]
        BY <3>1
      <4>3. (k < n /\ at = NextPos(m, p[n])) \/ (k = n /\ at = DStart)
        BY <3>2, <3>4
      <4>4. /\ at \in Cells /\ Norm(w, NextPos(m, p[n])) = at /\ Whole(w, at) /\ w \in Memory
            /\ a \in Header /\ a.sealed = TRUE /\ a.count = n + 1 /\ a.tail = h.tail /\ a.last = at
            /\ a.head = NextPos(w, at)
        BY <1>1, <1>2, <1>3, <2>1, <3>4
      <4> HIDE DEF q
      <4>5. Ring(w, a, Onto(p, h.count, at), k)
        BY <1>6, <3>3, <4>1, <4>2, <4>3, <4>4, PushOnto
      <4> QED BY <4>5 DEF q
    <3> HIDE DEF q, Keeps
    <3> QED BY <2>3, <3>3, <3>5
  <2> HIDE DEF q, Keeps
  <2> QED BY <2>4, <2>5, <2>6, <2>7
<1>7. CASE h # Empty
  <2>1. PICK p, k : Ring(m, h, p, k)
    BY <1>7 DEF Lay
  <2> QED BY <1>2, <1>3, <1>6, <2>1 DEF w, a
<1> QED BY <1>5, <1>7

-----------------------------------------------------------------------------
(* Restarts.                                                                 *)

(* The end of the walk.                                                      *)
LEMMA WalkIs ==
  ASSUME NEW m \in Memory, NEW h \in Header, NEW n \in 0..h.count, NEW p,
         Chain(m, h.tail, n, p), AllWhole(m, n, p),
         n < h.count => ~Whole(m, Norm(m, Slot(m, h.tail, n, p)))
  PROVE  /\ Walk(m, h).n = n
         /\ n # 0 => /\ Walk(m, h).last = p[n]
                     /\ Walk(m, h).pos = IF n = h.count THEN NextPos(m, p[n]) ELSE Norm(m, NextPos(m, p[n]))
         /\ \A i \in 1..n : Steps(m, h)[i].last = p[i]
         /\ Steps(m, h)[h.count].n = n
<1>1. Steps(m, h) = StepsAlong(m, h, n, p)
  BY StepsAre
<1>2. h.count \in Nat /\ h.count \in 0..h.count /\ n \in Nat /\ (n < h.count \/ n = h.count)
  BY HeaderFacts
<1>3. Walk(m, h) = StepsAlong(m, h, n, p)[h.count]
  BY <1>1 DEF Walk
<1>4. CASE n = h.count
  <2>1. StepsAlong(m, h, n, p)[h.count]
        = [pos |-> Slot(m, h.tail, n, p), last |-> IF n = 0 THEN h.tail ELSE p[n], n |-> n, on |-> TRUE]
    BY <1>2, <1>4 DEF StepsAlong
  <2> QED BY <1>1, <1>2, <1>3, <1>4, <2>1 DEF Slot, StepsAlong
<1>5. CASE n < h.count
  <2>1. StepsAlong(m, h, n, p)[h.count]
        = [pos |-> Norm(m, Slot(m, h.tail, n, p)), last |-> IF n = 0 THEN h.tail ELSE p[n], n |-> n, on |-> FALSE]
    BY <1>2, <1>5 DEF StepsAlong
  <2>2. \A i \in 1..n : Steps(m, h)[i].last = p[i]
    BY <1>1, <1>2 DEF StepsAlong
  <2> QED BY <1>1, <1>2, <1>3, <1>5, <2>1, <2>2 DEF Slot
<1> QED BY <1>2, <1>4, <1>5

LEMMA ValidatedHeader ==
  ASSUME NEW m \in Memory, NEW h \in Header, NEW n \in 1..h.count, NEW p,
         Chain(m, h.tail, n, p), AllWhole(m, n, p), Walk(m, h).n = n, Walk(m, h).last = p[n],
         Walk(m, h).pos \in DStart..RingCap, Valid(h)
  PROVE  /\ Validated(m, h) \in Header
         /\ Validated(m, h) = [head |-> Walk(m, h).pos, tail |-> h.tail, count |-> n, last |-> p[n], sealed |-> TRUE]
<1>1. Validated(m, h) = [head |-> Walk(m, h).pos, tail |-> h.tail, count |-> n, last |-> p[n], sealed |-> TRUE]
  <2>1. n # 0
    BY HeaderFacts
  <2> QED BY <2>1 DEF Validated
<1>2. n \in Nat /\ p[n] \in Cells /\ h.tail \in DStart..RingCap
  BY HeaderFacts DEF Chain
<1> QED BY <1>1, <1>2 DEF Header

(* Between two operations, the walk finds the records the header counts.     *)
LEMMA CleanWalk ==
  ASSUME NEW m \in Memory, NEW h \in Header, Lay(m, h)
  PROVE  /\ Validated(m, h) \in Header /\ Lay(m, Validated(m, h))
         /\ h.head < RingCap /\ h.tail < RingCap =>
              Validated(m, h).count = h.count /\ QueueOf(m, Validated(m, h)) = QueueOf(m, h)
         /\ \/ Validated(m, h) = Empty
            \/ Validated(m, h).count = h.count /\ QueueOf(m, Validated(m, h)) = QueueOf(m, h)
<1>1. CASE h = Empty
  <2>1. h.count = 0 /\ 0 \in 0..h.count /\ ~(0 < 0) /\ \A i : ~(i \in 1..0)
    BY <1>1 DEF Empty
  <2>2. Chain(m, h.tail, 0, [i \in 1..0 |-> DStart]) /\ AllWhole(m, 0, [i \in 1..0 |-> DStart])
    BY <2>1 DEF Chain, AllWhole
  <2>3. Walk(m, h).n = 0
    <3> DEFINE q == [i \in 1..0 |-> DStart]
    <3> HIDE DEF q
    <3>1. Chain(m, h.tail, 0, q) /\ AllWhole(m, 0, q)
      BY <2>2 DEF q
    <3> QED BY <2>1, <3>1, WalkIs
  <2>4. Validated(m, h) = Empty
    BY <2>3 DEF Validated
  <2> QED BY <1>1, <2>4, HeaderFacts
<1>2. ASSUME Validated(m, h) = Empty
      PROVE  Validated(m, h) \in Header /\ Lay(m, Validated(m, h))
  BY <1>2, HeaderFacts DEF Lay
<1>3. ASSUME NEW p, NEW k, Ring(m, h, p, k), Valid(h)
      PROVE  /\ Validated(m, h) \in Header /\ Lay(m, Validated(m, h))
             /\ Validated(m, h).count = h.count /\ QueueOf(m, Validated(m, h)) = QueueOf(m, h)
  <2> DEFINE n == h.count
             v == Validated(m, h)
  <2>1. /\ n \in 0..h.count /\ n \in 1..h.count /\ n # 0 /\ ~(n < h.count)
        /\ Chain(m, h.tail, n, p) /\ AllWhole(m, n, p)
    <3>1. n \in Nat \ {0}
      BY <1>3, RingOrder
    <3> QED BY <1>3, <3>1 DEF Ring
  <2>2. Walk(m, h).n = n /\ Walk(m, h).last = p[n] /\ Walk(m, h).pos = NextPos(m, p[n])
    BY <2>1, WalkIs
  <2>3. NextPos(m, p[n]) \in DStart..RingCap
    BY <1>3, <2>1, RingOrder
  <2>4. /\ v \in Header /\ v.head = NextPos(m, p[n]) /\ v.tail = h.tail
        /\ v.count = n /\ v.last = p[n] /\ v.sealed = TRUE
    <3>1. Walk(m, h).pos \in DStart..RingCap
      BY <2>2, <2>3
    <3>2. /\ v \in Header /\ v.head = Walk(m, h).pos /\ v.tail = h.tail
          /\ v.count = n /\ v.last = p[n] /\ v.sealed = TRUE
      <4> HIDE DEF n
      <4>1. v \in Header
        BY <1>3, <2>1, <2>2, <3>1, ValidatedHeader
      <4>2. v = [head |-> Walk(m, h).pos, tail |-> h.tail, count |-> n, last |-> p[n], sealed |-> TRUE]
        BY <1>3, <2>1, <2>2, <3>1, ValidatedHeader
      <4> HIDE DEF v
      <4> QED BY <4>1, <4>2
    <3> HIDE DEF v
    <3> QED BY <2>2, <3>2
  <2> HIDE DEF v
  <2>5. Ring(m, v, p, k)
    BY <1>3, <2>4 DEF Ring
  <2>6. QueueOf(m, v) = [i \in 1..n |-> m[p[i]].id] /\ QueueOf(m, h) = [i \in 1..n |-> m[p[i]].id]
    BY <1>3, <2>4, <2>5, LayQueue
  <2> QED BY <2>4, <2>5, <2>6 DEF Lay, v
<1>4. ASSUME h # Empty, Valid(h)
      PROVE  /\ Validated(m, h) \in Header /\ Lay(m, Validated(m, h))
             /\ Validated(m, h).count = h.count /\ QueueOf(m, Validated(m, h)) = QueueOf(m, h)
  BY <1>3, <1>4 DEF Lay
<1>5. ~Valid(h) => Validated(m, h) = Empty
  BY DEF Validated
<1>6. h # Empty => h.sealed = TRUE
  BY DEF Lay, Ring
<1> QED BY <1>1, <1>2, <1>4, <1>5, <1>6 DEF Valid

(* Over any bytes, what the walk finds lies in order, unless it comes round  *)
(* to where it began.                                                        *)
LEMMA WalkLay ==
  ASSUME NEW m \in Memory, NEW h \in Header, ~Laps(m, h)
  PROVE  Validated(m, h) \in Header /\ Lay(m, Validated(m, h))
<1>0. PICK n \in 0..h.count : \E p :
        /\ Chain(m, h.tail, n, p) /\ AllWhole(m, n, p)
        /\ n < h.count => ~Whole(m, Norm(m, Slot(m, h.tail, n, p)))
  BY LongestChain
<1>1. PICK p : /\ Chain(m, h.tail, n, p) /\ AllWhole(m, n, p)
               /\ n < h.count => ~Whole(m, Norm(m, Slot(m, h.tail, n, p)))
  BY <1>0
<1>2. /\ Walk(m, h).n = n /\ Steps(m, h)[h.count].n = n
      /\ n # 0 => /\ Walk(m, h).last = p[n]
                  /\ Walk(m, h).pos = IF n = h.count THEN NextPos(m, p[n]) ELSE Norm(m, NextPos(m, p[n]))
      /\ \A i \in 1..n : Steps(m, h)[i].last = p[i]
  BY <1>1, WalkIs
<1>3. CASE ~Valid(h) \/ n = 0
  <2>1. Validated(m, h) = Empty
    BY <1>2, <1>3 DEF Validated
  <2> QED BY <2>1, HeaderFacts DEF Lay
<1>4. CASE Valid(h) /\ n # 0
  <2> DEFINE t == h.tail
             next == [i \in 1..n |-> NextPos(m, p[i])]
             v == Validated(m, h)
  <2>0. /\ n \in Nat \ {0} /\ n \in 1..n /\ 1 \in 1..n /\ n \in 1..h.count
        /\ t \in Nat /\ t \in DStart..RingCap /\ DStart <= t /\ DStart \in Nat
    BY <1>4, HeaderFacts, RingNumbers
  <2>1. \A i \in 1..n : /\ p[i] \in Cells /\ Whole(m, p[i]) /\ p[i] \in Nat /\ next[i] = NextPos(m, p[i])
                        /\ NextPos(m, p[i]) \in DStart..RingCap /\ NextPos(m, p[i]) \in Nat /\ p[i] < next[i]
    <3>1. ASSUME NEW i \in 1..n PROVE p[i] \in Cells /\ Whole(m, p[i])
      BY <1>1 DEF Chain, AllWhole
    <3> QED BY <3>1, WholeRecord, RingNumbers
  <2> HIDE DEF next
  <2>2. /\ p[1] = Norm(m, t)
        /\ \A i \in 1..(n - 1) : i \in 1..n /\ i + 1 \in 1..n /\ i + 1 # 1 /\ p[i + 1] = Norm(m, next[i])
    <3>1. p[1] = Norm(m, t)
      BY <1>1, <2>0 DEF Chain
    <3>2. ASSUME NEW i \in 1..(n - 1)
          PROVE i \in 1..n /\ i + 1 \in 1..n /\ i + 1 # 1 /\ p[i + 1] = Norm(m, next[i])
      <4>1. i \in 1..n /\ i + 1 \in 1..n /\ i + 1 # 1 /\ i + 1 - 1 = i
        BY <2>0
      <4> QED BY <1>1, <2>1, <4>1 DEF Chain
    <3> QED BY <3>1, <3>2
  <2>3. /\ \A i \in 1..n : ~(p[i] < t /\ next[i] > t)
        /\ \A i, j \in 1..n : i < j => p[i] # p[j]
    <3>1. ASSUME NEW i \in 1..n PROVE ~(p[i] < t /\ next[i] > t)
      BY <1>2, <2>1 DEF Laps
    <3>2. ASSUME NEW i \in 1..n, NEW j \in 1..n, i < j PROVE p[i] # p[j]
      <4>1. i \in 1..(j - 1)
        BY <2>0, <3>2
      <4> QED BY <1>2, <4>1 DEF Laps
    <3> QED BY <3>1, <3>2
  <2> DEFINE T == {i \in 1..n : p[i] = DStart /\ (i # 1 \/ t # DStart)}
             Split(k) == /\ k \in 0..n /\ (k < n => k + 1 \in T) /\ \A i \in T : k + 1 <= i
  <2>4. PICK k : Split(k)
    <3>1. CASE T = {}
      <4>1. Split(n)
        BY <2>0, <3>1
      <4> HIDE DEF Split
      <4> QED BY <4>1
    <3>2. CASE T # {}
      <4>1. PICK i \in T : \A j \in T : i <= j
        <5>1. T \in SUBSET Nat
          BY <2>0
        <5> HIDE DEF T
        <5> QED BY <3>2, <5>1, LeastNatural
      <4>2. i \in 1..n /\ i - 1 \in 0..n /\ i - 1 + 1 = i
        BY <2>0, <4>1
      <4>3. Split(i - 1)
        <5> HIDE DEF T
        <5> QED BY <4>1, <4>2
      <4> HIDE DEF Split
      <4> QED BY <4>3
    <3> QED BY <3>1, <3>2
  <2>5. k \in 0..n /\ k \in Nat /\ (k < n => k + 1 \in T) /\ \A i \in T : k + 1 <= i
    BY <2>0, <2>4
  <2>6. k # 0 => p[1] = t
    <3>1. p[1] = DStart \/ p[1] = t
      BY <2>2 DEF Norm
    <3>2. k # 0 => ~(1 \in T)
      BY <2>5
    <3> QED BY <2>0, <3>1, <3>2
  <2>7. ASSUME NEW i \in 1..(n - 1), i # k PROVE p[i + 1] = next[i]
    <3>1. p[i + 1] = DStart \/ p[i + 1] = next[i]
      BY <2>2 DEF Norm
    <3>2. ASSUME p[i + 1] = DStart PROVE FALSE
      <4>1. i + 1 \in T
        BY <2>2, <3>2
      <4>2. k + 1 < i + 1 /\ k < n /\ k + 1 \in 1..n
        BY <2>0, <2>5, <2>7, <4>1
      <4>3. p[k + 1] = DStart
        BY <2>5, <4>2
      <4> QED BY <2>2, <2>3, <3>2, <4>2, <4>3
    <3> QED BY <3>1, <3>2
  <2>8. ASSUME k < n PROVE p[k + 1] = DStart /\ \A i \in (k + 1)..n : next[i] <= t
    <3>0. p[k + 1] = DStart /\ k + 1 \in 1..n /\ (k + 1 # 1 \/ t # DStart)
      BY <2>5, <2>8
    <3> DEFINE S == {d \in Nat : k + 1 + d <= n => p[k + 1 + d] < t /\ next[k + 1 + d] <= t}
    <3>1. 0 \in S
      <4>1. t # DStart
        <5>1. k # 0 => p[1] # p[k + 1]
          BY <2>0, <2>3, <2>5, <3>0
        <5> QED BY <2>6, <3>0, <5>1
      <4>2. k + 1 + 0 = k + 1 /\ p[k + 1] < t
        BY <2>0, <2>5, <3>0, <4>1
      <4>3. next[k + 1] <= t
        BY <2>0, <2>1, <2>3, <3>0, <4>2
      <4> QED BY <4>2, <4>3
    <3>2. ASSUME NEW d \in S PROVE d + 1 \in S
      <4> SUFFICES ASSUME k + 1 + (d + 1) <= n PROVE p[k + 1 + (d + 1)] < t /\ next[k + 1 + (d + 1)] <= t
        OBVIOUS
      <4> DEFINE i == k + 1 + d
      <4>1. i \in 1..(n - 1) /\ i # k /\ i + 1 = k + 1 + (d + 1) /\ i \in 1..n /\ i + 1 \in 1..n /\ 1 < i + 1
        BY <2>0, <2>5
      <4>2. p[i] < t /\ next[i] <= t
        BY <2>0, <2>5, <4>1
      <4> HIDE DEF i
      <4>3. p[i + 1] = next[i]
        BY <2>7, <4>1
      <4>4. p[i + 1] # t
        <5> SUFFICES ASSUME p[i + 1] = t PROVE FALSE
          OBVIOUS
        <5>1. p[i + 1] = p[1]
          BY <2>2, <4>1, <4>3
        <5> QED BY <2>0, <2>3, <4>1, <5>1
      <4>5. p[i + 1] < t
        BY <2>0, <2>1, <4>1, <4>2, <4>3, <4>4
      <4>6. next[i + 1] <= t
        BY <2>0, <2>1, <2>3, <4>1, <4>5
      <4> QED BY <4>1, <4>5, <4>6
    <3>3. S = Nat
      <4> HIDE DEF S
      <4> QED BY <3>1, <3>2, SetInduction DEF S
    <3>4. ASSUME NEW i \in (k + 1)..n PROVE next[i] <= t
      <4>1. i - (k + 1) \in Nat /\ k + 1 + (i - (k + 1)) = i /\ i <= n
        BY <2>0, <2>5
      <4>2. i - (k + 1) \in S
        BY <3>3, <4>1
      <4> QED BY <4>1, <4>2
    <3> QED BY <3>0, <3>4
  <2>9. Norm(m, next[n]) \in DStart..RingCap /\ (Norm(m, next[n]) = DStart \/ Norm(m, next[n]) = next[n])
    <3>1. next[n] \in DStart..RingCap
      BY <2>0, <2>1
    <3>2. Norm(m, next[n]) \in Cells
      BY <3>1, NormPlace
    <3> QED BY <3>1, <3>2, RingNumbers DEF Norm
  <2>10. Walk(m, h).pos = (IF n = h.count THEN next[n] ELSE Norm(m, next[n]))
    BY <1>2, <1>4, <2>0, <2>1
  <2>11. Walk(m, h).pos \in DStart..RingCap
    BY <2>0, <2>1, <2>9, <2>10
  <2>12. v \in Header /\ v.head = Walk(m, h).pos /\ v.tail = t /\ v.count = n /\ v.last = p[n] /\ v.sealed = TRUE
    <3>1. Walk(m, h).n = n /\ Walk(m, h).last = p[n] /\ Valid(h)
      BY <1>2, <1>4
    <3>2. v \in Header
      BY <1>1, <2>0, <2>11, <3>1, ValidatedHeader
    <3>3. v = [head |-> Walk(m, h).pos, tail |-> t, count |-> n, last |-> p[n], sealed |-> TRUE]
      BY <1>1, <2>0, <2>11, <3>1, ValidatedHeader
    <3> HIDE DEF v
    <3> QED BY <3>2, <3>3
  <2> HIDE DEF v, Split
  <2>13. CASE v.head = next[n]
    <3>1. k < n => NextPos(m, p[n]) <= t
      <4>1. k < n => n \in (k + 1)..n
        BY <2>0, <2>5
      <4> QED BY <2>0, <2>1, <2>8, <4>1
    <3>2. \A i \in 1..(n - 1) : i # k => p[i + 1] = NextPos(m, p[i])
      BY <2>1, <2>2, <2>7
    <3>3. v.head = NextPos(m, p[n])
      BY <2>0, <2>1, <2>13
    <3> HIDE DEF T
    <3>4. Ring(m, v, p, k)
      BY <1>1, <2>0, <2>5, <2>6, <2>8, <2>12, <3>1, <3>2, <3>3 DEF Ring
    <3> QED BY <2>12, <3>4 DEF Lay, v
  <2>14. CASE v.head # next[n]
    <3>1. n # h.count /\ v.head = DStart /\ Norm(m, next[n]) = DStart
      BY <2>9, <2>10, <2>12, <2>14
    <3>2. ~Whole(m, DStart)
      <4>1. n < h.count
        BY <2>0, <3>1, HeaderFacts
      <4>2. Slot(m, h.tail, n, p) = next[n]
        BY <2>0, <2>1 DEF Slot
      <4> QED BY <1>1, <3>1, <4>1, <4>2
    <3>3. k = n
      <4> SUFFICES ASSUME k # n PROVE FALSE
        OBVIOUS
      <4>1. k < n /\ k + 1 \in 1..n
        BY <2>0, <2>5
      <4> QED BY <2>1, <2>8, <3>2, <4>1
    <3>4. DStart < t
      <4>1. p[1] = t /\ Whole(m, p[1])
        BY <2>0, <2>1, <2>6, <3>3
      <4> QED BY <2>0, <3>2, <4>1
    <3>5. \A i \in 1..(n - 1) : i # k => p[i + 1] = NextPos(m, p[i])
      BY <2>1, <2>2, <2>7
    <3>6. Norm(m, NextPos(m, p[n])) = DStart
      BY <2>0, <2>1, <3>1
    <3>7. ~(k < n)
      BY <2>0, <3>3
    <3> HIDE DEF T
    <3>8. Ring(m, v, p, k)
      BY <1>1, <2>0, <2>5, <2>6, <2>12, <3>1, <3>3, <3>4, <3>5, <3>6, <3>7 DEF Ring
    <3> QED BY <2>12, <3>8 DEF Lay, v
  <2> QED BY <2>13, <2>14
<1> QED BY <1>3, <1>4

-----------------------------------------------------------------------------
(* The steps.                                                                *)

LEMMA PlacesEntries ==
  ASSUME NEW m \in Memory, NEW h \in Header, Lay(m, h), NEW i \in 1..h.count
  PROVE  Places(m, h)[i] \in Cells /\ Whole(m, Places(m, h)[i]) /\ m[Places(m, h)[i]].kind = "entry"
<1>1. h # Empty
  BY DEF Empty
<1>2. PICK p, k : Ring(m, h, p, k)
  BY <1>1 DEF Lay
<1>3. p[i] \in Cells /\ Whole(m, p[i])
  BY <1>2, RingOrder
<1>4. Places(m, h) = p
  BY <1>2, LayQueue
<1> QED BY <1>3, <1>4 DEF Whole

LEMMA SomeSpace ==
  ASSUME NEW m \in Memory, NEW h \in Header, Lay(m, h), NEW z
  PROVE  \E k \in 0..h.count : /\ Space(WithoutOldest(m, h)[k], z) # {}
                               /\ \A j \in 0..(k - 1) : Space(WithoutOldest(m, h)[j], z) = {}
<1> DEFINE T == {k \in 0..h.count : Space(WithoutOldest(m, h)[k], z) # {}}
<1>1. h.count \in Nat /\ h.count \in 0..h.count
  BY HeaderFacts
<1>2. h.count \in T
  <2>1. WithoutOldest(m, h)[h.count] = Empty
    BY <1>1, WithoutLay
  <2>2. Space(Empty, z) # {}
    BY DEF Space, Empty
  <2> QED BY <1>1, <2>1, <2>2
<1>3. PICK k \in T : \A j \in T : k <= j
  <2>1. T \in SUBSET Nat /\ T # {}
    BY <1>1, <1>2
  <2> HIDE DEF T
  <2> QED BY <2>1, LeastNatural
<1>4. ASSUME NEW j \in 0..(k - 1) PROVE j \notin T /\ j \in 0..h.count
  <2>1. j \in Nat /\ k \in Nat /\ j < k /\ j \in 0..h.count
    BY <1>1, <1>3
  <2> HIDE DEF T
  <2> QED BY <1>3, <2>1
<1> QED BY <1>3, <1>4

(* txqOnAck() releases the confirmed records at the front.                   *)
LEMMA SomeRelease ==
  ASSUME NEW n \in Nat, NEW done
  PROVE  \E k \in 0..n : 1..k \subseteq done /\ (k < n => k + 1 \notin done)
<1> DEFINE Halts(k) == k < n => k + 1 \notin done
           T == {k \in 0..n : Halts(k)}
<1>1. n \in T
  OBVIOUS
<1>2. PICK k \in T : \A j \in T : k <= j
  <2> HIDE DEF Halts
  <2>1. T \in SUBSET Nat /\ T # {}
    BY <1>1
  <2> HIDE DEF T
  <2> QED BY <2>1, LeastNatural
<1>3. ASSUME NEW i \in 1..k PROVE i \in done
  <2>1. i - 1 \in 0..n /\ i - 1 < n /\ ~(k <= i - 1) /\ i - 1 + 1 = i
    BY <1>2
  <2>2. i - 1 \notin T
    BY <1>2, <2>1
  <2> QED BY <2>1, <2>2
<1> QED BY <1>2, <1>3

(* What every state of the reserve has: bytes and headers of their kinds,    *)
(* the records of the CPU's header in order.                                 *)
RingInv ==
  /\ mem \in Memory /\ chip \in Memory /\ hdr \in Header /\ chipHdr \in Header
  /\ Lay(mem, hdr)
  /\ busy \in BOOLEAN /\ pushed \in 0..MaxPush /\ resets \in 0..MaxReset

LEMMA RingPushStep ==
  ASSUME RingInv, NEW z \in Sizes, RingPush(z)
  PROVE  \E d \in 0..hdr.count : \E at :
           LET a == WithoutOldest(mem, hdr)[d]
           IN  /\ a \in Header /\ Lay(mem, a) /\ at \in Space(a, z) /\ pushed + 1 \in Record
               /\ mem' = Pushed(mem, a, at, pushed + 1, z) /\ hdr' = Counted(a, at, z)
<1> DEFINE left == WithoutOldest(mem, hdr)
           Room(k) == /\ Space(left[k], z) # {}
                      /\ \A j \in 0..(k - 1) : Space(left[j], z) = {}
           d == CHOOSE k \in 0..hdr.count : Room(k)
           at == CHOOSE p \in Space(left[d], z) : TRUE
<1>1. mem \in Memory /\ hdr \in Header /\ Lay(mem, hdr)
  BY DEF RingInv
<1>2. \E k \in 0..hdr.count : Room(k)
  BY <1>1, SomeSpace
<1>3. d \in 0..hdr.count /\ Space(left[d], z) # {}
  <2>1. d \in 0..hdr.count /\ Room(d)
    <3> HIDE DEF Room
    <3> QED BY <1>2
  <2> HIDE DEF d
  <2> QED BY <2>1
<1>4. /\ mem' = Pushed(mem, left[d], at, pushed + 1, z)
      /\ hdr' = Counted(left[d], at, z)
  BY DEF RingPush, Pushed, Counted
<1> HIDE DEF d
<1>5. at \in Space(left[d], z)
  BY <1>3
<1>6. pushed + 1 \in Record
  BY RingNumbers DEF RingPush, RingInv, Record
<1> HIDE DEF at
<1>7. left[d] \in Header /\ Lay(mem, left[d])
  BY <1>1, <1>3, WithoutLay
<1> QED BY <1>3, <1>4, <1>5, <1>6, <1>7

LEMMA SetStateSame ==
  ASSUME RingInv, NEW N \in SUBSET (1..hdr.count), NEW s \in {"pending", "inflight", "acked"}
  PROVE  SetState(N, s) \in Memory /\ Same(mem, SetState(N, s))
<1> DEFINE at == {Places(mem, hdr)[n] : n \in N}
<1>1. SetState(N, s) = Restate(mem, at, s)
  BY DEF SetState, Restate
<1>2. \A c \in at : mem[c].kind = "entry"
  BY PlacesEntries DEF RingInv
<1> HIDE DEF at
<1> QED BY <1>1, <1>2, RestateSame DEF RingInv

LEMMA BackSame ==
  ASSUME NEW m \in Memory, NEW h \in Header, Lay(m, h)
  PROVE  BackToPending(m, h) \in Memory /\ Same(m, BackToPending(m, h))
<1> DEFINE at == {c \in Cells : c \in {Places(m, h)[n] : n \in 1..h.count} /\ m[c].state = "inflight"}
<1>1. BackToPending(m, h) = Restate(m, at, "pending")
  BY DEF BackToPending, Restate
<1>2. \A c \in at : m[c].kind = "entry"
  BY PlacesEntries
<1> HIDE DEF at
<1> QED BY <1>1, <1>2, RestateSame

LEMMA AckStep ==
  ASSUME RingInv, RingAck
  PROVE  \E d \in 0..hdr.count : \E w \in Memory :
           /\ mem' = w /\ Same(mem, w) /\ hdr' = WithoutOldest(mem, hdr)[d]
<1>1. PICK N \in SUBSET InState("inflight") :
        /\ mem' = SetState(N, "acked")
        /\ hdr' = LET done == N \cup InState("acked")
                      k    == CHOOSE k \in 0..hdr.count :
                                /\ 1..k \subseteq done
                                /\ k < hdr.count => k + 1 \notin done
                  IN  WithoutOldest(mem, hdr)[k]
  BY DEF RingAck
<1> DEFINE done == N \cup InState("acked")
           Front(k) == 1..k \subseteq done /\ (k < hdr.count => k + 1 \notin done)
           d == CHOOSE k \in 0..hdr.count : Front(k)
<1>2. d \in 0..hdr.count
  <2>1. \E k \in 0..hdr.count : Front(k)
    <3>1. hdr.count \in Nat
      BY HeaderFacts DEF RingInv
    <3> HIDE DEF done
    <3> QED BY <3>1, SomeRelease
  <2> HIDE DEF Front
  <2> QED BY <2>1
<1>3. hdr' = WithoutOldest(mem, hdr)[d]
  BY <1>1
<1>4. SetState(N, "acked") \in Memory /\ Same(mem, SetState(N, "acked"))
  <2>1. N \in SUBSET (1..hdr.count)
    BY DEF InState
  <2> QED BY <2>1, SetStateSame
<1> HIDE DEF d
<1> QED BY <1>1, <1>2, <1>3, <1>4

(* Send, expire(): states only.                                              *)
LEMMA StatesStep ==
  ASSUME RingInv, Send \/ RingExpire
  PROVE  mem' \in Memory /\ Same(mem, mem') /\ UNCHANGED <<hdr, chip, chipHdr, busy, pushed, resets>>
<1>1. CASE Send
  <2>1. PICK n \in InState("pending") : mem' = SetState({k \in InState("pending") : k <= n}, "inflight")
    BY <1>1 DEF Send
  <2>2. {k \in InState("pending") : k <= n} \in SUBSET (1..hdr.count)
    BY DEF InState
  <2> QED BY <1>1, <2>1, <2>2, SetStateSame DEF Send
<1>2. CASE RingExpire
  <2>1. PICK N \in SUBSET InState("inflight") : mem' = SetState(N, "pending")
    BY <1>2 DEF RingExpire
  <2>2. N \in SUBSET (1..hdr.count)
    BY DEF InState
  <2> QED BY <1>2, <2>1, <2>2, SetStateSame DEF RingExpire
<1> QED BY <1>1, <1>2

(* txqBegin() on bytes where the walk finds records in order.                *)
LEMMA BeginStep ==
  ASSUME NEW m \in Memory, NEW h \in Header, Validated(m, h) \in Header, Lay(m, Validated(m, h)), Begin(m, h)
  PROVE  /\ mem' \in Memory /\ hdr' = Validated(m, h) /\ Same(m, mem') /\ Lay(mem', hdr')
         /\ chip' = mem' /\ chipHdr' = hdr' /\ busy' = FALSE
         /\ QueueOf(mem', hdr') = QueueOf(m, Validated(m, h))
<1>1. mem' = BackToPending(m, Validated(m, h)) /\ hdr' = Validated(m, h)
  BY DEF Begin
<1> DEFINE w == BackToPending(m, Validated(m, h))
<1>2. w \in Memory /\ Same(m, w)
  BY BackSame
<1> HIDE DEF w
<1>3. Lay(w, Validated(m, h)) /\ QueueOf(w, Validated(m, h)) = QueueOf(m, Validated(m, h))
  BY <1>2, SameLay
<1> QED BY <1>1, <1>2, <1>3 DEF Begin, w

(* What a panic leaves in the chip.                                          *)
LEMMA PanicBytes ==
  ASSUME RingInv, RingPanic
  PROVE  \E m \in Memory : \E h \in {chipHdr, hdr} \cup (IF chipHdr = hdr THEN {} ELSE {Torn}) :
           /\ \A c \in Cells : m[c] \in {mem[c], chip[c]}
           /\ h \in Header /\ ("lap" \in Faults \/ ~Laps(m, h)) /\ Begin(m, h)
<1>1. PICK N \in SUBSET Fresh, h \in {chipHdr, hdr} \cup (IF chipHdr = hdr THEN {} ELSE {Torn}) :
        LET m == [c \in Cells |-> IF c \in N THEN mem[c] ELSE chip[c]]
        IN  ("lap" \in Faults \/ ~Laps(m, h)) /\ Begin(m, h)
  BY DEF RingPanic
<1> DEFINE m == [c \in Cells |-> IF c \in N THEN mem[c] ELSE chip[c]]
<1>2. m \in Memory
  BY DEF RingInv, Memory
<1>3. \A c \in Cells : m[c] \in {mem[c], chip[c]}
  OBVIOUS
<1>4. h \in Header
  BY HeaderFacts DEF RingInv
<1>5. ("lap" \in Faults \/ ~Laps(m, h)) /\ Begin(m, h)
  BY <1>1
<1> HIDE DEF m
<1> QED BY <1>1, <1>2, <1>3, <1>4, <1>5

LEMMA CleanStep ==
  ASSUME RingInv, CleanRestart
  PROVE  /\ mem' \in Memory /\ hdr' \in Header /\ Lay(mem', hdr') /\ chip' = mem' /\ chipHdr' = hdr' /\ busy' = FALSE
         /\ hdr.head < RingCap /\ hdr.tail < RingCap => RingQueue' = RingQueue
         /\ RingQueue' = << >> \/ RingQueue' = RingQueue
<1>1. Begin(mem, hdr) /\ mem \in Memory /\ hdr \in Header /\ Lay(mem, hdr)
  BY DEF CleanRestart, RingInv
<1> DEFINE v == Validated(mem, hdr)
<1>2. /\ v \in Header /\ Lay(mem, v)
      /\ hdr.head < RingCap /\ hdr.tail < RingCap => QueueOf(mem, v) = QueueOf(mem, hdr)
      /\ v = Empty \/ QueueOf(mem, v) = QueueOf(mem, hdr)
  BY <1>1, CleanWalk
<1>3. /\ mem' \in Memory /\ hdr' = v /\ Lay(mem', hdr') /\ chip' = mem' /\ chipHdr' = hdr' /\ busy' = FALSE
      /\ QueueOf(mem', hdr') = QueueOf(mem, v)
  BY <1>1, <1>2, BeginStep
<1>4. v = Empty => QueueOf(mem, v) = << >>
  BY <1>1, <1>2, LayQueue
<1> HIDE DEF v
<1>5. RingQueue' = QueueOf(mem, v) /\ RingQueue = QueueOf(mem, hdr)
  BY <1>3 DEF RingQueue
<1> QED BY <1>2, <1>3, <1>4, <1>5

LEMMA RingInvInit == RingInit => RingInv
<1> SUFFICES ASSUME RingInit PROVE RingInv
  OBVIOUS
<1>1. Blank \in Cell
  BY RingNumbers DEF Blank, Cell, CellKind
<1>2. mem \in Memory
  BY <1>1 DEF RingInit, Memory
<1>3. hdr \in Header /\ chipHdr \in Header /\ Lay(mem, hdr)
  BY HeaderFacts DEF RingInit, Lay
<1>4. chip \in Memory /\ busy \in BOOLEAN
  BY <1>2 DEF RingInit
<1>5. pushed \in 0..MaxPush /\ resets \in 0..MaxReset
  BY RingNumbers DEF RingInit
<1> QED BY <1>2, <1>3, <1>4, <1>5 DEF RingInv

LEMMA RingInvNext == "lap" \notin Faults /\ RingInv /\ [RingNext]_ringVars => RingInv'
<1> SUFFICES ASSUME "lap" \notin Faults, RingInv, [RingNext]_ringVars PROVE RingInv'
  OBVIOUS
<1>0. /\ mem \in Memory /\ chip \in Memory /\ hdr \in Header /\ chipHdr \in Header
      /\ Lay(mem, hdr) /\ busy \in BOOLEAN /\ pushed \in 0..MaxPush /\ resets \in 0..MaxReset
  BY DEF RingInv
<1>1. ASSUME NEW z \in Sizes, RingPush(z) PROVE RingInv'
  <2>1. PICK d \in 0..hdr.count : \E at :
           LET a == WithoutOldest(mem, hdr)[d]
           IN  /\ a \in Header /\ Lay(mem, a) /\ at \in Space(a, z) /\ pushed + 1 \in Record
               /\ mem' = Pushed(mem, a, at, pushed + 1, z) /\ hdr' = Counted(a, at, z)
    BY <1>1, RingPushStep
  <2> DEFINE a == WithoutOldest(mem, hdr)[d]
  <2>2. PICK at : /\ a \in Header /\ Lay(mem, a) /\ at \in Space(a, z) /\ pushed + 1 \in Record
                  /\ mem' = Pushed(mem, a, at, pushed + 1, z) /\ hdr' = Counted(a, at, z)
    BY <2>1
  <2> HIDE DEF a
  <2>3. mem' \in Memory /\ hdr' \in Header /\ Lay(mem', hdr')
    BY <1>0, <2>2, PushLay
  <2>4. pushed' \in 0..MaxPush
    BY <1>1, <2>2, RingNumbers DEF RingPush, Record
  <2>5. busy' = TRUE /\ UNCHANGED <<chip, chipHdr, resets>>
    BY <1>1 DEF RingPush
  <2> QED BY <1>0, <2>3, <2>4, <2>5 DEF RingInv
<1>2. CASE Send \/ RingExpire
  <2>1. mem' \in Memory /\ Same(mem, mem') /\ UNCHANGED <<hdr, chip, chipHdr, busy, pushed, resets>>
    BY <1>2, StatesStep
  <2>2. Lay(mem', hdr)
    BY <1>0, <2>1, SameLay
  <2> QED BY <1>0, <2>1, <2>2 DEF RingInv
<1>3. CASE RingAck
  <2>1. PICK d \in 0..hdr.count, w \in Memory :
           /\ mem' = w /\ Same(mem, w) /\ hdr' = WithoutOldest(mem, hdr)[d]
    BY <1>3, AckStep
  <2>2. hdr' \in Header /\ Lay(mem, hdr')
    BY <1>0, <2>1, WithoutLay
  <2>3. Lay(mem', hdr')
    BY <1>0, <2>1, <2>2, SameLay
  <2>4. busy' = TRUE /\ UNCHANGED <<chip, chipHdr, pushed, resets>>
    BY <1>3 DEF RingAck
  <2> QED BY <1>0, <2>1, <2>2, <2>3, <2>4 DEF RingInv
<1>4. CASE Persist
  BY <1>0, <1>4 DEF Persist, RingInv
<1>5. ASSUME NEW m, NEW h, Begin(m, h) PROVE pushed' \in 0..MaxPush /\ resets' \in 0..MaxReset
  BY <1>0, <1>5, RingNumbers DEF Begin
<1>6. CASE CleanRestart
  <2>1. mem' \in Memory /\ hdr' \in Header /\ Lay(mem', hdr') /\ chip' = mem' /\ chipHdr' = hdr' /\ busy' = FALSE
    BY <1>6, CleanStep
  <2> QED BY <1>5, <1>6, <2>1 DEF RingInv, CleanRestart
<1>7. CASE RingPanic
  <2>1. PICK m \in Memory : \E h \in Header : ~Laps(m, h) /\ Begin(m, h)
    BY <1>7, PanicBytes
  <2>2. PICK h \in Header : ~Laps(m, h) /\ Begin(m, h)
    BY <2>1
  <2>3. Validated(m, h) \in Header /\ Lay(m, Validated(m, h))
    BY <2>2, WalkLay
  <2>4. mem' \in Memory /\ hdr' = Validated(m, h) /\ Lay(mem', hdr') /\ chip' = mem' /\ chipHdr' = hdr' /\ busy' = FALSE
    BY <2>2, <2>3, BeginStep
  <2> QED BY <1>5, <2>2, <2>3, <2>4 DEF RingInv
<1>8. CASE UNCHANGED ringVars
  BY <1>0, <1>8 DEF ringVars, RingInv
<1> QED BY <1>1, <1>2, <1>3, <1>4, <1>6, <1>7, <1>8 DEF RingNext

(* Records that lie in order lie whole and apart.                            *)
LEMMA InvRecordsWhole == RingInv => RecordsWhole
<1> SUFFICES ASSUME RingInv PROVE RecordsWhole
  OBVIOUS
<1>0. mem \in Memory /\ hdr \in Header /\ Lay(mem, hdr)
  BY DEF RingInv
<1>1. CASE hdr = Empty
  <2>1. hdr.count = 0 /\ 1..0 = {} /\ ~(0 > 0)
    BY <1>1 DEF Empty
  <2> QED BY <2>1 DEF RecordsWhole
<1>2. ASSUME NEW p, NEW k, Ring(mem, hdr, p, k) PROVE RecordsWhole
  <2> DEFINE n == hdr.count
  <2>1. /\ n \in Nat \ {0} /\ k \in 0..n /\ Places(mem, hdr) = p
        /\ \A i \in 1..n : /\ p[i] \in Cells /\ NextPos(mem, p[i]) \in DStart..RingCap
                           /\ p[i] < NextPos(mem, p[i]) /\ Whole(mem, p[i])
        /\ \A i, j \in 1..n : i < j /\ (j <= k \/ k < i) => NextPos(mem, p[i]) <= p[j]
        /\ \A i \in 1..k : hdr.tail <= p[i]
        /\ \A i \in (k + 1)..n : NextPos(mem, p[i]) <= hdr.tail
    BY <1>0, <1>2, RingOrder, LayQueue
  <2>2. ASSUME NEW i \in 1..n, NEW j \in 1..n, i < j PROVE Extent(i) \cap Extent(j) = {}
    <3>0. /\ p[i] \in Nat /\ p[j] \in Nat /\ NextPos(mem, p[i]) \in Nat /\ NextPos(mem, p[j]) \in Nat
          /\ hdr.tail \in Nat
      BY <1>0, <2>1, RingNumbers, HeaderFacts
    <3>1. NextPos(mem, p[i]) <= p[j] \/ NextPos(mem, p[j]) <= p[i]
      <4>1. CASE j <= k \/ k < i
        BY <2>1, <2>2, <4>1
      <4>2. CASE ~(j <= k \/ k < i)
        <5>1. i \in 1..k /\ j \in (k + 1)..n
          BY <2>1, <4>2
        <5>2. hdr.tail <= p[i] /\ NextPos(mem, p[j]) <= hdr.tail
          BY <2>1, <5>1
        <5> QED BY <3>0, <5>2
      <4> QED BY <4>1, <4>2
    <3>2. Extent(i) = p[i]..NextPos(mem, p[i]) - 1 /\ Extent(j) = p[j]..NextPos(mem, p[j]) - 1
      BY <2>1 DEF Extent
    <3> QED BY <3>0, <3>1, <3>2
  <2>3. ASSUME NEW i \in 1..n, NEW j \in 1..n, i # j PROVE Extent(i) \cap Extent(j) = {}
    <3>1. i < j \/ j < i
      BY <2>1, <2>3
    <3> QED BY <2>2, <3>1
  <2>4. hdr.last = p[n]
    BY <1>2 DEF Ring
  <2> QED BY <2>1, <2>3, <2>4 DEF RecordsWhole
<1> QED BY <1>0, <1>1, <1>2 DEF Lay

(* For every size of the ring, of the entries and of their header: unless a  *)
(* walk comes round, the records of the queue lie whole and apart, and the   *)
(* header knows the newest.                                                  *)
THEOREM RingRecordsWhole == "lap" \notin Faults => (RingSpec => []RecordsWhole)
<1> SUFFICES ASSUME "lap" \notin Faults PROVE RingSpec => []RecordsWhole
  OBVIOUS
<1>1. RingInit => RingInv
  BY RingInvInit
<1>2. RingInv /\ [RingNext]_ringVars => RingInv'
  BY RingInvNext
<1>3. RingInv => RecordsWhole
  BY InvRecordsWhole
<1> QED BY <1>1, <1>2, <1>3, PTL DEF RingSpec

(* The values of the reserve.                                                *)
THEOREM RingTypeCorrect == "lap" \notin Faults => (RingSpec => []RingTypeOK)
<1> SUFFICES ASSUME "lap" \notin Faults PROVE RingSpec => []RingTypeOK
  OBVIOUS
<1>1. RingInit => RingInv
  BY RingInvInit
<1>2. RingInv /\ [RingNext]_ringVars => RingInv'
  BY RingInvNext
<1>3. RingInv => RingTypeOK
  <2> SUFFICES ASSUME RingInv PROVE RingTypeOK
    OBVIOUS
  <2>1. mem \in [Cells -> [kind : CellKind, id : 0..MaxPush, size : {0} \cup Sizes,
                        state : {"none", "pending", "inflight", "acked"}]]
    BY DEF RingInv, Memory, Cell
  <2>2. /\ hdr.head \in DStart..RingCap /\ hdr.tail \in DStart..RingCap /\ hdr.last \in Cells
        /\ hdr.count \in Nat /\ hdr.sealed \in BOOLEAN
    BY DEF RingInv, Header
  <2> QED BY <2>1, <2>2 DEF RingInv, RingTypeOK
<1> QED BY <1>1, <1>2, <1>3, PTL DEF RingSpec

(* A restart between two operations keeps every record in its place.         *)
THEOREM RingRestartKeeps == "lap" \notin Faults => (RingSpec => RestartKeeps)
<1> SUFFICES ASSUME "lap" \notin Faults PROVE RingSpec => RestartKeeps
  OBVIOUS
<1>1. RingInit => RingInv
  BY RingInvInit
<1>2. RingInv /\ [RingNext]_ringVars => RingInv'
  BY RingInvNext
<1>3. RingInv /\ [RingNext]_ringVars
      => [CleanRestart /\ hdr.head < RingCap /\ hdr.tail < RingCap => RingQueue' = RingQueue]_ringVars
  BY CleanStep
<1> QED BY <1>1, <1>2, <1>3, PTL DEF RingSpec, RestartKeeps

-----------------------------------------------------------------------------
(* The queue that the bytes stand for.                                       *)

(* a comes before b for who goes round the ring from t on.                   *)
Sooner(t, a, b) == IF t <= a THEN b < t \/ a < b ELSE b < t /\ a < b

LEMMA PlacesInOrder ==
  ASSUME NEW m \in Memory, NEW h \in Header, Lay(m, h),
         NEW i \in 1..h.count, NEW j \in 1..h.count, i < j
  PROVE  Sooner(h.tail, Places(m, h)[i], Places(m, h)[j])
<1>1. h # Empty
  BY HeaderFacts
<1>2. PICK p, k : Ring(m, h, p, k)
  BY <1>1 DEF Lay
<1>3. /\ Places(m, h) = p /\ h.count \in Nat /\ k \in 0..h.count /\ h.tail \in Nat
      /\ \A x \in 1..h.count : /\ p[x] \in Nat /\ NextPos(m, p[x]) \in Nat /\ p[x] < NextPos(m, p[x])
      /\ \A x, y \in 1..h.count : x < y /\ (y <= k \/ k < x) => NextPos(m, p[x]) <= p[y]
      /\ \A x \in 1..k : h.tail <= p[x]
      /\ \A x \in (k + 1)..h.count : NextPos(m, p[x]) <= h.tail
  BY <1>2, RingOrder, LayQueue, RingNumbers, HeaderFacts
<1>4. CASE j <= k
  <2>1. i \in 1..k /\ h.tail <= p[i] /\ p[i] < p[j]
    BY <1>3, <1>4
  <2> QED BY <1>3, <2>1 DEF Sooner
<1>5. CASE k < i
  <2>1. i \in (k + 1)..h.count /\ j \in (k + 1)..h.count
    BY <1>3, <1>5
  <2>2. NextPos(m, p[i]) <= h.tail /\ NextPos(m, p[j]) <= h.tail /\ NextPos(m, p[i]) <= p[j]
    BY <1>3, <1>5, <2>1
  <2>3. p[i] < h.tail /\ p[j] < h.tail /\ p[i] < p[j]
    BY <1>3, <2>2
  <2> QED BY <1>3, <2>3 DEF Sooner
<1>6. CASE i <= k /\ k < j
  <2>1. i \in 1..k /\ j \in (k + 1)..h.count
    BY <1>3, <1>6
  <2>2. h.tail <= p[i] /\ NextPos(m, p[j]) <= h.tail
    BY <1>3, <2>1
  <2>3. p[j] < h.tail
    BY <1>3, <2>2
  <2> QED BY <1>3, <2>2, <2>3 DEF Sooner
<1> QED BY <1>3, <1>4, <1>5, <1>6

LEMMA SoonerOnce ==
  ASSUME NEW t \in Nat, NEW a \in Nat, NEW b \in Nat, Sooner(t, a, b)
  PROVE  a # b /\ ~Sooner(t, b, a)
BY DEF Sooner

(* The queue of a header is a sequence of records, those at its places.      *)
LEMMA QueueSeq ==
  ASSUME NEW m \in Memory, NEW h \in Header, Lay(m, h)
  PROVE  /\ QueueOf(m, h) \in Seq(Record) /\ Len(QueueOf(m, h)) = h.count /\ h.count \in Nat
         /\ \A i \in 1..h.count : /\ QueueOf(m, h)[i] = m[Places(m, h)[i]].id
                                  /\ QueueOf(m, h)[i] \in Record
                                  /\ Places(m, h)[i] \in Cells
                                  /\ m[Places(m, h)[i]].kind = "entry"
<1>1. h.count \in Nat
  BY HeaderFacts
<1>2. ASSUME NEW i \in 1..h.count
      PROVE  /\ Places(m, h)[i] \in Cells /\ m[Places(m, h)[i]].kind = "entry"
             /\ m[Places(m, h)[i]].id \in Record
  <2>1. Places(m, h)[i] \in Cells /\ Whole(m, Places(m, h)[i])
    BY PlacesEntries
  <2> QED BY <2>1, WholeRecord
<1>3. QueueOf(m, h) = [n \in 1..h.count |-> m[Places(m, h)[n]].id]
  BY DEF QueueOf
<1>4. QueueOf(m, h) \in [1..h.count -> Record]
  BY <1>2, <1>3
<1>5. QueueOf(m, h) \in Seq(Record) /\ Len(QueueOf(m, h)) = h.count
  BY <1>1, <1>4
<1> QED BY <1>1, <1>2, <1>3, <1>5

(* Each record has been written at one place, whatever copies of it are      *)
(* left, and has a number up to n.                                           *)
OnePlace(m, w) ==
  \A c, d \in Cells : m[c].kind = "entry" /\ w[d].kind = "entry" /\ m[c].id = w[d].id => c = d
UpTo(m, n) == \A c \in Cells : m[c].kind = "entry" => m[c].id <= n

LEMMA QueueDistinct ==
  ASSUME NEW m \in Memory, NEW h \in Header, Lay(m, h), OnePlace(m, m),
         NEW i \in 1..h.count, NEW j \in 1..h.count, i # j
  PROVE  QueueOf(m, h)[i] # QueueOf(m, h)[j]
<1> DEFINE a == Places(m, h)[i]
           b == Places(m, h)[j]
<1>1. /\ a \in Cells /\ b \in Cells /\ m[a].kind = "entry" /\ m[b].kind = "entry"
      /\ QueueOf(m, h)[i] = m[a].id /\ QueueOf(m, h)[j] = m[b].id
  BY QueueSeq
<1>2. i < j \/ j < i
  BY HeaderFacts
<1>3. Sooner(h.tail, a, b) \/ Sooner(h.tail, b, a)
  BY <1>2, PlacesInOrder
<1> HIDE DEF a, b
<1>4. a \in Nat /\ b \in Nat /\ h.tail \in Nat
  BY <1>1, HeaderFacts, RingNumbers
<1>5. a # b
  BY <1>3, <1>4, SoonerOnce
<1> QED BY <1>1, <1>5 DEF OnePlace

(* A walk that goes round from where h does meets the records of h in their  *)
(* order.                                                                    *)
LEMMA WalkOrder ==
  ASSUME NEW w \in Memory, NEW h \in Header, Lay(w, h),
         NEW m \in Memory, NEW v \in Header, Lay(m, v), v.tail = h.tail, OnePlace(w, m),
         NEW x \in 1..h.count, NEW y \in 1..h.count, x < y,
         NEW i \in 1..v.count, NEW j \in 1..v.count, i < j
  PROVE  ~(QueueOf(m, v)[i] = QueueOf(w, h)[y] /\ QueueOf(m, v)[j] = QueueOf(w, h)[x])
<1> SUFFICES ASSUME QueueOf(m, v)[i] = QueueOf(w, h)[y], QueueOf(m, v)[j] = QueueOf(w, h)[x]
             PROVE  FALSE
  OBVIOUS
<1> DEFINE a == Places(w, h)[x]
           b == Places(w, h)[y]
           c == Places(m, v)[i]
           d == Places(m, v)[j]
<1>1. /\ a \in Cells /\ w[a].kind = "entry" /\ QueueOf(w, h)[x] = w[a].id
      /\ b \in Cells /\ w[b].kind = "entry" /\ QueueOf(w, h)[y] = w[b].id
  BY QueueSeq
<1>2. /\ c \in Cells /\ m[c].kind = "entry" /\ QueueOf(m, v)[i] = m[c].id
      /\ d \in Cells /\ m[d].kind = "entry" /\ QueueOf(m, v)[j] = m[d].id
  BY QueueSeq
<1>3. Sooner(h.tail, a, b) /\ Sooner(h.tail, c, d)
  BY PlacesInOrder
<1> HIDE DEF a, b, c, d
<1>4. b = c /\ a = d
  BY <1>1, <1>2 DEF OnePlace
<1>5. a \in Nat /\ b \in Nat /\ h.tail \in Nat
  BY <1>1, HeaderFacts, RingNumbers
<1> QED BY <1>3, <1>4, <1>5, SoonerOnce

LEMMA SameOnePlace ==
  ASSUME NEW m \in Memory, NEW w \in Memory, Same(m, w)
  PROVE  /\ Same(w, m)
         /\ \A n : UpTo(m, n) => UpTo(w, n)
         /\ \A x \in Memory : OnePlace(m, x) => OnePlace(w, x)
         /\ \A x \in Memory : OnePlace(x, m) => OnePlace(x, w)
         /\ \A x \in Memory : Same(x, m) => Same(x, w)
<1>1. Same(w, m)
  BY DEF Same
<1>2. \A n : UpTo(m, n) => UpTo(w, n)
  BY DEF Same, UpTo
<1>3. \A x \in Memory : OnePlace(m, x) => OnePlace(w, x)
  BY DEF Same, OnePlace
<1>4. \A x \in Memory : OnePlace(x, m) => OnePlace(x, w)
  BY DEF Same, OnePlace
<1>5. \A x \in Memory : Same(x, m) => Same(x, w)
  BY DEF Same
<1> QED BY <1>1, <1>2, <1>3, <1>4, <1>5

(* What a push writes are its own entry and no other.                        *)
LEMMA PushOwn ==
  ASSUME NEW m \in Memory, NEW h \in Header, Lay(m, h), NEW z \in Sizes, NEW at \in Space(h, z),
         NEW n \in Nat, n + 1 \in Record, UpTo(m, n)
  PROVE  LET w == Pushed(m, h, at, n + 1, z)
         IN  /\ UpTo(w, n + 1)
             /\ OnePlace(m, m) => OnePlace(w, w)
             /\ \A x \in Memory : UpTo(x, n) /\ OnePlace(m, x) => OnePlace(w, x)
<1> DEFINE w == Pushed(m, h, at, n + 1, z)
<1>1. at \in Cells /\ at + z <= RingCap /\ at \in Nat /\ z \in Nat
  BY SpaceRoom, RingNumbers
<1>2. /\ w \in Memory /\ w[at] = Entry(n + 1, z)
      /\ \A c \in Cells : c < at \/ at + z <= c => w[c] = MarkWrap(m, h, z)[c]
      /\ \A c \in Cells : at < c /\ c < at + z => w[c] = Text(n + 1)
  BY <1>1, WrittenWhole
<1>3. \A c \in Cells : MarkWrap(m, h, z)[c] \in {m[c], Wrap}
  BY DEF MarkWrap, Memory
<1> HIDE DEF w
<1>4. ASSUME NEW c \in Cells, w[c].kind = "entry"
      PROVE  (c = at /\ w[c].id = n + 1) \/ (c # at /\ w[c] = m[c])
  <2>1. c = at \/ c < at \/ at + z <= c \/ (at < c /\ c < at + z)
    BY <1>1, RingNumbers
  <2>2. CASE c = at
    BY <1>2, <2>2 DEF Entry
  <2>3. CASE at < c /\ c < at + z
    BY <1>2, <1>4, <2>3 DEF Text
  <2>4. CASE c # at /\ (c < at \/ at + z <= c)
    BY <1>2, <1>3, <1>4, <2>4 DEF Wrap
  <2>5. z # 0
    BY RingNumbers
  <2> QED BY <1>1, <2>1, <2>2, <2>3, <2>4, <2>5
<1>5. \A c \in Cells : m[c].kind = "entry" => m[c].id \in Nat /\ m[c].id <= n
  <2>1. \A c \in Cells : m[c].kind = "entry" => m[c].id \in Nat
    BY RingNumbers DEF Memory, Cell, Record
  <2> QED BY <2>1 DEF UpTo
<1>6. UpTo(w, n + 1)
  BY <1>4, <1>5 DEF UpTo
<1>7. ASSUME OnePlace(m, m) PROVE OnePlace(w, w)
  BY <1>4, <1>5, <1>7 DEF OnePlace
<1>8. ASSUME NEW x \in Memory, UpTo(x, n), OnePlace(m, x) PROVE OnePlace(w, x)
  <2>1. \A c \in Cells : x[c].kind = "entry" => x[c].id \in Nat /\ x[c].id <= n
    <3>1. \A c \in Cells : x[c].kind = "entry" => x[c].id \in Nat
      BY RingNumbers DEF Memory, Cell, Record
    <3> QED BY <1>8, <3>1 DEF UpTo
  <2> QED BY <1>4, <1>8, <2>1 DEF OnePlace
<1>9. UpTo(w, n + 1) /\ (OnePlace(m, m) => OnePlace(w, w))
      /\ \A x \in Memory : UpTo(x, n) /\ OnePlace(m, x) => OnePlace(w, x)
  BY <1>6, <1>7, <1>8
<1> QED BY <1>9 DEF w

-----------------------------------------------------------------------------
(* Each operation on the bytes is a step of the queue.                       *)

(* What the chip has but for the operation whose persist() is to come: the   *)
(* same records, or those before a push that dropped the d oldest.           *)
OwnInv ==
  /\ OnePlace(mem, mem) /\ OnePlace(chip, chip) /\ OnePlace(mem, chip) /\ OnePlace(chip, mem)
  /\ UpTo(mem, pushed) /\ UpTo(chip, pushed)

PushedSince(d) ==
  /\ UpTo(chip, pushed - 1) /\ pushed # 0
  /\ hdr.count = chipHdr.count - d + 1
  /\ \A i \in 1..(chipHdr.count - d) : QueueOf(mem, hdr)[i] = QueueOf(chip, chipHdr)[i + d]
  /\ QueueOf(mem, hdr)[hdr.count] = pushed

FifoInv ==
  /\ OwnInv /\ Lay(chip, chipHdr)
  /\ ~busy => hdr = chipHdr /\ Same(mem, chip)
  /\ Same(mem, chip) \/ \E d \in 0..chipHdr.count : PushedSince(d)

LEMMA NotTheLast == ASSUME NEW n \in Nat, NEW i \in 1..(n + 1), i # n + 1 PROVE i \in 1..n
  OBVIOUS

(* Appending to what is left, releasing, keeping all or nothing.             *)
LEMMA AppendLeft ==
  ASSUME NEW S, NEW q \in Seq(S), NEW s \in Seq(S), NEW r \in S, NEW d \in 0..Len(q),
         Len(s) = Len(q) - d + 1, \A i \in 1..(Len(q) - d) : s[i] = q[i + d], s[Len(s)] = r
  PROVE  s = Append(SubSeq(q, d + 1, Len(q)), r)
<1> DEFINE l == SubSeq(q, d + 1, Len(q))
<1>1. Len(q) \in Nat /\ d \in Nat /\ d <= Len(q)
  OBVIOUS
<1>2. \A i \in (d + 1)..Len(q) : q[i] \in S
  BY <1>1
<1>3. /\ l \in Seq(S) /\ Len(l) = IF d + 1 <= Len(q) THEN Len(q) - (d + 1) + 1 ELSE 0
      /\ \A i \in 1..(Len(q) - (d + 1) + 1) : l[i] = q[d + 1 + i - 1]
  BY <1>1, <1>2, SubSeqProperties
<1> HIDE DEF l
<1>4. Len(l) = Len(q) - d /\ \A i \in 1..Len(l) : l[i] = q[i + d]
  BY <1>1, <1>3
<1>5. /\ Append(l, r) \in Seq(S) /\ Len(Append(l, r)) = Len(l) + 1
      /\ \A i \in 1..Len(l) : Append(l, r)[i] = l[i]
      /\ Append(l, r)[Len(l) + 1] = r
  BY <1>3, AppendProperties
<1>6. Len(s) = Len(Append(l, r)) /\ \A i \in 1..Len(s) : s[i] = Append(l, r)[i]
  <2>1. Len(s) = Len(l) + 1 /\ Len(l) \in Nat /\ Len(l) = Len(q) - d
    BY <1>1, <1>4
  <2>2. ASSUME NEW i \in 1..Len(s) PROVE s[i] = Append(l, r)[i]
    <3>1. CASE i = Len(s)
      BY <1>5, <2>1, <3>1
    <3>2. CASE i # Len(s)
      <4>1. i \in 1..Len(l) /\ i \in 1..(Len(q) - d)
        <5>1. i \in 1..(Len(l) + 1) /\ i # Len(l) + 1
          BY <2>1, <3>2
        <5>2. i \in 1..Len(l)
          BY <2>1, <5>1, NotTheLast
        <5> QED BY <2>1, <5>2
      <4>2. Append(l, r)[i] = l[i]
        BY <1>5, <4>1
      <4>3. l[i] = q[i + d]
        BY <1>4, <4>1
      <4>4. s[i] = q[i + d]
        BY <4>1
      <4> QED BY <4>2, <4>3, <4>4
    <3> QED BY <3>1, <3>2
  <2> QED BY <1>5, <2>1, <2>2
<1>7. s = Append(l, r)
  BY <1>5, <1>6, SeqEqual
<1> QED BY <1>7 DEF l

LEMMA LeaveFront ==
  ASSUME NEW S, NEW q \in Seq(S), NEW s \in Seq(S), NEW d \in 0..Len(q),
         Len(s) = Len(q) - d, \A i \in 1..(Len(q) - d) : s[i] = q[i + d]
  PROVE  s = SubSeq(q, d + 1, Len(q)) /\ (d = 0 => s = q)
<1> DEFINE l == SubSeq(q, d + 1, Len(q))
<1>1. Len(q) \in Nat /\ d \in Nat /\ d <= Len(q)
  OBVIOUS
<1>2. \A i \in (d + 1)..Len(q) : q[i] \in S
  BY <1>1
<1>3. /\ l \in Seq(S) /\ Len(l) = IF d + 1 <= Len(q) THEN Len(q) - (d + 1) + 1 ELSE 0
      /\ \A i \in 1..(Len(q) - (d + 1) + 1) : l[i] = q[d + 1 + i - 1]
  BY <1>1, <1>2, SubSeqProperties
<1> HIDE DEF l
<1>4. Len(l) = Len(s) /\ \A i \in 1..Len(s) : s[i] = l[i]
  BY <1>1, <1>3
<1>5. s = l
  BY <1>3, <1>4, SeqEqual
<1>6. d = 0 => s = q
  BY <1>1, SeqEqual
<1> QED BY <1>5, <1>6 DEF l

(* A restart that finds all of a queue or nothing.                           *)
LEMMA KeepPrefix ==
  ASSUME NEW S, NEW q \in Seq(S), NEW s, s = q \/ s = << >>
  PROVE  \E k \in 0..Len(q) : s = SubSeq(q, 1, k)
<1>1. Len(q) \in Nat /\ SubSeq(q, 1, 0) = << >> /\ SubSeq(q, 1, Len(q)) = q
  BY SubSeqEmpty, SubSeqFull
<1>2. 0 \in 0..Len(q) /\ Len(q) \in 0..Len(q)
  BY <1>1
<1> QED BY <1>1, <1>2

LEMMA FifoPush ==
  ASSUME RingInv, FifoInv, NEW z \in Sizes, RingPush(z)
  PROVE  FifoInv' /\ Fifo!Next
<1>0. /\ mem \in Memory /\ chip \in Memory /\ hdr \in Header /\ chipHdr \in Header
      /\ Lay(mem, hdr) /\ pushed \in Nat /\ Lay(chip, chipHdr)
      /\ ~busy /\ pushed' = pushed + 1 /\ busy' = TRUE /\ UNCHANGED <<chip, chipHdr, resets>>
  BY RingNumbers DEF RingInv, RingPush, FifoInv
<1>1. /\ OwnInv /\ hdr = chipHdr /\ Same(mem, chip)
  BY <1>0 DEF FifoInv
<1>2. PICK d \in 0..hdr.count : \E at :
         LET a == WithoutOldest(mem, hdr)[d]
         IN  /\ a \in Header /\ Lay(mem, a) /\ at \in Space(a, z) /\ pushed + 1 \in Record
             /\ mem' = Pushed(mem, a, at, pushed + 1, z) /\ hdr' = Counted(a, at, z)
  BY RingPushStep
<1> DEFINE a == WithoutOldest(mem, hdr)[d]
<1>3. PICK at : /\ a \in Header /\ Lay(mem, a) /\ at \in Space(a, z) /\ pushed + 1 \in Record
                /\ mem' = Pushed(mem, a, at, pushed + 1, z) /\ hdr' = Counted(a, at, z)
  BY <1>2
<1>4. /\ a.count = hdr.count - d
      /\ \A i \in 1..(hdr.count - d) : Places(mem, a)[i] = Places(mem, hdr)[i + d]
  BY <1>0, WithoutLay
<1> HIDE DEF a
<1>5. /\ mem' \in Memory /\ hdr' \in Header /\ Lay(mem', hdr') /\ hdr'.count = a.count + 1
      /\ Places(mem', hdr')[a.count + 1] = at
      /\ \A i \in 1..a.count : /\ Places(mem', hdr')[i] = Places(mem, a)[i]
                               /\ mem'[Places(mem, a)[i]] = mem[Places(mem, a)[i]]
  BY <1>0, <1>3, PushLay
<1>6. mem'[at].id = pushed + 1
  <2>1. at \in Cells /\ at + z <= RingCap
    BY <1>0, <1>3, SpaceRoom
  <2>2. mem'[at] = Entry(pushed + 1, z)
    BY <1>0, <1>3, <2>1, WrittenWhole
  <2> QED BY <2>2 DEF Entry
<1> DEFINE q == QueueOf(mem, hdr)
           s == QueueOf(mem', hdr')
<1>7. /\ q \in Seq(Record) /\ Len(q) = hdr.count /\ hdr.count \in Nat
      /\ \A i \in 1..hdr.count : /\ q[i] = mem[Places(mem, hdr)[i]].id /\ q[i] \in Record
                                 /\ Places(mem, hdr)[i] \in Cells /\ mem[Places(mem, hdr)[i]].kind = "entry"
  BY <1>0, QueueSeq
<1>8. /\ s \in Seq(Record) /\ Len(s) = hdr'.count /\ hdr'.count \in Nat
      /\ \A i \in 1..hdr'.count : s[i] = mem'[Places(mem', hdr')[i]].id
  BY <1>5, QueueSeq
<1>9. QueueOf(chip, chipHdr) = q
  BY <1>0, <1>1, SameLay
<1> HIDE DEF q, s
<1>10. d \in Nat /\ d <= hdr.count /\ a.count \in Nat
  BY <1>4, <1>7
<1>11. ASSUME NEW i \in 1..(hdr.count - d) PROVE s[i] = q[i + d]
  <2>1. i \in 1..a.count /\ i \in 1..hdr'.count /\ i + d \in 1..hdr.count
    BY <1>4, <1>5, <1>7, <1>10
  <2>2. s[i] = mem[Places(mem, a)[i]].id
    BY <1>5, <1>8, <2>1
  <2> QED BY <1>4, <1>7, <2>1, <2>2
<1>12. Len(s) = Len(q) - d + 1 /\ s[Len(s)] = pushed + 1
  <2>1. hdr'.count = hdr.count - d + 1 /\ hdr'.count \in 1..hdr'.count /\ hdr'.count = a.count + 1
    BY <1>4, <1>5, <1>7, <1>10
  <2> QED BY <1>5, <1>6, <1>7, <1>8, <2>1
<1>13. Fifo!Push(pushed + 1)
  <2>1. s = Append(SubSeq(q, d + 1, Len(q)), pushed + 1)
    <3>1. d \in 0..Len(q) /\ \A i \in 1..(Len(q) - d) : s[i] = q[i + d]
      BY <1>7, <1>11
    <3>2. q \in Seq(Record) /\ s \in Seq(Record) /\ pushed + 1 \in Record
      BY <1>3, <1>7, <1>8
    <3> QED BY <1>12, <3>1, <3>2, AppendLeft
  <2>2. ASSUME NEW i \in 1..Len(q) PROVE q[i] < pushed + 1
    <3>1. PICK c \in Cells : mem[c].kind = "entry" /\ q[i] = mem[c].id /\ q[i] \in Record
      BY <1>7, <2>2
    <3>2. q[i] <= pushed
      BY <1>1, <3>1 DEF OwnInv, UpTo
    <3>3. q[i] \in Nat
      BY <3>1, RingNumbers DEF Record
    <3> QED BY <1>0, <3>2, <3>3
  <2>3. QueueOf(chip', chipHdr') = QueueOf(chip, chipHdr)
    BY <1>0
  <2>4. RingQueue = q /\ RingQueue' = s
    BY DEF RingQueue, q, s
  <2>5. d \in 0..Len(q)
    BY <1>7
  <2> QED BY <2>1, <2>2, <2>3, <2>4, <2>5 DEF Fifo!Push, Fifo!Without
<1>14. OwnInv'
  <2>1. UpTo(mem, pushed) /\ OnePlace(mem, mem) /\ OnePlace(mem, chip) /\ UpTo(chip, pushed) /\ OnePlace(chip, chip)
    BY <1>1 DEF OwnInv
  <2>2. UpTo(mem', pushed + 1) /\ OnePlace(mem', mem') /\ OnePlace(mem', chip)
    BY <1>0, <1>3, <2>1, PushOwn
  <2>3. OnePlace(chip, mem')
    BY <2>2 DEF OnePlace
  <2>4. UpTo(chip, pushed + 1)
    <3>1. \A c \in Cells : chip[c].kind = "entry" => chip[c].id \in Nat
      BY <1>0, RingNumbers DEF Memory, Cell, Record
    <3> QED BY <1>0, <2>1, <3>1 DEF UpTo
  <2> QED BY <1>0, <2>1, <2>2, <2>3, <2>4 DEF OwnInv
<1>15. PushedSince(d)'
  <2>1. pushed' - 1 = pushed /\ pushed' # 0 /\ chip' = chip /\ chipHdr' = chipHdr
    BY <1>0
  <2>2. UpTo(chip', pushed' - 1)
    BY <1>1, <2>1 DEF OwnInv
  <2>3. hdr'.count = chipHdr.count - d + 1
    BY <1>1, <1>4, <1>5
  <2>4. \A i \in 1..(chipHdr.count - d) : s[i] = QueueOf(chip, chipHdr)[i + d]
    BY <1>1, <1>9, <1>11
  <2>5. s[hdr'.count] = pushed'
    BY <1>0, <1>8, <1>12
  <2> QED BY <2>1, <2>2, <2>3, <2>4, <2>5 DEF PushedSince, s
<1>16. d \in (0..chipHdr.count)'
  BY <1>0, <1>1
<1>17. FifoInv'
  BY <1>0, <1>14, <1>15, <1>16 DEF FifoInv
<1>18. Fifo!Next
  BY <1>3, <1>13 DEF Fifo!Next
<1> QED BY <1>17, <1>18

(* txqNextPacket() and expire() change only states.                          *)
LEMMA FifoStates ==
  ASSUME RingInv, FifoInv, Send \/ RingExpire
  PROVE  FifoInv' /\ UNCHANGED <<RingQueue, QueueOf(chip, chipHdr)>>
<1>0. /\ mem \in Memory /\ chip \in Memory /\ hdr \in Header /\ chipHdr \in Header /\ Lay(mem, hdr)
  BY DEF RingInv
<1>1. mem' \in Memory /\ Same(mem, mem') /\ UNCHANGED <<hdr, chip, chipHdr, busy, pushed, resets>>
  BY StatesStep
<1>2. ~busy
  BY DEF Send, RingExpire
<1>3. OwnInv /\ Lay(chip, chipHdr) /\ hdr = chipHdr /\ Same(mem, chip)
  BY <1>2 DEF FifoInv
<1>4. Same(chip, mem') /\ Same(mem', chip)
  BY <1>0, <1>1, <1>3, SameOnePlace
<1>5. OwnInv'
  <2>1. OnePlace(mem', mem') /\ OnePlace(mem', chip) /\ OnePlace(chip, mem') /\ UpTo(mem', pushed)
    BY <1>0, <1>1, <1>3, SameOnePlace DEF OwnInv
  <2> QED BY <1>1, <1>3, <2>1 DEF OwnInv
<1>6. FifoInv'
  BY <1>1, <1>2, <1>3, <1>4, <1>5 DEF FifoInv
<1>7. QueueOf(mem', hdr) = QueueOf(mem, hdr)
  BY <1>0, <1>1, SameLay
<1>8. RingQueue' = RingQueue /\ QueueOf(chip', chipHdr') = QueueOf(chip, chipHdr)
  BY <1>1, <1>7 DEF RingQueue
<1> QED BY <1>6, <1>8

(* txqOnAck(): what is released leaves from the front.                       *)
LEMMA FifoAck ==
  ASSUME RingInv, FifoInv, RingAck
  PROVE  FifoInv' /\ (Fifo!Next \/ UNCHANGED <<RingQueue, QueueOf(chip, chipHdr)>>)
<1>0. /\ mem \in Memory /\ chip \in Memory /\ hdr \in Header /\ chipHdr \in Header /\ Lay(mem, hdr)
  BY DEF RingInv
<1>1. ~busy /\ busy' = TRUE /\ UNCHANGED <<chip, chipHdr, pushed, resets>>
  BY DEF RingAck
<1>2. PICK d \in 0..hdr.count, w \in Memory :
         /\ mem' = w /\ Same(mem, w) /\ hdr' = WithoutOldest(mem, hdr)[d]
  BY AckStep
<1>3. OwnInv /\ Lay(chip, chipHdr) /\ hdr = chipHdr /\ Same(mem, chip)
  BY <1>1 DEF FifoInv
<1>4. Same(chip, mem') /\ Same(mem', chip)
  BY <1>0, <1>2, <1>3, SameOnePlace
<1>5. OwnInv'
  <2>1. OnePlace(mem', mem') /\ OnePlace(mem', chip) /\ OnePlace(chip, mem') /\ UpTo(mem', pushed)
    BY <1>0, <1>2, <1>3, SameOnePlace DEF OwnInv
  <2> QED BY <1>1, <1>3, <2>1 DEF OwnInv
<1>6. FifoInv'
  BY <1>1, <1>3, <1>4, <1>5 DEF FifoInv
<1> DEFINE q == QueueOf(mem, hdr)
           s == QueueOf(mem, hdr')
<1>7. /\ hdr' \in Header /\ Lay(mem, hdr') /\ hdr'.count = hdr.count - d
      /\ \A i \in 1..(hdr.count - d) : Places(mem, hdr')[i] = Places(mem, hdr)[i + d]
  BY <1>0, <1>2, WithoutLay
<1>8. /\ q \in Seq(Record) /\ Len(q) = hdr.count /\ hdr.count \in Nat
      /\ \A i \in 1..hdr.count : q[i] = mem[Places(mem, hdr)[i]].id
  BY <1>0, QueueSeq
<1>9. /\ s \in Seq(Record) /\ Len(s) = hdr'.count
      /\ \A i \in 1..hdr'.count : s[i] = mem[Places(mem, hdr')[i]].id
  BY <1>0, <1>7, QueueSeq
<1>10. QueueOf(mem', hdr') = s
  BY <1>0, <1>2, <1>7, SameLay
<1> HIDE DEF q, s
<1>11. ASSUME NEW i \in 1..(hdr.count - d) PROVE s[i] = q[i + d]
  <2>1. i \in 1..hdr'.count /\ i + d \in 1..hdr.count
    BY <1>7, <1>8
  <2> QED BY <1>7, <1>8, <1>9, <2>1
<1>12. s = SubSeq(q, d + 1, Len(q)) /\ (d = 0 => s = q)
  <2>1. d \in 0..Len(q) /\ Len(s) = Len(q) - d /\ \A i \in 1..(Len(q) - d) : s[i] = q[i + d]
    BY <1>7, <1>8, <1>9, <1>11
  <2>2. q \in Seq(Record) /\ s \in Seq(Record)
    BY <1>8, <1>9
  <2> QED BY <2>1, <2>2, LeaveFront
<1>13. RingQueue = q /\ RingQueue' = s /\ QueueOf(chip', chipHdr') = QueueOf(chip, chipHdr)
  BY <1>1, <1>10 DEF RingQueue, q
<1>14. d # 0 => Fifo!Release
  <2>1. d # 0 => d \in 1..Len(q)
    BY <1>8
  <2> QED BY <1>12, <1>13, <2>1 DEF Fifo!Release, Fifo!Without
<1> QED BY <1>6, <1>12, <1>13, <1>14 DEF Fifo!Next

(* persist(): the operation is complete.                                     *)
LEMMA FifoPersist ==
  ASSUME RingInv, FifoInv, Persist
  PROVE  FifoInv' /\ Fifo!Next
<1>0. /\ mem \in Memory /\ hdr \in Header /\ Lay(mem, hdr) /\ OwnInv
  BY DEF RingInv, FifoInv
<1>1. /\ chip' = mem /\ chipHdr' = hdr /\ busy' = FALSE /\ UNCHANGED <<mem, hdr, pushed, resets>>
  BY DEF Persist
<1>2. OwnInv'
  BY <1>0, <1>1 DEF OwnInv
<1>3. Same(mem', chip')
  BY <1>1 DEF Same
<1>4. FifoInv'
  BY <1>0, <1>1, <1>2, <1>3 DEF FifoInv
<1>5. QueueOf(chip', chipHdr') = RingQueue /\ RingQueue' = RingQueue
  BY <1>1 DEF RingQueue
<1>6. Fifo!Complete
  BY <1>5 DEF Fifo!Complete
<1> QED BY <1>4, <1>6 DEF Fifo!Next

(* txqBegin() writes back what it found.                                     *)
LEMMA FifoBegin ==
  ASSUME NEW m \in Memory, NEW h \in Header, Validated(m, h) \in Header, Lay(m, Validated(m, h)), Begin(m, h),
         OnePlace(m, m), UpTo(m, pushed)
  PROVE  /\ FifoInv' /\ RingQueue' = QueueOf(m, Validated(m, h))
         /\ QueueOf(chip', chipHdr') = QueueOf(m, Validated(m, h))
<1>1. /\ mem' \in Memory /\ hdr' = Validated(m, h) /\ Same(m, mem') /\ Lay(mem', hdr')
      /\ chip' = mem' /\ chipHdr' = hdr' /\ busy' = FALSE
      /\ QueueOf(mem', hdr') = QueueOf(m, Validated(m, h))
  BY BeginStep
<1>2. pushed' = pushed
  BY DEF Begin
<1>3. OnePlace(mem', mem') /\ UpTo(mem', pushed)
  BY <1>1, SameOnePlace
<1>4. OwnInv'
  BY <1>1, <1>2, <1>3 DEF OwnInv
<1>5. Same(mem', chip')
  BY <1>1 DEF Same
<1>6. FifoInv'
  BY <1>1, <1>4, <1>5 DEF FifoInv
<1> QED BY <1>1, <1>6 DEF RingQueue

(* A restart that finds one of the two queues, or nothing.                   *)
LEMMA FifoRestart ==
  ASSUME NEW q, NEW s, q \in Seq(Record), s \in Seq(Record), RingQueue = q, QueueOf(chip, chipHdr) = s,
         RingQueue' \in {q, s, << >>}, QueueOf(chip', chipHdr') = RingQueue'
  PROVE  Fifo!Next
<1>1. \E k \in 0..Len(q) : << >> = SubSeq(q, 1, k)
  BY KeepPrefix
<1>2. \E k \in 0..Len(q) : q = SubSeq(q, 1, k)
  BY KeepPrefix
<1>3. \E k \in 0..Len(s) : s = SubSeq(s, 1, k)
  BY KeepPrefix
<1>4. \E x \in {q, s} : \E k \in 0..Len(x) : RingQueue' = SubSeq(x, 1, k)
  BY <1>1, <1>2, <1>3
<1>5. Fifo!Restart
  BY <1>4 DEF Fifo!Restart, Fifo!Prefix
<1> QED BY <1>5 DEF Fifo!Next

LEMMA FifoClean ==
  ASSUME RingInv, FifoInv, CleanRestart
  PROVE  FifoInv' /\ Fifo!Next
<1>0. /\ mem \in Memory /\ chip \in Memory /\ hdr \in Header /\ chipHdr \in Header
      /\ Lay(mem, hdr) /\ Lay(chip, chipHdr) /\ OwnInv /\ Begin(mem, hdr)
  BY DEF RingInv, FifoInv, CleanRestart
<1>1. /\ Validated(mem, hdr) \in Header /\ Lay(mem, Validated(mem, hdr))
      /\ Validated(mem, hdr) = Empty \/ QueueOf(mem, Validated(mem, hdr)) = QueueOf(mem, hdr)
  BY <1>0, CleanWalk
<1>2. /\ FifoInv' /\ RingQueue' = QueueOf(mem, Validated(mem, hdr))
      /\ QueueOf(chip', chipHdr') = QueueOf(mem, Validated(mem, hdr))
  BY <1>0, <1>1, FifoBegin DEF OwnInv
<1>3. Validated(mem, hdr) = Empty => QueueOf(mem, Validated(mem, hdr)) = << >>
  BY <1>0, <1>1, LayQueue
<1>4. QueueOf(mem, hdr) \in Seq(Record) /\ QueueOf(chip, chipHdr) \in Seq(Record)
  BY <1>0, QueueSeq
<1>5. RingQueue = QueueOf(mem, hdr)
  BY DEF RingQueue
<1>6. RingQueue' \in {RingQueue, QueueOf(chip, chipHdr), << >>} /\ QueueOf(chip', chipHdr') = RingQueue'
  BY <1>1, <1>2, <1>3, <1>5
<1> QED BY <1>2, <1>4, <1>5, <1>6, FifoRestart

(* A panic after a push: what the walk finds has the records of the queue    *)
(* before it that are left in their order, whichever header it goes by.      *)
LEMMA FifoJumble ==
  ASSUME NEW m \in Memory, NEW v \in Header, NEW h \in {chipHdr, hdr}, NEW d \in 0..chipHdr.count,
         RingInv, Lay(chip, chipHdr), OnePlace(chip, chip), PushedSince(d),
         Lay(m, v), v.tail = h.tail, OnePlace(m, m), OnePlace(mem, m), OnePlace(chip, m),
         RingQueue' = QueueOf(m, v), QueueOf(chip', chipHdr') = QueueOf(m, v)
  PROVE  Fifo!Jumble
<1> DEFINE q == QueueOf(mem, hdr)
           s == QueueOf(chip, chipHdr)
           r == QueueOf(m, v)
<1>0. mem \in Memory /\ chip \in Memory /\ hdr \in Header /\ chipHdr \in Header /\ Lay(mem, hdr) /\ pushed \in Nat
  BY RingNumbers DEF RingInv
<1>1. q \in Seq(Record) /\ Len(q) = hdr.count /\ hdr.count \in Nat
  BY <1>0, QueueSeq
<1>2. /\ s \in Seq(Record) /\ Len(s) = chipHdr.count /\ chipHdr.count \in Nat
      /\ \A i \in 1..chipHdr.count : \E c \in Cells : chip[c].kind = "entry" /\ s[i] = chip[c].id
      /\ \A i, j \in 1..chipHdr.count : i # j => s[i] # s[j]
  <2>1. \A i \in 1..chipHdr.count : \E c \in Cells : chip[c].kind = "entry" /\ s[i] = chip[c].id
    BY <1>0, QueueSeq
  <2>2. \A i, j \in 1..chipHdr.count : i # j => s[i] # s[j]
    BY <1>0, QueueDistinct
  <2> QED BY <1>0, <2>1, <2>2, QueueSeq
<1>3. r \in Seq(Record) /\ Len(r) = v.count /\ v.count \in Nat
  BY QueueSeq
<1>4. \A i, j \in 1..Len(r) : i # j => r[i] # r[j]
  BY <1>3, QueueDistinct
<1>5. /\ hdr.count = chipHdr.count - d + 1 /\ q[hdr.count] = pushed
      /\ \A i \in 1..(chipHdr.count - d) : q[i] = s[i + d]
  BY DEF PushedSince
<1>6. ASSUME NEW i \in 1..chipHdr.count PROVE s[i] # pushed
  <2>1. PICK c \in Cells : chip[c].kind = "entry" /\ s[i] = chip[c].id
    BY <1>2
  <2>2. s[i] <= pushed - 1 /\ s[i] \in Nat
    <3>1. chip[c].id \in Nat
      BY <1>0, <2>1, RingNumbers DEF Memory, Cell, Record
    <3>2. chip[c].id <= pushed - 1
      BY <2>1 DEF PushedSince, UpTo
    <3> QED BY <2>1, <3>1, <3>2
  <2> QED BY <1>0, <2>2
<1>7. ASSUME NEW i \in 1..(chipHdr.count - d), NEW j \in 1..(chipHdr.count - d), i < j,
             NEW x \in 1..v.count, NEW y \in 1..v.count, x < y
      PROVE  ~(r[x] = s[j + d] /\ r[y] = s[i + d])
  <2>0. chipHdr.count \in Nat /\ hdr.count = chipHdr.count - d + 1 /\ d \in 0..chipHdr.count
    BY <1>2, <1>5
  <2>1. /\ i + d \in 1..chipHdr.count /\ j + d \in 1..chipHdr.count /\ i + d < j + d
        /\ i \in 1..hdr.count /\ j \in 1..hdr.count
    <3> HIDE DEF q, s, r
    <3> QED BY <1>7, <2>0
  <2>2. CASE h = chipHdr
    BY <1>0, <1>7, <2>1, <2>2, WalkOrder
  <2>3. CASE h = hdr
    <3>1. q[i] = s[i + d] /\ q[j] = s[j + d]
      BY <1>5
    <3>2. ~(r[x] = q[j] /\ r[y] = q[i])
      BY <1>0, <1>7, <2>1, <2>3, WalkOrder
    <3> QED BY <3>1, <3>2
  <2> QED BY <2>2, <2>3
<1> HIDE DEF q, s, r
<1>8. q # s
  <2>1. CASE hdr.count \in 1..chipHdr.count
    BY <1>5, <1>6, <2>1
  <2>2. CASE hdr.count \notin 1..chipHdr.count
    <3>1. hdr.count # chipHdr.count
      BY <1>1, <1>2, <1>5, <2>2
    <3> QED BY <1>1, <1>2, <3>1
  <2> QED BY <2>1, <2>2
<1>9. ASSUME NEW a \in 1..Len(s), NEW x \in 1..Len(q), s[a] = q[x]
      PROVE  x \in 1..(chipHdr.count - d) /\ x + d = a
  <2>1. x # hdr.count
    BY <1>2, <1>5, <1>6, <1>9
  <2>2. x \in 1..(chipHdr.count - d)
    BY <1>1, <1>2, <1>5, <2>1
  <2>3. q[x] = s[x + d] /\ x + d \in 1..chipHdr.count
    BY <1>2, <1>5, <2>2
  <2> QED BY <1>2, <1>9, <2>2, <2>3
<1>10. ASSUME NEW a \in 1..Len(s), NEW b \in 1..Len(s), a < b, {s[a], s[b]} \subseteq {q[i] : i \in 1..Len(q)}
       PROVE  ~ \E i, j \in 1..Len(r) : i < j /\ r[i] = s[b] /\ r[j] = s[a]
  <2>1. PICK x \in 1..Len(q) : s[a] = q[x]
    BY <1>10
  <2>2. PICK y \in 1..Len(q) : s[b] = q[y]
    BY <1>10
  <2>3. x \in 1..(chipHdr.count - d) /\ x + d = a
    BY <1>9, <2>1
  <2>4. y \in 1..(chipHdr.count - d) /\ y + d = b
    BY <1>9, <2>2
  <2>5. x < y
    BY <1>2, <1>10, <2>3, <2>4
  <2> QED BY <1>3, <1>7, <2>3, <2>4, <2>5
<1>11. RingQueue = q /\ QueueOf(chip, chipHdr) = s /\ RingQueue' = r /\ QueueOf(chip', chipHdr') = r
  BY DEF RingQueue, q, s, r
<1>12. RingQueue # QueueOf(chip, chipHdr) /\ QueueOf(chip', chipHdr') = RingQueue'
  BY <1>8, <1>11
<1>13. /\ RingQueue' \in Seq(Record)
       /\ \A i, j \in 1..Len(RingQueue') : i # j => RingQueue'[i] # RingQueue'[j]
  BY <1>3, <1>4, <1>11
<1>14. ASSUME NEW a \in 1..Len(QueueOf(chip, chipHdr)), NEW b \in 1..Len(QueueOf(chip, chipHdr)), a < b,
              {QueueOf(chip, chipHdr)[a], QueueOf(chip, chipHdr)[b]} \subseteq Fifo!Records(RingQueue)
       PROVE  ~ \E i, j \in 1..Len(RingQueue') :
                   i < j /\ RingQueue'[i] = QueueOf(chip, chipHdr)[b] /\ RingQueue'[j] = QueueOf(chip, chipHdr)[a]
  <2>1. Fifo!Records(RingQueue) = {q[i] : i \in 1..Len(q)}
    BY <1>11 DEF Fifo!Records
  <2>2. a \in 1..Len(s) /\ b \in 1..Len(s) /\ {s[a], s[b]} \subseteq {q[i] : i \in 1..Len(q)}
    BY <1>11, <1>14, <2>1
  <2>3. ~ \E i, j \in 1..Len(r) : i < j /\ r[i] = s[b] /\ r[j] = s[a]
    BY <1>10, <1>14, <2>2
  <2> QED BY <1>11, <2>3
<1> QED BY <1>12, <1>13, <1>14 DEF Fifo!Jumble

LEMMA FifoPanic ==
  ASSUME "lap" \notin Faults, RingInv, FifoInv, RingPanic
  PROVE  FifoInv' /\ Fifo!Next
<1>0. /\ mem \in Memory /\ chip \in Memory /\ hdr \in Header /\ chipHdr \in Header
      /\ Lay(mem, hdr) /\ Lay(chip, chipHdr) /\ OwnInv
  BY DEF RingInv, FifoInv
<1>1. PICK m \in Memory : \E h \in {chipHdr, hdr} \cup (IF chipHdr = hdr THEN {} ELSE {Torn}) :
         /\ \A c \in Cells : m[c] \in {mem[c], chip[c]}
         /\ h \in Header /\ ("lap" \in Faults \/ ~Laps(m, h)) /\ Begin(m, h)
  BY PanicBytes
<1>2. PICK h \in {chipHdr, hdr, Torn} :
         /\ \A c \in Cells : m[c] \in {mem[c], chip[c]}
         /\ h \in Header /\ ~Laps(m, h) /\ Begin(m, h)
  BY <1>1
<1> DEFINE v == Validated(m, h)
<1>3. v \in Header /\ Lay(m, v)
  BY <1>2, WalkLay
<1>4. OnePlace(m, m) /\ OnePlace(mem, m) /\ OnePlace(chip, m) /\ UpTo(m, pushed)
  <2>1. OnePlace(mem, m) /\ OnePlace(chip, m)
    BY <1>0, <1>2 DEF OwnInv, OnePlace
  <2>2. OnePlace(m, m)
    BY <1>2, <2>1 DEF OnePlace
  <2>3. UpTo(m, pushed)
    BY <1>0, <1>2 DEF OwnInv, UpTo
  <2> QED BY <2>1, <2>2, <2>3
<1>5. FifoInv' /\ RingQueue' = QueueOf(m, v) /\ QueueOf(chip', chipHdr') = QueueOf(m, v)
  BY <1>2, <1>3, <1>4, FifoBegin
<1>6. QueueOf(mem, hdr) \in Seq(Record) /\ QueueOf(chip, chipHdr) \in Seq(Record) /\ RingQueue = QueueOf(mem, hdr)
  BY <1>0, QueueSeq DEF RingQueue
<1>7. v # Empty => h # Torn /\ v.tail = h.tail
  <2>1. ~Valid(Torn)
    BY DEF Valid, Torn, Empty
  <2> QED BY <2>1 DEF Validated
<1> HIDE DEF v
<1>8. CASE v = Empty
  <2>1. QueueOf(m, v) = << >>
    BY <1>3, <1>8, LayQueue
  <2> QED BY <1>5, <1>6, <2>1, FifoRestart
<1>9. CASE v # Empty /\ Same(mem, chip)
  <2>1. Same(mem, m) /\ Same(chip, m)
    BY <1>2, <1>9 DEF Same
  <2>2. Lay(m, h) /\ QueueOf(m, h) \in {QueueOf(mem, hdr), QueueOf(chip, chipHdr)}
    BY <1>0, <1>2, <1>7, <1>9, <2>1, SameLay
  <2>3. QueueOf(m, v) = QueueOf(m, h)
    BY <1>2, <1>9, <2>2, CleanWalk DEF v
  <2> QED BY <1>5, <1>6, <2>2, <2>3, FifoRestart
<1>10. ASSUME v # Empty, NEW d \in 0..chipHdr.count, PushedSince(d) PROVE Fifo!Next
  <2>1. h \in {chipHdr, hdr} /\ v.tail = h.tail
    BY <1>2, <1>7, <1>10
  <2>2. Fifo!Jumble
    BY <1>0, <1>3, <1>4, <1>5, <1>10, <2>1, FifoJumble DEF OwnInv
  <2> QED BY <2>2 DEF Fifo!Next
<1> QED BY <1>5, <1>8, <1>9, <1>10 DEF FifoInv

LEMMA FifoInit == RingInit => FifoInv /\ Fifo!Init
<1> SUFFICES ASSUME RingInit PROVE FifoInv /\ Fifo!Init
  OBVIOUS
<1>1. mem = [c \in Cells |-> Blank] /\ chip = mem /\ hdr = Empty /\ chipHdr = Empty /\ pushed = 0 /\ busy = FALSE
  BY DEF RingInit
<1>2. OwnInv
  BY <1>1 DEF OwnInv, OnePlace, UpTo, Blank
<1>3. Same(mem, chip) /\ Lay(chip, chipHdr)
  BY <1>1 DEF Same, Lay
<1>4. FifoInv
  BY <1>1, <1>2, <1>3 DEF FifoInv
<1>5. mem \in Memory /\ Empty \in Header
  BY RingInvInit, HeaderFacts DEF RingInv
<1>6. QueueOf(mem, Empty) = << >>
  BY <1>5, LayQueue
<1>7. Fifo!Init
  BY <1>1, <1>6 DEF Fifo!Init, RingQueue
<1> QED BY <1>4, <1>7

LEMMA FifoNext ==
  "lap" \notin Faults /\ RingInv /\ FifoInv /\ [RingNext]_ringVars => FifoInv' /\ [Fifo!Next]_(Fifo!vars)
<1> SUFFICES ASSUME "lap" \notin Faults, RingInv, FifoInv, [RingNext]_ringVars
             PROVE  FifoInv' /\ [Fifo!Next]_(Fifo!vars)
  OBVIOUS
<1>1. ASSUME NEW z \in Sizes, RingPush(z) PROVE FifoInv' /\ Fifo!Next
  BY <1>1, FifoPush
<1>2. CASE Send \/ RingExpire
  BY <1>2, FifoStates DEF Fifo!vars
<1>3. CASE RingAck
  BY <1>3, FifoAck DEF Fifo!vars
<1>4. CASE Persist
  BY <1>4, FifoPersist
<1>5. CASE CleanRestart
  BY <1>5, FifoClean
<1>6. CASE RingPanic
  BY <1>6, FifoPanic
<1>7. CASE UNCHANGED ringVars
  <2>1. UNCHANGED <<mem, hdr, chip, chipHdr, busy, pushed, resets>>
    BY <1>7 DEF ringVars
  <2>2. FifoInv'
    BY <2>1 DEF FifoInv, OwnInv, PushedSince
  <2>3. RingQueue' = RingQueue /\ QueueOf(chip', chipHdr') = QueueOf(chip, chipHdr)
    BY <2>1 DEF RingQueue
  <2> QED BY <2>2, <2>3 DEF Fifo!vars
<1> QED BY <1>1, <1>2, <1>3, <1>4, <1>5, <1>6, <1>7 DEF RingNext

(* The bytes implement the queue: for every size of the ring, of the entries *)
(* and of their header, each operation on the cells, and each restart from   *)
(* whatever a panic left of them, is a step of RecordFifo.                   *)
THEOREM RingIsFifo == "lap" \notin Faults => (RingSpec => ImplementsFifo)
<1> SUFFICES ASSUME "lap" \notin Faults PROVE RingSpec => ImplementsFifo
  OBVIOUS
<1>1. RingInit => RingInv /\ FifoInv /\ Fifo!Init
  BY RingInvInit, FifoInit
<1>2. RingInv /\ FifoInv /\ [RingNext]_ringVars => RingInv' /\ FifoInv' /\ [Fifo!Next]_(Fifo!vars)
  BY RingInvNext, FifoNext
<1> QED BY <1>1, <1>2, PTL DEF RingSpec, ImplementsFifo, Fifo!Spec
=============================================================================
