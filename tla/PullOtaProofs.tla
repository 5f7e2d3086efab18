---------------------------- MODULE PullOtaProofs ----------------------------
(***************************************************************************)
(* What holds of the firmware update for every number of images, faults    *)
(* and resets and every set of faults but "overlap": the partition that    *)
(* boots is one published image if that was offered with a sha256, what is *)
(* marked complete was verified then, a staged image replaces only the     *)
(* build that staged it, and no step, no reset and no boot takes a partial *)
(* image away.                                                             *)
(***************************************************************************)
EXTENDS PullOta, SequenceTheorems, TLAPS

TelePc == {"idle", "plan", "drop", "note", "open", "load", "store", "wipe", "mark",
           "unresume", "settings", "nvs_only", "nvs_load", "apply", "write", "restart"}
BusyPc == {"boot", "stale", "verify", "read", "write", "clean", "apply", "nvs", "nvs_cut",
           "restart", "blocked"}

ServerTypes ==
  /\ server \in [bin : Image, offer : Image, sums : SUBSET Image, settings : BOOLEAN]
  /\ running \in Image
PartTypes ==
  boot \in Seq(Chunk) /\ boot # <<>> /\ part \in Seq(Chunk) /\ updater \in {"none", "pull", "web"}
MetaFile == [on : BOOLEAN, size : 0..5, by : Image, sum : BOOLEAN]
CardTypes ==
  /\ fw \in [on : BOOLEAN, data : Seq(Chunk)] /\ (~fw.on => fw.data = <<>>)
  /\ meta \in MetaFile
  /\ resume \in Image \cup {NoResume, CutResume} /\ nvsFile \in {"none", "cut", "whole"}
  /\ nvs \in {"old", "new", "part", "blank"}
TaskTypes ==
  /\ main \in [pc : BusyPc \cup {"run", "upload"}, size : 0..5]
  /\ tele \in [pc : TelePc, img : Image, total : 0..5, body : Seq(Chunk), hash : Seq(Chunk)]
  /\ buf \in Chunk
SwitchTypes ==
  /\ pending \in BOOLEAN /\ checkNow \in BOOLEAN /\ active \in BOOLEAN /\ timer \in BOOLEAN
  /\ checked \in BOOLEAN /\ token \in BOOLEAN
TypeInv == ServerTypes /\ PartTypes /\ CardTypes /\ TaskTypes /\ SwitchTypes

(* While the main task flashes or checks the card, the telemetry task leaves *)
(* the card alone: it has nothing to do, or waits for the restart.           *)
TaskInv ==
  /\ main.pc \in BusyPc => tele.pc \in {"idle", "restart"} /\ ~checkNow
  /\ checkNow => tele.pc = "idle"
  /\ pending => tele.pc = "restart"

(* A download has the hash of what is on the card, and marks it only then.   *)
TeleLoad ==
  /\ tele.pc \in {"drop", "note", "open", "load", "store", "wipe"} => ~meta.on
  /\ tele.pc = "drop" /\ fw.on => ~Resumable
  /\ tele.pc = "note" => ~fw.on
  /\ tele.pc = "open" => Len(fw.data) < Length(tele.img)
  /\ tele.pc \in {"load", "store"} => fw.on /\ tele.hash = fw.data
  /\ tele.pc = "load" => tele.total = Len(fw.data) + Len(tele.body)
  /\ tele.pc = "store" => tele.total = Len(fw.data) + Len(tele.body) + 1
  /\ tele.pc = "mark" => (HasSum => fw.data = Whole(tele.img)) /\ (meta.on => meta.size = 0)
LoadInv == TeleLoad /\ MetaMeansVerified

(* What is staged in this run was staged by the build that runs.             *)
StageInv ==
  /\ pending \/ tele.pc \in {"unresume", "settings"} => (meta.on => meta.by = running)
  /\ main.pc = "verify" => (meta.on => meta.by = running)
  /\ main.pc \in {"read", "write"} => meta.on /\ meta.by = running

(* The other partition has the head of the image that is written there.      *)
HeadOf(p, d) == Len(p) <= Len(d) /\ \A k \in 1..Len(p) : p[k] = d[k]
FlashInv ==
  /\ BootsWhole
  /\ main.pc \in {"read", "write"} =>
       /\ fw.on /\ Len(fw.data) = main.size /\ main.size > 0
       /\ meta.sum => \E i \in Image : fw.data = Whole(i)
       /\ HeadOf(part, fw.data)
  /\ main.pc = "write" => Len(part) < main.size /\ buf = fw.data[Len(part) + 1]
  /\ main.pc = "upload" => updater = "web" /\ HeadOf(part, Whole(0))

(* A resume note names an image that was offered with a sum, no later one    *)
(* than the download under way, whose own it is from Open on.                *)
Loading == tele.pc \in {"open", "load", "store", "wipe", "mark"}
NoteInv ==
  /\ resume \in Image => resume \in server.sums /\ resume <= server.offer
  /\ Loading \/ tele.pc \in {"plan", "drop", "note"} => tele.img <= server.offer
  /\ tele.pc \in {"plan", "drop"} /\ resume \in Image => resume <= tele.img
  /\ tele.pc = "note" => HasSum /\ resume \notin Image
  /\ Loading /\ resume \in Image => resume = tele.img

(* Beside a meta file there is no partial image, nor where the main task     *)
(* removes the files.                                                        *)
NoPartial == fw.on /\ resume \in Image => Len(fw.data) >= Length(resume)
PartialInv ==
  /\ meta.on \/ tele.pc \in {"mark", "unresume"} => NoPartial
  /\ pending \/ tele.pc = "settings" => resume = NoResume
  /\ main.pc = "verify" /\ ~meta.on => resume \notin Image
  /\ main.pc \in {"stale", "clean"} /\ fw.on => meta.on

OtaInv == TypeInv /\ TaskInv /\ LoadInv /\ StageInv /\ FlashInv /\ NoteInv /\ PartialInv

-----------------------------------------------------------------------------
(* An image is a sequence of two or three chunks, the first of its build.    *)
LEMMA WholeProperties ==
  ASSUME NEW i \in Image
  PROVE  /\ Whole(i) \in Seq(Chunk) /\ Len(Whole(i)) = Length(i) /\ Length(i) \in 2..3
         /\ Build(Whole(i)) = i
<1>1. Length(i) \in 2..3
  BY DEF Length
<1>2. \A k \in 1..Length(i) : <<i, k>> \in Chunk
  BY <1>1 DEF Chunk
<1>3. Whole(i) \in [1..Length(i) -> Chunk]
  BY <1>2 DEF Whole
<1>4. Whole(i) \in Seq(Chunk) /\ Len(Whole(i)) = Length(i)
  BY <1>1, <1>3
<1>5. Whole(i)[1] = <<i, 1>>
  BY <1>1 DEF Whole
<1> QED BY <1>1, <1>4, <1>5 DEF Build

(* What boots names a build by its first chunk, damaged or not.              *)
LEMMA BuildOf ==
  ASSUME NEW c \in Seq(Chunk), c # <<>>
  PROVE  Build(c) \in Image
<1>1. 0 \in Image
  BY OtaAssumption DEF Image
<1>2. c[1] \in Chunk
  BY EmptySeq, LenProperties, ElementOfSeq
<1>3. \A x \in Chunk : x[1] \in Image
  BY <1>1 DEF Chunk, Bad
<1> QED BY <1>2, <1>3 DEF Build

(* A publication names an image for the first time: what is on its way has   *)
(* a sum as before, or none as before.                                       *)
LEMMA PublishKeepsSum ==
  ASSUME OtaInv, PublishMeta
  PROVE  /\ tele' = tele
         /\ Loading \/ tele.pc \in {"plan", "drop", "note"} => (HasSum' <=> HasSum)
<1>1. /\ server \in [bin : Image, offer : Image, sums : SUBSET Image, settings : BOOLEAN]
      /\ Image \subseteq Int
  BY OtaAssumption DEF OtaInv, TypeInv, ServerTypes, Image
<1>2. tele.img \in Image
  BY DEF OtaInv, TypeInv, TaskTypes
<1>3. tele' = tele /\ server'.sums \in {server.sums, server.sums \cup {server.bin}} /\ server.offer < server.bin
  BY <1>1 DEF PublishMeta, ramVars
<1>4. ASSUME Loading \/ tele.pc \in {"plan", "drop", "note"}
      PROVE  tele.img # server.bin
  <2>1. tele.img <= server.offer
    BY <1>4 DEF OtaInv, NoteInv
  <2>2. server.offer \in Int /\ server.bin \in Int /\ tele.img \in Int
    BY <1>1, <1>2
  <2> QED BY <1>3, <2>1, <2>2
<1> QED BY <1>3, <1>4 DEF HasSum

(* The number of images, the chunks and the files at first.                  *)
LEMMA InitOta == Init => OtaInv
<1> SUFFICES ASSUME Init PROVE OtaInv
  OBVIOUS
<1> USE OtaAssumption DEF Init
<1>0. 0 \in Image /\ <<>> \in Seq(Chunk) /\ Len(<<>>) = 0 /\ Bad \in Chunk
  BY EmptySeq DEF Image, Chunk
<1>1. ServerTypes
  BY <1>0 DEF ServerTypes
<1>2. PartTypes
  <2>1. Whole(0) \in Seq(Chunk) /\ Len(Whole(0)) # 0
    BY <1>0, WholeProperties
  <2> QED BY <1>0, <2>1, EmptySeq DEF PartTypes
<1>3. CardTypes
  BY <1>0 DEF CardTypes, NoFile, NoMeta, MetaFile
<1>4. TaskTypes
  BY <1>0 DEF TaskTypes, BusyPc, TelePc, Idle
<1>5. SwitchTypes
  BY Zenon DEF SwitchTypes
<1>6. TaskInv
  BY DEF TaskInv, Idle
<1>7. LoadInv
  BY DEF LoadInv, TeleLoad, Idle, MetaMeansVerified, NoMeta
<1>8. StageInv
  BY DEF StageInv, NoMeta, Idle
<1>9. FlashInv
  BY <1>0 DEF FlashInv, BootsWhole
<1>10. NoResume \notin Image
  BY DEF NoResume, Image
<1>11. NoteInv
  BY <1>10 DEF NoteInv, Loading, Idle
<1>12. PartialInv
  BY <1>10 DEF PartialInv, NoMeta, Idle
<1> QED BY <1>1, <1>2, <1>3, <1>4, <1>5, <1>6, <1>7, <1>8, <1>9, <1>11, <1>12 DEF OtaInv, TypeInv

-----------------------------------------------------------------------------
(* The server publishes the images one by one; a restart runs the one that   *)
(* boots.                                                                    *)
LEMMA NextServerTypes ==
  ASSUME OtaInv, [Next]_vars
  PROVE  ServerTypes'
<1>0. ServerTypes /\ boot \in Seq(Chunk) /\ boot # <<>>
  BY DEF OtaInv, TypeInv, PartTypes
<1> USE DEF ServerTypes
<1>1. CASE PublishBin \/ PublishMeta
  <2>1. server.bin \in Image /\ server.sums \cup {server.bin} \in SUBSET Image
    BY <1>0
  <2>2. server.bin < MaxImage => server.bin + 1 \in Image
    BY <2>1, OtaAssumption DEF Image
  <2> QED BY <1>0, <1>1, <2>1, <2>2 DEF PublishBin, PublishMeta
<1>2. CASE Trigger \/ Check \/ Plan \/ DropOld \/ NoteTarget \/ Open \/ Receive \/ Store \/
            Verify \/ Wipe \/ Mark \/ Unresume \/ StageSettings \/ SettingsOnly \/ ApplySettings
  BY <1>0, <1>2
  DEF Trigger, Check, Plan, DropOld, NoteTarget, Open, Receive, Store, Verify, Wipe, Mark,
      Unresume, StageSettings, SettingsOnly, ApplySettings, others
<1>3. CASE Boot \/ RemoveStale \/ Standby \/ FlashBegin \/ FlashRead \/ FlashWrite \/ FlashEnd
            \/ FlashDone \/ FlashSettings \/ StartTimer
  BY <1>0, <1>3
  DEF Boot, RemoveStale, Standby, FlashBegin, FlashRead, FlashWrite, FlashEnd, FlashDone,
      FlashSettings, StartTimer, teleVars
<1>4. CASE WebPage
  BY <1>0, <1>4 DEF WebPage, UploadBegin, UploadChunk, UploadEnd, webVars
<1>5. CASE Restart \/ Crash
  BY <1>0, <1>5, BuildOf DEF Restart, Crash, Restarted
<1>6. CASE UNCHANGED vars
  BY <1>0, <1>6 DEF vars
<1> QED BY <1>1, <1>2, <1>3, <1>4, <1>5, <1>6
        DEF Next, Server, Telemetry, MainTask, WebPage

(* Update.write() appends what was read or received.                         *)
LEMMA NextPartTypes ==
  ASSUME OtaInv, [Next]_vars
  PROVE  PartTypes'
<1>0. PartTypes /\ buf \in Chunk /\ <<>> \in Seq(Chunk)
  BY EmptySeq DEF OtaInv, TypeInv, TaskTypes
<1> USE DEF PartTypes
<1>1. CASE Server \/ Check \/ Plan \/ DropOld \/ NoteTarget \/ Open \/ Receive \/ Store \/
            Verify \/ Wipe \/ Mark \/ Unresume \/ StageSettings \/ SettingsOnly \/ ApplySettings
  BY <1>0, <1>1
  DEF Server, PublishBin, PublishMeta, Trigger, Check, Plan, DropOld, NoteTarget, Open, Receive,
      Store, Verify, Wipe, Mark, Unresume, StageSettings, SettingsOnly, ApplySettings, others,
      partVars
<1>2. CASE Boot \/ RemoveStale \/ Standby \/ FlashBegin \/ FlashRead \/ FlashDone \/
            FlashSettings \/ StartTimer
  BY <1>0, <1>2
  DEF Boot, RemoveStale, Standby, FlashBegin, FlashRead, FlashDone, FlashSettings, StartTimer,
      partVars
<1>3. CASE FlashWrite
  BY <1>0, <1>3, AppendProperties DEF FlashWrite
<1>4. CASE FlashEnd
  <2>1. Len(part) > 0
    BY <1>4 DEF FlashEnd, OtaInv, FlashInv
  <2>2. part # <<>>
    BY <2>1, EmptySeq
  <2> QED BY <1>0, <1>4, <2>2 DEF FlashEnd
<1>5. CASE UploadBegin \/ UploadEnd
  <2>1. UploadEnd => part # <<>>
    <3>1. UploadEnd => Len(part) > 0
      BY DEF UploadEnd, Length
    <3> QED BY <3>1, EmptySeq
  <2> QED BY <1>0, <1>5, <2>1 DEF UploadBegin, UploadEnd
<1>6. CASE UploadChunk
  <2>1. /\ boot' = boot /\ updater' \in {updater, "none"}
        /\ part' = part \/ (Len(part) < Length(0) /\ part' = Append(part, Whole(0)[Len(part) + 1]))
    BY <1>6 DEF UploadChunk, UploadFails
  <2>2. CASE part' = part
    BY <1>0, <2>1, <2>2
  <2>3. CASE Len(part) < Length(0) /\ part' = Append(part, Whole(0)[Len(part) + 1])
    <3>1. 0 \in Image
      BY OtaAssumption DEF Image
    <3>2. Len(part) + 1 \in 1..Len(Whole(0))
      BY <1>0, <2>3, <3>1, WholeProperties, LenProperties
    <3>3. Whole(0)[Len(part) + 1] \in Chunk
      BY <3>1, <3>2, WholeProperties, ElementOfSeq
    <3>4. part' \in Seq(Chunk)
      BY <1>0, <2>3, <3>3, AppendProperties
    <3> QED BY <1>0, <2>1, <3>4
  <2> QED BY <2>1, <2>2, <2>3
<1>7. CASE Restart \/ Crash
  BY <1>0, <1>7 DEF Restart, Crash, Restarted
<1>8. CASE UNCHANGED vars
  BY <1>0, <1>8 DEF vars, partVars
<1> QED BY <1>1, <1>2, <1>3, <1>4, <1>5, <1>6, <1>7, <1>8
        DEF Next, Server, Telemetry, MainTask, WebPage

(* The files that are written: none, one with chunks, the meta files.        *)
LEMMA FileValues ==
  /\ NoFile \in [on : BOOLEAN, data : Seq(Chunk)] /\ ~NoFile.on /\ NoFile.data = <<>>
  /\ \A d \in Seq(Chunk) : File(d) \in [on : BOOLEAN, data : Seq(Chunk)] /\ File(d).on /\ File(d).data = d
  /\ NoMeta \in MetaFile /\ CutMeta \in MetaFile
  /\ \A n \in 0..5, i \in Image, b \in BOOLEAN :
       [on |-> TRUE, size |-> n, by |-> i, sum |-> b] \in MetaFile
  /\ ~NoMeta.on /\ CutMeta.on /\ CutMeta.size = 0
<1>1. <<>> \in Seq(Chunk)
  BY EmptySeq
<1>2. 0 \in Image
  BY OtaAssumption DEF Image
<1>3. NoFile \in [on : BOOLEAN, data : Seq(Chunk)] /\ ~NoFile.on /\ NoFile.data = <<>>
  BY <1>1 DEF NoFile
<1>4. \A d \in Seq(Chunk) : File(d) \in [on : BOOLEAN, data : Seq(Chunk)] /\ File(d).on /\ File(d).data = d
  BY DEF File
<1>5. NoMeta \in MetaFile /\ ~NoMeta.on
  BY <1>2 DEF NoMeta, MetaFile
<1>6. CutMeta \in MetaFile /\ CutMeta.on /\ CutMeta.size = NoMeta.size
  BY <1>5 DEF CutMeta, MetaFile
<1>7. CutMeta \in MetaFile /\ CutMeta.on /\ CutMeta.size = 0
  BY <1>6 DEF NoMeta
<1>8. \A n \in 0..5, i \in Image, b \in BOOLEAN :
        [on |-> TRUE, size |-> n, by |-> i, sum |-> b] \in MetaFile
  BY DEF MetaFile
<1> QED BY <1>3, <1>4, <1>5, <1>7, <1>8

(* The files on the card keep their types.                                   *)
LEMMA NextCardTypes ==
  ASSUME OtaInv, [Next]_vars
  PROVE  CardTypes'
<1>0. /\ CardTypes /\ buf \in Chunk /\ tele.img \in Image /\ tele.total \in 0..5 /\ running \in Image
      /\ fw.data \in Seq(Chunk)
  BY DEF OtaInv, TypeInv, TaskTypes, ServerTypes, CardTypes
<1> USE DEF CardTypes
<1>1. CASE Server \/ WebPage
  BY <1>0, <1>1
  DEF Server, PublishBin, PublishMeta, Trigger, WebPage, UploadBegin, UploadChunk, UploadEnd,
      webVars, sdVars
<1>2. CASE Check \/ Receive \/ Verify
  BY <1>0, <1>2 DEF Check, Receive, Verify, sdVars
<1>3. CASE Plan
  BY <1>0, <1>3, FileValues DEF Plan, others
<1>4. CASE DropOld
  BY <1>0, <1>4, FileValues DEF DropOld
<1>5. CASE NoteTarget
  BY <1>0, <1>5 DEF NoteTarget
<1>6. CASE Open
  BY <1>0, <1>6, FileValues DEF Open
<1>7. CASE Store
  <2>1. Append(fw.data, buf) \in Seq(Chunk)
    BY <1>0, AppendProperties
  <2>2. File(Append(fw.data, buf)) \in [on : BOOLEAN, data : Seq(Chunk)] /\ File(Append(fw.data, buf)).on
    BY <2>1, FileValues
  <2> QED BY <1>0, <1>7, <2>2 DEF Store
<1>8. CASE Wipe
  BY <1>0, <1>8, FileValues DEF Wipe
<1>9. CASE Mark
  <2>1. HasSum \in BOOLEAN
    BY DEF HasSum
  <2>2. [on |-> TRUE, size |-> tele.total, by |-> running, sum |-> HasSum] \in MetaFile
    BY <1>0, <2>1, FileValues
  <2> QED BY <1>0, <1>9, <2>2, FileValues DEF Mark
<1>10. CASE Unresume \/ StageSettings \/ SettingsOnly
  BY <1>0, <1>10 DEF Unresume, StageSettings, SettingsOnly
<1>11. CASE ApplySettings
  BY <1>0, <1>11 DEF ApplySettings, Erase, ReadFails, Write, WriteFails
<1>12. CASE Boot
  BY <1>0, <1>12, FileValues DEF Boot, sdVars
<1>13. CASE RemoveStale
  BY <1>0, <1>13, FileValues DEF RemoveStale
<1>14. CASE Standby \/ FlashRead \/ FlashWrite
  BY <1>0, <1>14 DEF Standby, FlashRead, FlashWrite, sdVars
<1>15. CASE FlashBegin
  BY <1>0, <1>15, FileValues DEF FlashBegin
<1>16. CASE FlashEnd
  BY <1>0, <1>16, FileValues DEF FlashEnd
<1>17. CASE FlashDone
  BY <1>0, <1>17, FileValues DEF FlashDone
<1>18. CASE StartTimer
  BY <1>0, <1>18 DEF StartTimer, sdVars
<1>19. CASE FlashSettings
  BY <1>0, <1>19 DEF FlashSettings, Erase, Refuse, ReadFails, Write, WriteCut, WriteFails
<1>20. CASE Restart \/ Crash
  BY <1>0, <1>20 DEF Restart, Crash, Restarted, sdVars
<1>21. CASE UNCHANGED vars
  BY <1>0, <1>21 DEF vars, sdVars
<1> QED BY <1>1, <1>2, <1>3, <1>4, <1>5, <1>6, <1>7, <1>8, <1>9, <1>10, <1>11, <1>12, <1>13,
           <1>14, <1>15, <1>16, <1>17, <1>18, <1>19, <1>20, <1>21
        DEF Next, Server, Telemetry, MainTask, WebPage

(* A download starts with what the card has and what the server sends:       *)
(* never more than the longest image and a partial one.                      *)
LEMMA OpenEffect ==
  ASSUME OtaInv, Open
  PROVE  /\ fw.data \in Seq(Chunk) /\ (fw' = fw \/ fw' = File(fw.data))
         /\ \/ tele' = Idle
            \/ \E body \in Seq(Chunk), total \in 0..5 :
                 /\ total = Len(fw.data) + Len(body) /\ fw' = File(fw.data)
                 /\ tele' = [tele EXCEPT !.pc = "load", !.hash = fw.data, !.body = body,
                                         !.total = total]
<1>1. fw.data \in Seq(Chunk) /\ server.bin \in Image /\ tele.img \in Image
  BY DEF OtaInv, TypeInv, CardTypes, ServerTypes, TaskTypes
<1>2. Len(fw.data) \in Nat /\ Len(fw.data) < Length(tele.img) /\ Length(tele.img) \in 2..3
  BY <1>1, LenProperties, WholeProperties DEF OtaInv, LoadInv, TeleLoad, Open
<1> DEFINE file == Whole(server.bin)
<1>3. file \in Seq(Chunk) /\ Len(file) \in Nat /\ Len(file) <= 3
  BY <1>1, WholeProperties
<1> HIDE DEF file
<1>4. CASE tele' = Idle
  BY <1>1, <1>4 DEF Open, Start
<1>s. ASSUME NEW body \in Seq(Chunk), Start(body), fw' = File(fw.data), NEW c \in Nat, c = Len(body), c <= 3
      PROVE  \E b \in Seq(Chunk), total \in 0..5 :
               /\ total = Len(fw.data) + Len(b) /\ fw' = File(fw.data)
               /\ tele' = [tele EXCEPT !.pc = "load", !.hash = fw.data, !.body = b, !.total = total]
  <2>1. PICK a : a = Len(fw.data)
    OBVIOUS
  <2>2. a \in Nat /\ a <= 2
    BY <1>2, <2>1
  <2>3. a + c \in 0..5
    BY <1>s, <2>2
  <2>4. tele' = [tele EXCEPT !.pc = "load", !.hash = fw.data, !.body = body, !.total = a + c]
    BY <1>s, <2>1 DEF Start
  <2> QED BY <1>s, <2>1, <2>3, <2>4
<1>5. CASE Len(fw.data) < Len(file) /\ Start(SubSeq(file, Len(fw.data) + 1, Len(file))) /\ fw' = File(fw.data)
  <2> DEFINE m == Len(fw.data) + 1
             n == Len(file)
  <2>1. m \in Nat /\ n \in Nat /\ m <= n /\ 1 <= m /\ n <= 3 /\ \A k \in m..n : file[k] \in Chunk
    BY <1>2, <1>3, <1>5, ElementOfSeq
  <2>2. SubSeq(file, m, n) \in Seq(Chunk) /\ Len(SubSeq(file, m, n)) = n - m + 1
    <3> HIDE DEF m, n
    <3> QED BY <1>3, <2>1, SubSeqProperties
  <2>3. n - m + 1 \in Nat /\ n - m + 1 <= 3
    <3> HIDE DEF m, n
    <3> QED BY <2>1
  <2>4. PICK c \in Nat : c = Len(SubSeq(file, m, n)) /\ c <= 3
    BY <2>2, <2>3
  <2> QED BY <1>1, <1>5, <1>s, <2>2, <2>4
<1>6. CASE Start(file) /\ fw' = File(fw.data)
  <2>1. PICK c \in Nat : c = Len(file) /\ c <= 3
    BY <1>3
  <2> QED BY <1>1, <1>3, <1>6, <1>s, <2>1
<1> QED BY <1>1, <1>4, <1>5, <1>6 DEF Open, file

(* The tasks keep their types.                                               *)
LEMMA NextTaskTypes ==
  ASSUME OtaInv, [Next]_vars
  PROVE  TaskTypes'
<1>0. /\ main \in [pc : BusyPc \cup {"run", "upload"}, size : 0..5]
      /\ tele \in [pc : TelePc, img : Image, total : 0..5, body : Seq(Chunk), hash : Seq(Chunk)]
      /\ buf \in Chunk
  BY DEF OtaInv, TypeInv, TaskTypes
<1>a. /\ meta.size \in 0..5 /\ fw.data \in Seq(Chunk) /\ server.offer \in Image
      /\ Bad \in Chunk
  BY OtaAssumption DEF OtaInv, TypeInv, CardTypes, MetaFile, ServerTypes, Chunk
<1>b. Idle \in [pc : TelePc, img : Image, total : 0..5, body : Seq(Chunk), hash : Seq(Chunk)]
  <2>1. 0 \in Image /\ <<>> \in Seq(Chunk)
    BY OtaAssumption, EmptySeq DEF Image
  <2> QED BY <2>1 DEF Idle, TelePc
<1> USE DEF TaskTypes, TelePc, BusyPc
<1>1. CASE Server \/ FlashWrite \/ UploadBegin
  BY <1>0, <1>1
  DEF Server, PublishBin, PublishMeta, Trigger, FlashWrite, UploadBegin, GiveUp, Main, ramVars,
      webVars, teleVars
<1>2. CASE Check
  BY ZenonT(60), <1>0, <1>2, <1>a, <1>b DEF Check, Go, others
<1>3. CASE Plan \/ DropOld \/ NoteTarget
  BY <1>0, <1>3 DEF Plan, DropOld, NoteTarget, Go, others
<1>4. CASE Open
  <2>1. main' = main /\ buf' = buf
    BY <1>4 DEF Open, others
  <2> QED BY <1>0, <1>b, <1>4, <2>1, OpenEffect
<1>5. CASE Receive
  <2>1. main' = main
    BY <1>5 DEF Receive, others
  <2>2. CASE tele' = Idle /\ UNCHANGED buf
    BY <1>0, <1>b, <2>1, <2>2
  <2>3. CASE tele.body # <<>> /\ buf' \in {Head(tele.body), Bad} /\ tele' = [tele EXCEPT !.pc = "store", !.body = Tail(tele.body)]
    <3>1. Head(tele.body) \in Chunk /\ Tail(tele.body) \in Seq(Chunk)
      BY <1>0, <2>3, HeadTailProperties
    <3> QED BY <1>0, <1>a, <2>1, <2>3, <3>1
  <2> QED BY <1>5, <2>2, <2>3 DEF Receive
<1>6. CASE Store
  <2>1. main' = main /\ buf' = buf
    BY <1>6 DEF Store, others
  <2>2. CASE tele' = Idle
    BY <1>0, <1>b, <2>1, <2>2
  <2>3. CASE tele' = [tele EXCEPT !.pc = "load", !.hash = Append(tele.hash, buf)]
    <3>1. Append(tele.hash, buf) \in Seq(Chunk)
      BY <1>0, AppendProperties
    <3> QED BY <1>0, <2>1, <2>3, <3>1
  <2> QED BY <1>6, <2>2, <2>3 DEF Store
<1>7. CASE Verify \/ Wipe \/ Mark
  BY <1>0, <1>7, <1>b DEF Verify, Wipe, Mark, Go, others
<1>8. CASE Unresume \/ StageSettings \/ SettingsOnly
  BY <1>0, <1>8, <1>b DEF Unresume, StageSettings, SettingsOnly, Go, others
<1>9. CASE ApplySettings
  BY <1>0, <1>9, <1>b DEF ApplySettings, Go, others
<1>10. CASE Boot \/ RemoveStale \/ Standby
  BY <1>0, <1>10 DEF Boot, RemoveStale, Standby, Main, teleVars
<1>11. CASE FlashBegin
  BY <1>0, <1>11, <1>a DEF FlashBegin, GiveUp, Main, teleVars
<1>12. CASE FlashRead
  <2>1. main' \in [pc : BusyPc \cup {"run", "upload"}, size : 0..5] /\ tele' = tele
    BY <1>0, <1>12 DEF FlashRead, GiveUp, Main, teleVars
  <2>2. CASE buf' = buf
    BY <1>0, <2>1, <2>2
  <2>3. CASE Len(part) < Len(fw.data) /\ buf' = fw.data[Len(part) + 1]
    <3>1. Len(part) \in Nat /\ Len(fw.data) \in Nat
      BY <1>a, LenProperties DEF OtaInv, TypeInv, PartTypes
    <3>2. buf' \in Chunk
      BY <1>a, <2>3, <3>1, ElementOfSeq
    <3> QED BY <1>0, <2>1, <3>2
  <2> QED BY <1>12, <2>2, <2>3 DEF FlashRead
<1>13. CASE FlashEnd \/ FlashDone \/ StartTimer
  BY <1>0, <1>13 DEF FlashEnd, FlashDone, StartTimer, GiveUp, Main, teleVars
<1>14. CASE FlashSettings
  BY <1>0, <1>14 DEF FlashSettings, Main, teleVars
<1>15. CASE UploadChunk \/ UploadEnd
  BY <1>0, <1>15 DEF UploadChunk, UploadEnd, UploadFails, Main, webVars
<1>16. CASE Restart \/ Crash
  BY <1>0, <1>16, <1>a, <1>b DEF Restart, Crash, Restarted
<1>17. CASE UNCHANGED vars
  BY <1>0, <1>17 DEF vars, ramVars
<1> QED BY <1>1, <1>2, <1>3, <1>4, <1>5, <1>6, <1>7, <1>8, <1>9, <1>10, <1>11, <1>12, <1>13,
           <1>14, <1>15, <1>16, <1>17
        DEF Next, Server, Telemetry, MainTask, WebPage

(* The flags stay Boolean.                                                   *)
LEMMA NextSwitchTypes ==
  ASSUME OtaInv, [Next]_vars
  PROVE  SwitchTypes'
<1>0. SwitchTypes /\ server.settings \in BOOLEAN /\ meta.sum \in BOOLEAN
  BY DEF OtaInv, TypeInv, ServerTypes, CardTypes, MetaFile
<1> USE DEF SwitchTypes
<1>1. CASE PublishBin \/ PublishMeta \/ Trigger
  BY Zenon, <1>0, <1>1 DEF PublishBin, partVars, sdVars, ramVars, PublishMeta, Trigger
<1>2. CASE Check
  BY Zenon, <1>0, <1>2 DEF Check, Go, others, partVars, sdVars
<1>3. CASE Plan \/ DropOld \/ NoteTarget
  BY Zenon, <1>0, <1>3 DEF Plan, Go, others, partVars, DropOld, NoteTarget
<1>4. CASE Open
  BY Zenon, <1>0, <1>4 DEF Open, Start, others, partVars
<1>5. CASE Receive \/ Store \/ Verify
  BY Zenon, <1>0, <1>5 DEF Receive, others, partVars, sdVars, Store, Verify, Go
<1>6. CASE Wipe
  BY Zenon, <1>0, <1>6 DEF Wipe, Go, others, partVars
<1>7. CASE Mark
  BY Zenon, <1>0, <1>7 DEF Mark, Go, others, partVars
<1>8. CASE Unresume
  BY Zenon, <1>0, <1>8 DEF Unresume, Go, others, partVars
<1>9. CASE StageSettings
  BY Zenon, <1>0, <1>9 DEF StageSettings, Go, others, partVars
<1>10. CASE SettingsOnly
  BY Zenon, <1>0, <1>10 DEF SettingsOnly, Go, others, partVars
<1>11. CASE ApplySettings
  BY Zenon, <1>0, <1>11 DEF ApplySettings, Erase, ReadFails, Write, WriteFails, Go, others, partVars
<1>12. CASE Boot
  BY Zenon, <1>0, <1>12 DEF Boot, Main, sdVars, partVars, teleVars
<1>13. CASE RemoveStale
  BY Zenon, <1>0, <1>13 DEF RemoveStale, Main, partVars, teleVars
<1>14. CASE Standby
  BY Zenon, <1>0, <1>14 DEF Standby, Main, sdVars, partVars, teleVars
<1>15. CASE FlashBegin
  BY Zenon, <1>0, <1>15 DEF FlashBegin, GiveUp, Main, teleVars
<1>16. CASE FlashRead
  BY Zenon, <1>0, <1>16 DEF FlashRead, GiveUp, Main, sdVars, teleVars
<1>17. CASE FlashWrite
  BY Zenon, <1>0, <1>17 DEF FlashWrite, GiveUp, Main, sdVars, teleVars
<1>18. CASE FlashEnd
  BY Zenon, <1>0, <1>18 DEF FlashEnd, GiveUp, Main, teleVars
<1>19. CASE FlashDone
  BY Zenon, <1>0, <1>19 DEF FlashDone, Main, partVars, teleVars
<1>20. CASE FlashSettings
  BY Zenon, <1>0, <1>20
  DEF FlashSettings, Erase, Refuse, ReadFails, Write, WriteCut, WriteFails, Main, partVars, teleVars
<1>21. CASE StartTimer
  BY Zenon, <1>0, <1>21 DEF StartTimer, Main, partVars, sdVars, teleVars
<1>22. CASE UploadBegin
  BY Zenon, <1>0, <1>22 DEF UploadBegin, Main, sdVars, webVars
<1>23. CASE UploadChunk
  BY Zenon, <1>0, <1>23 DEF UploadChunk, UploadFails, Main, sdVars, webVars
<1>24. CASE UploadEnd
  BY Zenon, <1>0, <1>24 DEF UploadEnd, UploadFails, Main, sdVars, webVars
<1>25. CASE Restart \/ Crash
  BY Zenon, <1>0, <1>25 DEF Restart, Restarted, sdVars, Crash
<1>26. CASE UNCHANGED vars
  BY Zenon, <1>0, <1>26 DEF vars, partVars, sdVars, ramVars
<1> QED BY <1>1, <1>2, <1>3, <1>4, <1>5, <1>6, <1>7, <1>8, <1>9, <1>10, <1>11, <1>12, <1>13,
           <1>14, <1>15, <1>16, <1>17, <1>18, <1>19, <1>20, <1>21, <1>22, <1>23, <1>24, <1>25,
           <1>26
        DEF Next, Server, Telemetry, MainTask, WebPage

-----------------------------------------------------------------------------
(* Unless the server asks for a check while the boot flashes, the tasks take *)
(* turns at the card.                                                        *)
LEMMA NextTaskInv ==
  ASSUME OtaInv, [Next]_vars, "overlap" \notin Faults
  PROVE  TaskInv'
<1>0. /\ TaskInv /\ pending \in BOOLEAN /\ checkNow \in BOOLEAN
      /\ tele \in [pc : TelePc, img : Image, total : 0..5, body : Seq(Chunk), hash : Seq(Chunk)]
      /\ main \in [pc : BusyPc \cup {"run", "upload"}, size : 0..5]
  BY DEF OtaInv, TypeInv, TaskTypes, SwitchTypes
<1> USE DEF TaskInv, BusyPc
<1>1. CASE PublishBin \/ PublishMeta
  BY <1>0, <1>1 DEF PublishBin, partVars, sdVars, ramVars, PublishMeta
<1>2. CASE Trigger
  BY <1>0, <1>2 DEF Trigger, partVars, sdVars
<1>3. CASE Check
  BY <1>0, <1>3 DEF Idle, Check, Go, others, sdVars
<1>4. CASE Plan \/ DropOld \/ NoteTarget
  BY <1>0, <1>4 DEF Plan, Go, others, DropOld, NoteTarget
<1>5. CASE Open
  BY <1>0, <1>5 DEF Idle, Open, Start, others
<1>6. CASE Receive \/ Store
  BY <1>0, <1>6 DEF Idle, Receive, others, sdVars, Store
<1>7. CASE Verify
  BY <1>0, <1>7 DEF Verify, Go, others, sdVars
<1>8. CASE Wipe \/ Mark
  BY <1>0, <1>8 DEF Idle, Wipe, Go, others, Mark
<1>9. CASE Unresume \/ StageSettings \/ SettingsOnly
  BY <1>0, <1>9 DEF Idle, Unresume, Go, others, StageSettings, SettingsOnly
<1>10. CASE ApplySettings
  BY <1>0, <1>10 DEF Idle, ApplySettings, Erase, ReadFails, Write, WriteFails, Go, others
<1>11. CASE Boot \/ RemoveStale \/ Standby
  BY <1>0, <1>11 DEF Boot, Main, sdVars, partVars, teleVars, RemoveStale, Standby
<1>12. CASE FlashBegin \/ FlashRead
  BY <1>0, <1>12 DEF FlashBegin, GiveUp, Main, teleVars, FlashRead, sdVars
<1>13. CASE FlashWrite \/ FlashEnd
  BY <1>0, <1>13 DEF FlashWrite, GiveUp, Main, sdVars, teleVars, FlashEnd
<1>14. CASE FlashDone \/ FlashSettings \/ StartTimer
  BY <1>0, <1>14
  DEF FlashDone, Main, partVars, teleVars, FlashSettings, Erase, Refuse, ReadFails, Write,
      WriteCut, WriteFails, StartTimer, sdVars
<1>15. CASE UploadBegin
  BY <1>0, <1>15 DEF UploadBegin, Main, sdVars, webVars
<1>16. CASE UploadChunk \/ UploadEnd
  BY <1>0, <1>16 DEF UploadChunk, UploadFails, Main, sdVars, webVars, UploadEnd
<1>17. CASE Restart \/ Crash
  BY <1>0, <1>17 DEF Idle, Restart, Restarted, sdVars, Crash
<1>18. CASE UNCHANGED vars
  BY <1>0, <1>18 DEF vars, partVars, sdVars, ramVars
<1> QED BY <1>1, <1>2, <1>3, <1>4, <1>5, <1>6, <1>7, <1>8, <1>9, <1>10, <1>11, <1>12, <1>13,
           <1>14, <1>15, <1>16, <1>17, <1>18
        DEF Next, Server, Telemetry, MainTask, WebPage

(* The telemetry task without a job.                                         *)
LEMMA IdleType ==
  /\ Idle \in [pc : TelePc, img : Image, total : 0..5, body : Seq(Chunk), hash : Seq(Chunk)]
  /\ Idle.pc = "idle"
<1>1. 0 \in Image /\ <<>> \in Seq(Chunk)
  BY OtaAssumption, EmptySeq DEF Image
<1> QED BY <1>1 DEF Idle, TelePc

(* The hash goes with the file.                                              *)
LEMMA NextTeleLoad ==
  ASSUME OtaInv, [Next]_vars
  PROVE  TeleLoad'
<1>0. /\ TaskInv /\ TeleLoad /\ pending \in BOOLEAN
      /\ tele \in [pc : TelePc, img : Image, total : 0..5, body : Seq(Chunk), hash : Seq(Chunk)]
      /\ main \in [pc : BusyPc \cup {"run", "upload"}, size : 0..5]
      /\ fw \in [on : BOOLEAN, data : Seq(Chunk)] /\ (~fw.on => fw.data = <<>>)
      /\ meta \in MetaFile
  BY DEF OtaInv, TypeInv, TaskTypes, CardTypes, SwitchTypes, LoadInv
<1> USE DEF TaskInv, TeleLoad, BusyPc, MetaFile
<1>p. CASE PublishMeta
  <2>1. UNCHANGED <<fw, meta, resume, tele>>
    BY <1>p DEF PublishMeta, sdVars, ramVars
  <2>2. tele.pc \in {"drop", "mark"} => (HasSum' <=> HasSum)
    BY <1>p, PublishKeepsSum DEF Loading
  <2>3. tele.pc = "drop" => (Resumable' <=> Resumable)
    BY <2>1, <2>2 DEF Resumable
  <2> QED BY ONLY <1>0, <2>1, <2>2, <2>3 DEF TeleLoad
<1>1. CASE PublishBin \/ Trigger \/ UploadBegin \/ UploadChunk \/ UploadEnd \/
            StartTimer \/ FlashRead \/ FlashWrite \/ Standby \/ UNCHANGED vars
  <2>1. UNCHANGED <<fw, meta, resume, tele>>
    BY <1>1
    DEF PublishBin, sdVars, ramVars, Trigger, UploadBegin, webVars, UploadChunk, UploadEnd,
        StartTimer, teleVars, FlashRead, FlashWrite, Standby, vars
  <2>2. server'.sums = server.sums
    <3>1. server \in [bin : Image, offer : Image, sums : SUBSET Image, settings : BOOLEAN]
      BY DEF OtaInv, TypeInv, ServerTypes
    <3> QED BY <1>1, <3>1
            DEF PublishBin, Trigger, UploadBegin, webVars, UploadChunk, UploadEnd, StartTimer,
                teleVars, FlashRead, FlashWrite, Standby, vars
  <2>3. (HasSum' <=> HasSum) /\ (Resumable' <=> Resumable)
    BY <2>1, <2>2 DEF HasSum, Resumable
  <2> QED BY ONLY <1>0, <2>1, <2>3 DEF TeleLoad
<1>2. CASE Check
  BY ZenonT(60), <1>0, <1>2, IdleType DEF Check, Go, others, sdVars
<1>3. CASE Plan
  BY <1>0, <1>3, FileValues DEF Resumable, HasSum, Plan, Go, others
<1>4. CASE DropOld
  <2>1. meta' = meta /\ ~meta.on /\ tele.pc = "drop"
    BY <1>0, <1>4 DEF DropOld
  <2>2. CASE fw' = NoFile /\ tele' = tele
    BY <1>0, <2>1, <2>2, FileValues
  <2>3. CASE ~fw.on /\ tele' = tele /\ fw' = fw
    BY <1>0, <2>1, <2>3
  <2>4. CASE ~fw.on /\ fw' = fw /\ tele' = [tele EXCEPT !.pc = "note"]
    BY <1>0, <2>1, <2>4
  <2>5. CASE ~fw.on /\ fw' = fw /\ tele' = [tele EXCEPT !.pc = "open"]
    <3>1. Len(fw.data) < Length(tele.img)
      BY <1>0, <2>5, WholeProperties, EmptySeq
    <3> QED BY <1>0, <2>1, <2>5, <3>1
  <2> QED BY <1>4, <2>2, <2>3, <2>4, <2>5 DEF DropOld, Go
<1>5. CASE NoteTarget
  <2>1. ~fw.on /\ fw.data = <<>> /\ fw' = fw /\ meta' = meta
    BY <1>0, <1>5 DEF NoteTarget
  <2>2. tele' = [tele EXCEPT !.pc = "open"] /\ ~meta.on
    BY <1>0, <1>5 DEF NoteTarget, Go
  <2>3. 0 < Length(tele.img)
    BY <1>0, WholeProperties
  <2>4. Len(fw.data) < Length(tele.img)
    BY <2>1, <2>3, EmptySeq
  <2> QED BY <1>0, <2>1, <2>2, <2>4
<1>6. CASE Open
  <2>1. ~meta.on /\ meta' = meta /\ fw.data \in Seq(Chunk)
    BY <1>0, <1>6 DEF Open
  <2>2. CASE tele' = Idle
    BY <2>2, IdleType
  <2>3. ASSUME NEW body, NEW total, total = Len(fw.data) + Len(body), fw' = File(fw.data),
               tele' = [tele EXCEPT !.pc = "load", !.hash = fw.data, !.body = body, !.total = total]
        PROVE  TeleLoad'
    <3>1. fw'.on /\ fw'.data = fw.data
      BY <2>1, <2>3, FileValues
    <3>2. tele'.pc = "load" /\ tele'.hash = fw.data /\ tele'.body = body /\ tele'.total = total
      BY <1>0, <2>3
    <3> QED BY <2>1, <2>3, <3>1, <3>2
  <2> QED BY <1>6, <2>2, <2>3, OpenEffect
<1>7. CASE Receive
  <2>1. UNCHANGED <<fw, meta>> /\ tele.pc = "load" /\ tele.body # <<>>
    BY <1>7 DEF Receive, sdVars
  <2>2. CASE tele' = Idle
    BY <2>2, IdleType
  <2>3. CASE tele' = [tele EXCEPT !.pc = "store", !.body = Tail(tele.body)]
    <3>1. Len(Tail(tele.body)) = Len(tele.body) - 1 /\ Len(tele.body) \in Nat /\ Len(fw.data) \in Nat
      BY <1>0, <2>1, HeadTailProperties, LenProperties
    <3>2. /\ tele'.pc = "store" /\ tele'.body = Tail(tele.body) /\ tele'.total = tele.total
          /\ tele'.hash = tele.hash
      BY <1>0, <2>3
    <3> QED BY <1>0, <2>1, <3>1, <3>2
  <2> QED BY <1>7, <2>2, <2>3 DEF Receive
<1>8. CASE Store
  <2>1. meta' = meta /\ ~meta.on /\ tele.pc = "store" /\ fw.data \in Seq(Chunk) /\ buf \in Chunk
    BY <1>0, <1>8 DEF Store, OtaInv, TypeInv, TaskTypes
  <2>2. CASE tele' = Idle
    BY <2>2, IdleType
  <2>3. CASE /\ fw' = File(Append(fw.data, buf))
             /\ tele' = [tele EXCEPT !.pc = "load", !.hash = Append(tele.hash, buf)]
    <3>1. /\ Append(fw.data, buf) \in Seq(Chunk) /\ Len(Append(fw.data, buf)) = Len(fw.data) + 1
          /\ Len(fw.data) \in Nat /\ Len(tele.body) \in Nat
      BY <1>0, <2>1, AppendProperties, LenProperties
    <3>2. fw'.on /\ fw'.data = Append(fw.data, buf)
      BY <2>3, <3>1, FileValues
    <3>3. /\ tele'.pc = "load" /\ tele'.hash = Append(tele.hash, buf) /\ tele'.body = tele.body
          /\ tele'.total = tele.total
      BY <1>0, <2>3
    <3> QED BY <1>0, <2>1, <3>1, <3>2, <3>3
  <2> QED BY <1>8, <2>2, <2>3 DEF Store
<1>9. CASE Verify
  <2>1. UNCHANGED <<fw, meta>> /\ tele.pc = "load"
    BY <1>9 DEF Verify, sdVars
  <2>2. CASE (HasSum => tele.hash = Whole(tele.img)) /\ tele' = [tele EXCEPT !.pc = "mark"]
    <3>1. server' = server /\ tele'.img = tele.img
      BY <1>0, <1>9, <2>2 DEF Verify, others
    <3>2. HasSum' <=> HasSum
      BY <3>1 DEF HasSum
    <3> QED BY <1>0, <2>1, <2>2, <3>2
  <2>3. CASE tele' = [tele EXCEPT !.pc = "wipe"]
    BY <1>0, <2>1, <2>3
  <2> QED BY <1>9, <2>2, <2>3 DEF Verify, Go
<1>10. CASE Wipe
  BY <1>0, <1>10, IdleType, FileValues DEF Wipe, Go, others
<1>11. CASE Mark
  BY <1>0, <1>11, IdleType, FileValues DEF Mark, Go, others, HasSum
<1>12. CASE Unresume
  BY <1>0, <1>12 DEF Unresume, Go, others
<1>13. CASE StageSettings
  BY <1>0, <1>13 DEF StageSettings, Go, others
<1>14. CASE SettingsOnly
  BY <1>0, <1>14, IdleType DEF SettingsOnly, Go, others
<1>15. CASE ApplySettings
  BY <1>0, <1>15, IdleType DEF ApplySettings, Erase, ReadFails, Write, WriteFails, Go, others
<1>16. CASE Boot
  BY <1>0, <1>16 DEF Boot, Main, sdVars, partVars, teleVars
<1>17. CASE RemoveStale
  BY <1>0, <1>17 DEF RemoveStale, Main, partVars, teleVars
<1>18. CASE FlashBegin
  BY <1>0, <1>18 DEF FlashBegin, GiveUp, Main, teleVars
<1>19. CASE FlashEnd
  BY <1>0, <1>19 DEF FlashEnd, GiveUp, Main, teleVars
<1>20. CASE FlashDone
  BY <1>0, <1>20 DEF FlashDone, Main, partVars, teleVars
<1>21. CASE FlashSettings
  BY <1>0, <1>21
  DEF FlashSettings, Erase, Refuse, ReadFails, Write, WriteCut, WriteFails, Main, partVars, teleVars
<1>22. CASE Restart \/ Crash
  BY <1>0, <1>22, IdleType DEF Restart, Restarted, sdVars, Crash
<1> QED BY <1>1, <1>2, <1>3, <1>4, <1>5, <1>6, <1>7, <1>8, <1>9, <1>10, <1>11, <1>12, <1>13,
           <1>14, <1>15, <1>16, <1>17, <1>18, <1>19, <1>20, <1>21, <1>22, <1>p
        DEF Next, Server, Telemetry, MainTask, WebPage

(* What is marked complete has been verified.                                *)
LEMMA NextMeta ==
  ASSUME OtaInv, [Next]_vars
  PROVE  MetaMeansVerified'
<1>0. /\ TaskInv /\ TeleLoad /\ MetaMeansVerified /\ tele.img \in Image /\ fw.data \in Seq(Chunk)
      /\ main \in [pc : BusyPc \cup {"run", "upload"}, size : 0..5]
  BY DEF OtaInv, TypeInv, TaskTypes, CardTypes, LoadInv
<1> USE DEF TaskInv, MetaMeansVerified
<1>1. CASE Server \/ WebPage \/ StartTimer \/ FlashRead \/ FlashWrite \/ Standby \/
            FlashSettings \/ UNCHANGED vars
  BY <1>0, <1>1
  DEF Server, PublishBin, PublishMeta, Trigger, WebPage, UploadBegin, UploadChunk, UploadEnd,
      StartTimer, FlashRead, FlashWrite, Standby, FlashSettings, vars, webVars, sdVars
<1>2. CASE Check \/ NoteTarget \/ Receive \/ Verify \/ Unresume \/ StageSettings \/
            SettingsOnly \/ ApplySettings \/ Restart \/ Crash
  BY <1>0, <1>2
  DEF Check, NoteTarget, Receive, Verify, Unresume, StageSettings, SettingsOnly, ApplySettings,
      Restart, Crash, Restarted, sdVars
<1>3. CASE Plan \/ DropOld \/ Open \/ Store \/ Wipe
  BY <1>0, <1>3, FileValues DEF Plan, DropOld, Open, Store, Wipe, TeleLoad
<1>4. CASE Mark
  <2>1. fw' = fw /\ tele.pc = "mark"
    BY <1>4 DEF Mark
  <2>2. CASE meta' = meta
    BY <1>0, <2>1, <2>2
  <2>3. CASE meta' = CutMeta
    BY <2>3, FileValues
  <2>4. CASE meta' = [on |-> TRUE, size |-> tele.total, by |-> running, sum |-> HasSum]
    BY <1>0, <2>1, <2>4 DEF TeleLoad
  <2> QED BY <1>4, <2>2, <2>3, <2>4 DEF Mark
<1>5. CASE Boot \/ RemoveStale
  BY <1>0, <1>5, FileValues DEF Boot, RemoveStale, sdVars
<1>6. CASE FlashBegin
  BY <1>0, <1>6, FileValues DEF FlashBegin
<1>7. CASE FlashEnd
  BY <1>0, <1>7, FileValues DEF FlashEnd
<1>8. CASE FlashDone
  BY <1>0, <1>8, FileValues DEF FlashDone
<1> QED BY <1>1, <1>2, <1>3, <1>4, <1>5, <1>6, <1>7, <1>8
        DEF Next, Server, Telemetry, MainTask, WebPage

(* A staged image names the build that runs until it is flashed or removed.  *)
LEMMA NextStage ==
  ASSUME OtaInv, [Next]_vars
  PROVE  StageInv'
<1>0. /\ TaskInv /\ StageInv /\ TeleLoad /\ pending \in BOOLEAN
      /\ tele \in [pc : TelePc, img : Image, total : 0..5, body : Seq(Chunk), hash : Seq(Chunk)]
      /\ main \in [pc : BusyPc \cup {"run", "upload"}, size : 0..5]
  BY DEF OtaInv, TypeInv, TaskTypes, SwitchTypes, LoadInv
<1> USE DEF TaskInv, StageInv, BusyPc
<1>1. CASE PublishBin \/ PublishMeta \/ Trigger
  BY <1>0, <1>1 DEF PublishBin, partVars, sdVars, ramVars, PublishMeta, Trigger
<1>2. CASE UploadBegin \/ UploadChunk \/ UploadEnd
  BY <1>0, <1>2 DEF UploadBegin, Main, sdVars, webVars, UploadChunk, UploadFails, UploadEnd
<1>3. CASE StartTimer \/ FlashWrite \/ Standby \/ UNCHANGED vars
  BY <1>0, <1>3
  DEF StartTimer, Main, partVars, sdVars, teleVars, FlashWrite, GiveUp, Standby, vars, ramVars
<1>4. CASE FlashRead
  BY <1>0, <1>4 DEF FlashRead, GiveUp, Main, sdVars, teleVars
<1>5. CASE Check
  BY <1>0, <1>5, IdleType DEF Check, Go, others, sdVars
<1>6. CASE Plan
  BY <1>0, <1>6, FileValues DEF Plan, Go, others
<1>7. CASE DropOld
  BY <1>0, <1>7 DEF DropOld, Go, others
<1>8. CASE NoteTarget
  BY <1>0, <1>8 DEF NoteTarget, Go, others
<1>9. CASE Open
  BY <1>0, <1>9, IdleType DEF Open, Start, others
<1>10. CASE Receive
  BY <1>0, <1>10, IdleType DEF Receive, others, sdVars
<1>11. CASE Store
  BY <1>0, <1>11, IdleType DEF Store, others
<1>12. CASE Verify
  BY <1>0, <1>12 DEF Verify, Go, others, sdVars
<1>13. CASE Wipe
  BY <1>0, <1>13, IdleType DEF Wipe, Go, others
<1>14. CASE Mark
  BY <1>0, <1>14, IdleType DEF Mark, Go, others
<1>15. CASE Unresume
  BY <1>0, <1>15 DEF Unresume, Go, others
<1>16. CASE StageSettings
  BY <1>0, <1>16 DEF StageSettings, Go, others
<1>17. CASE SettingsOnly
  BY <1>0, <1>17, IdleType DEF SettingsOnly, Go, others
<1>18. CASE ApplySettings
  BY <1>0, <1>18, IdleType DEF ApplySettings, Erase, ReadFails, Write, WriteFails, Go, others
<1>19. CASE Boot
  BY <1>0, <1>19 DEF Staged, Boot, Main, sdVars, partVars, teleVars
<1>20. CASE RemoveStale
  BY <1>0, <1>20, FileValues DEF RemoveStale, Main, partVars, teleVars
<1>21. CASE FlashBegin
  BY <1>0, <1>21, FileValues DEF FlashBegin, GiveUp, Main, teleVars
<1>22. CASE FlashEnd
  BY <1>0, <1>22 DEF FlashEnd, GiveUp, Main, teleVars
<1>23. CASE FlashDone
  BY <1>0, <1>23, FileValues DEF FlashDone, Main, partVars, teleVars
<1>24. CASE FlashSettings
  BY <1>0, <1>24
  DEF FlashSettings, Erase, Refuse, ReadFails, Write, WriteCut, WriteFails, Main, partVars, teleVars
<1>25. CASE Restart \/ Crash
  BY <1>0, <1>25, IdleType DEF Restart, Restarted, sdVars, Crash
<1> QED BY <1>1, <1>2, <1>3, <1>4, <1>5, <1>6, <1>7, <1>8, <1>9, <1>10, <1>11, <1>12, <1>13,
           <1>14, <1>15, <1>16, <1>17, <1>18, <1>19, <1>20, <1>21, <1>22, <1>23, <1>24, <1>25
        DEF Next, Server, Telemetry, MainTask, WebPage

(* A partition that has the head of an image, and one chunk more of it: when *)
(* it has them all, it is the image.                                         *)
LEMMA HeadGrows ==
  ASSUME NEW p \in Seq(Chunk), NEW d \in Seq(Chunk), HeadOf(p, d)
  PROVE  /\ Len(p) < Len(d) => HeadOf(Append(p, d[Len(p) + 1]), d)
         /\ Len(p) = Len(d) => p = d
<1>1. Len(p) \in Nat /\ Len(d) \in Nat
  BY LenProperties
<1>2. ASSUME Len(p) < Len(d)
      PROVE  HeadOf(Append(p, d[Len(p) + 1]), d)
  <2>1. d[Len(p) + 1] \in Chunk
    BY <1>1, <1>2, ElementOfSeq
  <2>2. /\ Len(Append(p, d[Len(p) + 1])) = Len(p) + 1
        /\ \A k \in 1..Len(p) : Append(p, d[Len(p) + 1])[k] = p[k]
        /\ Append(p, d[Len(p) + 1])[Len(p) + 1] = d[Len(p) + 1]
    BY <2>1, AppendProperties
  <2>3. ASSUME NEW k \in 1..(Len(p) + 1)
        PROVE  Append(p, d[Len(p) + 1])[k] = d[k]
    <3>1. CASE k = Len(p) + 1
      BY <2>2, <3>1
    <3>2. CASE k \in 1..Len(p)
      BY <2>2, <3>2 DEF HeadOf
    <3> QED BY <1>1, <3>1, <3>2
  <2> QED BY <1>1, <1>2, <2>2, <2>3 DEF HeadOf
<1>3. ASSUME Len(p) = Len(d)
      PROVE  p = d
  BY <1>3, SeqEqual DEF HeadOf
<1> QED BY <1>2, <1>3

(* What is flashed is the verified image, chunk by chunk, and it boots only  *)
(* when all of it is there.                                                  *)
LEMMA NextFlash ==
  ASSUME OtaInv, [Next]_vars
  PROVE  FlashInv'
<1>0. /\ TaskInv /\ StageInv /\ MetaMeansVerified /\ FlashInv
      /\ part \in Seq(Chunk) /\ fw.data \in Seq(Chunk) /\ Len(part) \in Nat /\ Len(fw.data) \in Nat
      /\ main \in [pc : BusyPc \cup {"run", "upload"}, size : 0..5]
  BY LenProperties DEF OtaInv, TypeInv, PartTypes, CardTypes, TaskTypes, LoadInv
<1>a. /\ 0 \in Image /\ Whole(0) \in Seq(Chunk) /\ Len(Whole(0)) = Length(0) /\ Length(0) \in 2..3
  <2>1. 0 \in Image
    BY OtaAssumption DEF Image
  <2> QED BY <2>1, WholeProperties
<1>b. \A d \in Seq(Chunk) : HeadOf(<<>>, d)
  BY EmptySeq, LenProperties DEF HeadOf
<1>1. ASSUME UNCHANGED <<boot, checked, part, updater, main>>,
             UNCHANGED <<fw, meta, buf>> \/ main.pc \notin {"read", "write"}
      PROVE  FlashInv'
  BY <1>0, <1>1 DEF FlashInv, BootsWhole, HeadOf
<1>2. ASSUME UNCHANGED <<boot, checked>>, main'.pc \notin {"read", "write", "upload"}
      PROVE  FlashInv'
  BY <1>0, <1>2 DEF FlashInv, BootsWhole
<1>3. CASE Server \/ UNCHANGED vars
  <2>1. UNCHANGED <<boot, checked, part, updater, main, fw, meta, buf>>
    BY <1>3 DEF Server, PublishBin, PublishMeta, Trigger, vars, partVars, sdVars, ramVars
  <2> QED BY <1>1, <2>1
<1>4. CASE Telemetry
  <2>1. UNCHANGED <<boot, checked, part, updater, main>>
    BY <1>4
    DEF Telemetry, Check, Plan, DropOld, NoteTarget, Open, Receive, Store, Verify, Wipe, Mark,
        Unresume, StageSettings, SettingsOnly, ApplySettings, others, partVars
  <2>2. tele.pc \in {"idle", "restart"} /\ ~checkNow => FALSE
    BY <1>4
    DEF Telemetry, Check, Plan, DropOld, NoteTarget, Open, Receive, Store, Verify, Wipe, Mark,
        Unresume, StageSettings, SettingsOnly, ApplySettings
  <2>3. main.pc \notin {"read", "write"}
    BY <1>0, <2>2 DEF TaskInv, BusyPc
  <2> QED BY <1>1, <2>1, <2>3
<1>5. CASE Boot \/ RemoveStale \/ Standby \/ FlashDone \/ FlashSettings \/ StartTimer
  <2>1. UNCHANGED <<boot, checked>>
    BY <1>5 DEF Boot, RemoveStale, Standby, FlashDone, FlashSettings, StartTimer, partVars
  <2>2. main'.pc \in {"run", "verify", "stale", "clean", "apply", "restart", "nvs", "nvs_cut", "blocked"}
    BY <1>0, <1>5 DEF Boot, RemoveStale, Standby, FlashDone, FlashSettings, StartTimer, Main
  <2> QED BY <1>2, <2>1, <2>2
<1>6. CASE FlashBegin
  <2>1. UNCHANGED <<boot, checked>>
    BY <1>6 DEF FlashBegin
  <2>2. CASE Main("run")
    BY <1>0, <1>2, <2>1, <2>2 DEF Main
  <2>3. CASE /\ fw.on /\ meta.on /\ meta.size > 0 /\ Len(fw.data) = meta.size /\ UNCHANGED <<fw, meta>>
             /\ part' = <<>> /\ main' = [pc |-> "read", size |-> meta.size]
    <3>1. meta.sum => \E i \in Image : fw.data = Whole(i)
      BY <1>0, <2>3 DEF MetaMeansVerified
    <3>2. HeadOf(part', fw'.data) /\ main'.pc = "read" /\ main'.size = meta.size
      BY <1>0, <1>b, <2>3
    <3>3. /\ fw'.on /\ Len(fw'.data) = main'.size /\ main'.size > 0
          /\ meta'.sum => \E i \in Image : fw'.data = Whole(i)
      BY <2>3, <3>1, <3>2
    <3> QED BY <1>0, <2>1, <3>2, <3>3 DEF FlashInv, BootsWhole
  <2> QED BY <1>6, <2>2, <2>3 DEF FlashBegin, GiveUp
<1>7. CASE FlashRead
  <2>1. UNCHANGED <<boot, checked, part, fw, meta>> /\ main.pc = "read" /\ Len(part) < main.size
    BY <1>7 DEF FlashRead, sdVars
  <2>2. CASE Main("run")
    BY <1>0, <1>2, <2>1, <2>2 DEF Main
  <2>3. CASE buf' = fw.data[Len(part) + 1] /\ Main("write")
    <3>1. main'.pc = "write" /\ main'.size = main.size
      BY <1>0, <2>3 DEF Main
    <3>2. /\ fw.on /\ Len(fw.data) = main.size /\ main.size > 0
          /\ meta.sum => \E i \in Image : fw.data = Whole(i)
          /\ HeadOf(part, fw.data)
      BY <1>0, <2>1 DEF FlashInv
    <3> QED BY <1>0, <2>1, <2>3, <3>1, <3>2 DEF FlashInv, BootsWhole, HeadOf
  <2> QED BY <1>7, <2>2, <2>3 DEF FlashRead, GiveUp
<1>8. CASE FlashWrite
  <2>1. UNCHANGED <<boot, checked, fw, meta, buf>> /\ main.pc = "write"
    BY <1>8 DEF FlashWrite, sdVars
  <2>2. CASE Main("run")
    BY <1>0, <1>2, <2>1, <2>2 DEF Main
  <2>3. CASE part' = Append(part, buf) /\ Main("read")
    <3>1. main'.pc = "read" /\ main'.size = main.size
      BY <1>0, <2>3 DEF Main
    <3>2. /\ fw.on /\ Len(fw.data) = main.size /\ main.size > 0
          /\ meta.sum => \E i \in Image : fw.data = Whole(i)
          /\ HeadOf(part, fw.data) /\ Len(part) < main.size /\ buf = fw.data[Len(part) + 1]
      BY <1>0, <2>1 DEF FlashInv
    <3>3. HeadOf(part', fw.data)
      BY <1>0, <2>3, <3>2, HeadGrows
    <3>4. /\ fw'.on /\ Len(fw'.data) = main'.size /\ main'.size > 0 /\ HeadOf(part', fw'.data)
          /\ meta'.sum => \E i \in Image : fw'.data = Whole(i)
      BY <2>1, <3>1, <3>2, <3>3
    <3> QED BY <1>0, <2>1, <3>1, <3>4 DEF FlashInv, BootsWhole
  <2> QED BY <1>8, <2>2, <2>3 DEF FlashWrite, GiveUp
<1>9. CASE FlashEnd
  <2>1. main'.pc \in {"run", "clean"}
    BY <1>0, <1>9 DEF FlashEnd, GiveUp, Main
  <2>2. CASE UNCHANGED <<boot, checked>>
    BY <1>2, <2>1, <2>2
  <2>3. CASE boot' = part /\ checked' = meta.sum
    <3>1. /\ Len(fw.data) = main.size /\ HeadOf(part, fw.data) /\ Len(part) = main.size
          /\ meta.sum => \E i \in Image : fw.data = Whole(i)
      BY <1>0, <1>9 DEF FlashEnd, FlashInv
    <3>2. part = fw.data
      BY <1>0, <3>1, HeadGrows
    <3> QED BY <2>1, <2>3, <3>1, <3>2 DEF FlashInv, BootsWhole
  <2> QED BY <1>9, <2>2, <2>3 DEF FlashEnd
<1>10. CASE UploadBegin
  <2>1. boot' = boot /\ checked' = checked /\ part' = <<>> /\ updater' = "web" /\ main'.pc = "upload"
    BY <1>0, <1>10 DEF UploadBegin, Main
  <2> QED BY <1>0, <1>a, <1>b, <2>1 DEF FlashInv, BootsWhole
<1>11. CASE UploadChunk
  <2>1. UNCHANGED <<boot, checked>> /\ main.pc = "upload" /\ Len(part) < Length(0)
    BY <1>11 DEF UploadChunk
  <2>2. CASE Main("run")
    BY <1>0, <1>2, <2>1, <2>2 DEF Main
  <2>3. CASE part' = Append(part, Whole(0)[Len(part) + 1]) /\ UNCHANGED <<updater, main>>
    <3>1. HeadOf(part, Whole(0)) /\ updater = "web"
      BY <1>0, <2>1 DEF FlashInv
    <3>2. HeadOf(part', Whole(0))
      BY <1>0, <1>a, <2>1, <2>3, <3>1, HeadGrows
    <3> QED BY <1>0, <2>1, <2>3, <3>1, <3>2 DEF FlashInv, BootsWhole
  <2> QED BY <1>11, <2>2, <2>3 DEF UploadChunk, UploadFails
<1>12. CASE UploadEnd
  <2>1. main'.pc = "run"
    BY <1>0, <1>12 DEF UploadEnd, Main
  <2>2. CASE UNCHANGED <<boot, checked>>
    BY <1>2, <2>1, <2>2
  <2>3. CASE boot' = part
    <3>1. HeadOf(part, Whole(0)) /\ Len(part) = Len(Whole(0))
      BY <1>0, <1>a, <1>12 DEF UploadEnd, FlashInv
    <3>2. part = Whole(0)
      BY <1>0, <1>a, <3>1, HeadGrows
    <3> QED BY <1>a, <2>1, <2>3, <3>2 DEF FlashInv, BootsWhole
  <2> QED BY <1>12, <2>2, <2>3 DEF UploadEnd
<1>13. CASE Restart \/ Crash
  <2>1. UNCHANGED <<boot, checked>> /\ main'.pc = "boot"
    BY <1>13 DEF Restart, Crash, Restarted
  <2> QED BY <1>2, <2>1
<1> QED BY <1>3, <1>4, <1>5, <1>6, <1>7, <1>8, <1>9, <1>10, <1>11, <1>12, <1>13
        DEF Next, MainTask, WebPage

(* The resume note stays with its image while other images are published.    *)
LEMMA NextNote ==
  ASSUME OtaInv, [Next]_vars
  PROVE  NoteInv'
<1>0. /\ NoteInv /\ resume \in Image \cup {NoResume, CutResume}
      /\ server \in [bin : Image, offer : Image, sums : SUBSET Image, settings : BOOLEAN]
      /\ tele \in [pc : TelePc, img : Image, total : 0..5, body : Seq(Chunk), hash : Seq(Chunk)]
  BY DEF OtaInv, TypeInv, ServerTypes, TaskTypes, CardTypes
<1>a. Image \subseteq Int /\ NoResume \notin Image /\ CutResume \notin Image
  BY OtaAssumption DEF Image, NoResume, CutResume
<1>1. CASE PublishMeta
  <2>1. /\ UNCHANGED <<tele, resume>> /\ server'.offer = server.bin /\ server.offer < server.bin
        /\ server.sums \subseteq server'.sums
    BY <1>0, <1>1 DEF PublishMeta, sdVars, ramVars
  <2>2. tele.pc = "note" => (HasSum' <=> HasSum)
    BY <1>1, PublishKeepsSum
  <2>3. \A i \in Image : i <= server.offer => i <= server'.offer
    <3>1. server.offer \in Int /\ server.bin \in Int /\ \A i \in Image : i \in Int
      BY <1>0, <1>a
    <3> QED BY <2>1, <3>1
  <2>4. tele.img \in Image
    BY <1>0
  <2> QED BY <1>0, <2>1, <2>2, <2>3, <2>4 DEF NoteInv, Loading
<1>2. ASSUME UNCHANGED <<resume, tele>>, server'.offer = server.offer, server'.sums = server.sums
      PROVE  NoteInv'
  BY <1>0, <1>2 DEF NoteInv, Loading, HasSum
<1>3. ASSUME UNCHANGED <<resume, server>>, tele'.pc \notin {"plan", "drop", "note", "open", "load", "store", "wipe", "mark"}
      PROVE  NoteInv'
  BY <1>0, <1>3 DEF NoteInv, Loading
<1>4. ASSUME UNCHANGED <<resume, server>>, tele'.img = tele.img, Loading, Loading'
      PROVE  NoteInv'
  BY <1>0, <1>4 DEF NoteInv, Loading
<1>n. ASSUME server' = server, resume' \notin Image, tele'.img = tele.img,
             tele.img <= server.offer, tele'.pc # "note"
      PROVE  NoteInv'
  BY <1>0, <1>n DEF NoteInv
<1>5. CASE PublishBin \/ Trigger
  BY <1>2, <1>0, <1>5 DEF PublishBin, Trigger, sdVars, ramVars
<1>6. CASE UNCHANGED vars
  BY <1>2, <1>6 DEF vars, sdVars, ramVars
<1>7. CASE WebPage \/ Boot \/ Standby \/ FlashBegin \/ FlashRead \/ FlashWrite \/ FlashEnd \/
            FlashDone \/ FlashSettings \/ StartTimer
  BY <1>2, <1>7
  DEF WebPage, UploadBegin, UploadChunk, UploadEnd, Boot, Standby, FlashBegin, FlashRead,
      FlashWrite, FlashEnd, FlashDone, FlashSettings, StartTimer, webVars, teleVars, sdVars
<1>8. CASE RemoveStale
  <2>1. server' = server /\ tele' = tele /\ resume' \in {resume, NoResume}
    BY <1>8 DEF RemoveStale, teleVars
  <2>2. CASE resume' = resume
    BY <1>2, <2>1, <2>2
  <2>3. CASE resume' = NoResume
    <3>1. main.pc = "stale" /\ tele.pc \in {"idle", "restart"}
      BY <1>8 DEF RemoveStale, OtaInv, TaskInv, BusyPc
    <3> QED BY <1>a, <2>1, <2>3, <3>1 DEF NoteInv, Loading
  <2> QED BY <2>1, <2>2, <2>3
<1>9. CASE Restart \/ Crash
  BY <1>3, <1>9, IdleType DEF Restart, Crash, Restarted, sdVars
<1>10. CASE Check
  <2>1. resume' = resume /\ server' = server
    BY <1>10 DEF Check, others, sdVars
  <2>2. CASE tele' = [Idle EXCEPT !.pc = "plan", !.img = server.offer]
    <3>1. tele'.pc = "plan" /\ tele'.img = server.offer
      BY <2>2, IdleType
    <3>2. resume \in Image => resume <= server.offer /\ resume \in server.sums
      BY <1>0 DEF NoteInv
    <3>3. server.offer <= server.offer
      <4>1. server.offer \in Int
        BY <1>0, <1>a
      <4> QED BY <4>1
    <3> QED BY <2>1, <3>1, <3>2, <3>3 DEF NoteInv, Loading
  <2>3. CASE tele' = [tele EXCEPT !.pc = "restart"] \/ tele' = [Idle EXCEPT !.pc = "nvs_only"] \/ tele' = Idle
    BY <1>0, <1>3, <2>1, <2>3, IdleType
  <2>4. CASE tele' = tele
    BY <1>2, <2>1, <2>4
  <2> QED BY <1>10, <2>2, <2>3, <2>4 DEF Check, Go
<1>11. CASE Plan
  <2>1. resume' = resume /\ server' = server /\ tele.pc = "plan"
    BY <1>11 DEF Plan, others
  <2>2. CASE Resumable /\ tele' = [tele EXCEPT !.pc = "open"]
    BY <1>0, <2>1, <2>2 DEF NoteInv, Loading, Resumable
  <2>3. CASE tele' = [tele EXCEPT !.pc = "drop"]
    BY <1>0, <2>1, <2>3 DEF NoteInv, Loading
  <2> QED BY <1>11, <2>2, <2>3 DEF Plan, Go
<1>12. CASE DropOld
  <2>1. server' = server /\ tele.pc = "drop" /\ tele.img <= server.offer
    BY <1>0, <1>12 DEF DropOld, others, NoteInv
  <2>2. CASE UNCHANGED <<resume, tele>>
    BY <1>2, <2>1, <2>2
  <2>3. CASE resume' = NoResume /\ tele' = tele
    BY <1>a, <1>n, <2>1, <2>3
  <2>4. CASE HasSum /\ resume' = CutResume /\ tele' = [tele EXCEPT !.pc = "note"]
    BY <1>0, <1>a, <2>1, <2>4 DEF NoteInv, Loading, HasSum
  <2>5. CASE resume = NoResume /\ resume' = resume /\ tele' = [tele EXCEPT !.pc = "open"]
    BY <1>0, <1>a, <1>n, <2>1, <2>5
  <2> QED BY <1>12, <2>2, <2>3, <2>4, <2>5 DEF DropOld, Go
<1>13. CASE NoteTarget
  <2>1. server' = server /\ HasSum /\ tele.img <= server.offer /\ resume' = tele.img
    BY <1>0, <1>13 DEF NoteTarget, others, NoteInv
  <2>2. tele'.pc = "open" /\ tele'.img = tele.img
    BY <1>0, <1>13 DEF NoteTarget, Go
  <2> QED BY <2>1, <2>2 DEF NoteInv, Loading, HasSum
<1>14. CASE Open
  <2>1. resume' = resume /\ server' = server /\ tele.pc = "open"
    BY <1>14 DEF Open, others
  <2>2. CASE tele' = Idle
    BY <1>3, <2>1, <2>2, IdleType
  <2>3. ASSUME NEW body, NEW total,
               tele' = [tele EXCEPT !.pc = "load", !.hash = fw.data, !.body = body, !.total = total]
        PROVE  NoteInv'
    BY <1>0, <1>4, <2>1, <2>3 DEF Loading
  <2> QED BY <1>14, <2>2, <2>3, OpenEffect
<1>15. CASE Receive \/ Store \/ Verify
  <2>1. resume' = resume /\ server' = server /\ Loading
    BY <1>15 DEF Receive, Store, Verify, others, sdVars, Loading
  <2>2. CASE tele' = Idle
    BY <1>3, <2>1, <2>2, IdleType
  <2>3. ASSUME NEW pc \in {"load", "store", "wipe", "mark"}, tele'.pc = pc, tele'.img = tele.img
        PROVE  NoteInv'
    BY <1>4, <2>1, <2>3 DEF Loading
  <2> QED BY <1>0, <1>15, <2>2, <2>3 DEF Receive, Store, Verify, Go
<1>16. CASE Wipe
  <2>1. server' = server
    BY <1>16 DEF Wipe, others
  <2>2. CASE UNCHANGED <<resume, tele>>
    BY <1>2, <2>1, <2>2
  <2>3. CASE resume' = NoResume /\ tele' = Idle
    BY <1>a, <2>1, <2>3, IdleType DEF NoteInv, Loading
  <2> QED BY <1>16, <2>2, <2>3 DEF Wipe
<1>17. CASE Mark
  <2>1. server' = server /\ resume' = resume
    BY <1>17 DEF Mark, others
  <2>2. CASE tele' = tele
    BY <1>2, <2>1, <2>2
  <2>3. CASE tele' = [tele EXCEPT !.pc = "unresume"]
    BY <1>0, <1>3, <2>1, <2>3
  <2> QED BY <1>17, <2>2, <2>3 DEF Mark, Go
<1>18. CASE Unresume
  <2>1. server' = server /\ resume' = NoResume /\ tele'.pc = "settings"
    BY <1>0, <1>18 DEF Unresume, others, Go
  <2> QED BY <1>a, <2>1 DEF NoteInv, Loading
<1>19. CASE StageSettings \/ SettingsOnly \/ ApplySettings
  <2>1. server' = server /\ resume' = resume
    BY <1>19 DEF StageSettings, SettingsOnly, ApplySettings, others
  <2>2. CASE tele' = tele
    BY <1>2, <2>1, <2>2
  <2>3. CASE tele'.pc \in {"idle", "nvs_load", "apply", "write", "restart"}
    BY <1>3, <2>1, <2>3
  <2> QED BY <1>0, <1>19, <2>2, <2>3, IdleType DEF StageSettings, SettingsOnly, ApplySettings, Go
<1> QED BY <1>1, <1>5, <1>6, <1>7, <1>8, <1>9, <1>10, <1>11, <1>12, <1>13, <1>14, <1>15, <1>16,
           <1>17, <1>18, <1>19
        DEF Next, Server, Telemetry, MainTask

(* A download that is marked is no partial one, and the main task has the    *)
(* meta file while it checks, flashes and removes.                           *)
LEMMA NextPartial ==
  ASSUME OtaInv, [Next]_vars
  PROVE  PartialInv'
<1>0. /\ TaskInv /\ TeleLoad /\ StageInv /\ NoteInv /\ PartialInv
      /\ tele \in [pc : TelePc, img : Image, total : 0..5, body : Seq(Chunk), hash : Seq(Chunk)]
      /\ main \in [pc : BusyPc \cup {"run", "upload"}, size : 0..5]
      /\ resume \in Image \cup {NoResume, CutResume} /\ pending \in BOOLEAN
      /\ fw.data \in Seq(Chunk)
  BY DEF OtaInv, TypeInv, TaskTypes, CardTypes, SwitchTypes, LoadInv
<1>a. NoResume \notin Image
  BY DEF Image, NoResume
<1>t. ASSUME Telemetry
      PROVE  /\ main' = main /\ main.pc \notin BusyPc /\ ~pending
             /\ (/\ meta'.on \/ tele'.pc \in {"mark", "unresume"} => NoPartial'
                 /\ pending' \/ tele'.pc = "settings" => resume' = NoResume) => PartialInv'
  <2>1. main' = main
    BY <1>t
    DEF Telemetry, Check, Plan, DropOld, NoteTarget, Open, Receive, Store, Verify, Wipe, Mark,
        Unresume, StageSettings, SettingsOnly, ApplySettings, others
  <2>2. (tele.pc = "idle" /\ checkNow) \/ tele.pc \notin {"idle", "restart"}
    BY <1>t
    DEF Telemetry, Check, Plan, DropOld, NoteTarget, Open, Receive, Store, Verify, Wipe, Mark,
        Unresume, StageSettings, SettingsOnly, ApplySettings
  <2>3. main.pc \notin BusyPc /\ ~pending
    BY <1>0, <2>2 DEF TaskInv
  <2> QED BY <2>1, <2>3 DEF PartialInv, BusyPc
<1>1. ASSUME UNCHANGED <<fw, meta, resume>>, pending' => pending,
             tele'.pc \in {"mark", "unresume", "settings"} => tele'.pc = tele.pc,
             main'.pc \in {"verify", "stale", "clean"} => main'.pc = main.pc \/ meta.on
      PROVE  PartialInv'
  BY <1>0, <1>1 DEF PartialInv, NoPartial
<1>2. CASE Server \/ UNCHANGED vars
  BY <1>1, <1>2 DEF Server, PublishBin, PublishMeta, Trigger, vars, sdVars, ramVars
<1>3. CASE WebPage
  <2>1. UNCHANGED <<fw, meta, resume, pending, tele>>
    BY <1>3 DEF WebPage, UploadBegin, UploadChunk, UploadEnd, webVars, sdVars
  <2>2. main'.pc \in {"upload", "run"}
    BY <1>0, <1>3 DEF WebPage, UploadBegin, UploadChunk, UploadEnd, UploadFails, Main
  <2> QED BY <1>1, <2>1, <2>2
<1>4. CASE Check \/ SettingsOnly \/ ApplySettings
  <2>1. UNCHANGED <<fw, meta, resume, pending, main>>
    BY <1>4 DEF Check, SettingsOnly, ApplySettings, others, sdVars
  <2>2. CASE Check
    <3>1. tele'.pc \in {tele.pc, "idle", "plan", "nvs_only", "restart"}
      BY <1>0, <2>2, IdleType DEF Check, Go
    <3> QED BY <1>1, <2>1, <3>1
  <2>3. CASE SettingsOnly \/ ApplySettings
    <3>1. tele'.pc \in {"nvs_load", "apply", "idle", "write", "restart"}
      BY <1>0, <2>3, IdleType DEF SettingsOnly, ApplySettings, Go
    <3> QED BY <1>1, <2>1, <3>1
  <2> QED BY <1>4, <2>2, <2>3
<1>5. CASE Plan
  <2>1. ~meta'.on /\ tele'.pc \in {"open", "drop"} /\ pending' = pending
    BY <1>0, <1>5, FileValues DEF Plan, Go
  <2> QED BY <1>t, <1>5, <2>1 DEF Telemetry
<1>6. CASE DropOld \/ NoteTarget \/ Open \/ Receive \/ Store \/ Wipe
  <2>1. ~meta'.on /\ pending' = pending
    BY <1>0, <1>6 DEF DropOld, NoteTarget, Open, Receive, Store, Wipe, TeleLoad, sdVars
  <2>2. tele'.pc \in {"drop", "note", "open", "load", "store", "wipe", "idle"}
    BY <1>0, <1>6, IdleType DEF DropOld, NoteTarget, Open, Start, Receive, Store, Wipe, Go
  <2> QED BY <1>t, <1>6, <2>1, <2>2 DEF Telemetry
<1>7. CASE Verify
  <2>1. ~meta'.on /\ pending' = pending /\ UNCHANGED <<fw, resume>> /\ fw.on /\ tele.hash = fw.data
    BY <1>0, <1>7 DEF Verify, TeleLoad, sdVars
  <2>2. resume \in Image => resume = tele.img /\ HasSum
    BY <1>0, <1>7 DEF Verify, NoteInv, Loading, HasSum
  <2>3. CASE (HasSum => tele.hash = Whole(tele.img)) /\ tele' = [tele EXCEPT !.pc = "mark"]
    <3>1. resume \in Image => fw.data = Whole(resume)
      BY <2>1, <2>2, <2>3
    <3>2. \A i \in Image : Len(Whole(i)) = Length(i) /\ Length(i) \in Int
      BY WholeProperties
    <3>3. NoPartial
      BY <3>1, <3>2 DEF NoPartial
    <3>4. NoPartial' /\ tele'.pc = "mark"
      BY <1>0, <2>1, <2>3, <3>3 DEF NoPartial
    <3> QED BY <1>t, <1>7, <2>1, <3>4 DEF Telemetry
  <2>4. CASE tele' = [tele EXCEPT !.pc = "wipe"]
    BY <1>0, <1>t, <1>7, <2>1, <2>4 DEF Telemetry
  <2> QED BY <1>7, <2>3, <2>4 DEF Verify, Go
<1>8. CASE Mark
  <2>1. UNCHANGED <<fw, resume, pending>> /\ tele'.pc \in {"mark", "unresume"} /\ NoPartial
    BY <1>0, <1>8 DEF Mark, Go, PartialInv
  <2>2. NoPartial'
    BY <2>1 DEF NoPartial
  <2> QED BY <1>t, <1>8, <2>1, <2>2 DEF Telemetry
<1>9. CASE Unresume \/ StageSettings
  <2>1. resume' = NoResume
    BY <1>0, <1>9 DEF Unresume, StageSettings, PartialInv
  <2>2. NoPartial'
    BY <1>a, <2>1 DEF NoPartial
  <2> QED BY <1>t, <1>9, <2>1, <2>2 DEF Telemetry
<1>10. CASE Boot
  <2>1. tele' = tele /\ pending' = pending /\ main.pc = "boot" /\ tele.pc \in {"idle", "restart"}
    BY <1>0, <1>10 DEF Boot, teleVars, TaskInv, BusyPc
  <2>2. CASE fw' = NoFile /\ Main("run") /\ UNCHANGED <<meta, resume>>
    <3>1. NoPartial' /\ main'.pc = "run"
      BY <1>0, <2>2, FileValues DEF NoPartial, Main
    <3> QED BY <1>0, <2>1, <2>2, <3>1 DEF PartialInv
  <2>3. CASE UNCHANGED sdVars /\ (Main("run") \/ (meta.on /\ (Main("verify") \/ Main("stale"))))
    <3>1. main'.pc \in {"verify", "stale", "clean"} => meta.on
      BY <1>0, <2>3 DEF Main
    <3> QED BY <1>1, <2>1, <2>3, <3>1 DEF sdVars
  <2> QED BY <1>10, <2>2, <2>3 DEF Boot, Staged
<1>11. CASE RemoveStale
  <2>1. tele' = tele /\ pending' = pending /\ main.pc = "stale" /\ tele.pc \in {"idle", "restart"}
    BY <1>0, <1>11 DEF RemoveStale, teleVars, TaskInv, BusyPc
  <2>2. CASE fw' = NoFile /\ UNCHANGED <<meta, resume, main>>
    <3>1. NoPartial' /\ ~fw'.on
      BY <2>2, FileValues DEF NoPartial
    <3> QED BY <1>0, <2>1, <2>2, <3>1 DEF PartialInv
  <2>3. CASE ~fw.on /\ meta' = NoMeta /\ UNCHANGED <<fw, resume, main>>
    BY <1>0, <2>1, <2>3, FileValues DEF PartialInv
  <2>4. CASE ~meta.on /\ resume' = NoResume /\ Main("run") /\ UNCHANGED <<fw, meta>>
    <3>1. main'.pc = "run"
      BY <1>0, <2>4 DEF Main
    <3> QED BY <1>0, <2>1, <2>4, <3>1 DEF PartialInv
  <2> QED BY <1>11, <2>2, <2>3, <2>4 DEF RemoveStale
<1>12. CASE Standby
  <2>1. UNCHANGED <<fw, meta, resume, pending, tele>> /\ resume = NoResume /\ main'.pc = "verify"
    BY <1>0, <1>12 DEF Standby, Main, teleVars, sdVars, PartialInv
  <2> QED BY <1>0, <1>a, <2>1 DEF PartialInv, NoPartial
<1>13. CASE FlashBegin \/ FlashEnd
  <2>1. tele' = tele /\ resume' = resume /\ (pending' => pending) /\ tele.pc \in {"idle", "restart"}
    BY <1>0, <1>13 DEF FlashBegin, FlashEnd, GiveUp, teleVars, TaskInv, BusyPc
  <2>2. CASE UNCHANGED <<fw, meta>> /\ main'.pc \in {"read", "run"}
    BY <1>1, <2>1, <2>2
  <2>3. CASE fw' = NoFile /\ meta' = NoMeta /\ Main("run")
    <3>1. ~meta'.on /\ main'.pc = "run"
      BY <1>0, <2>3, FileValues DEF Main
    <3> QED BY <1>0, <2>1, <3>1 DEF PartialInv
  <2>4. CASE FlashEnd /\ Main("clean") /\ UNCHANGED <<fw, meta>>
    <3>1. meta.on
      BY <1>0, <2>4 DEF FlashEnd, StageInv
    <3> QED BY <1>1, <2>1, <2>4, <3>1
  <2>5. CASE FlashBegin
    <3>1. Main("run") => main'.pc = "run"
      BY <1>0 DEF Main
    <3> QED BY <2>2, <2>3, <2>5, <3>1 DEF FlashBegin, GiveUp
  <2>6. CASE FlashEnd
    BY <2>3, <2>4, <2>6 DEF FlashEnd, GiveUp
  <2> QED BY <1>13, <2>5, <2>6
<1>14. CASE FlashRead \/ FlashWrite \/ FlashSettings \/ StartTimer
  <2>1. UNCHANGED <<fw, meta, resume, tele>> /\ (pending' => pending)
    BY <1>14 DEF FlashRead, FlashWrite, FlashSettings, StartTimer, GiveUp, teleVars, sdVars
  <2>2. main'.pc \in {"read", "write", "run", "nvs", "nvs_cut", "restart", "blocked"}
    BY <1>0, <1>14 DEF FlashRead, FlashWrite, FlashSettings, StartTimer, GiveUp, Main
  <2> QED BY <1>1, <2>1, <2>2
<1>15. CASE FlashDone
  <2>1. tele' = tele /\ resume' = resume /\ pending' = pending /\ tele.pc \in {"idle", "restart"}
    BY <1>0, <1>15 DEF FlashDone, teleVars, TaskInv, BusyPc
  <2>2. CASE fw' = NoFile /\ UNCHANGED <<meta, main>>
    <3>1. NoPartial' /\ ~fw'.on /\ main'.pc = "clean"
      BY <1>15, <2>2, FileValues DEF NoPartial, FlashDone
    <3> QED BY <1>0, <2>1, <2>2, <3>1 DEF PartialInv
  <2>3. CASE meta' = NoMeta /\ main'.pc \in {"apply", "restart"}
    BY <1>0, <2>1, <2>3, FileValues DEF PartialInv
  <2> QED BY <1>0, <1>15, <2>2, <2>3 DEF FlashDone, Main
<1>16. CASE Restart \/ Crash
  <2>1. UNCHANGED <<fw, meta, resume>> /\ ~pending' /\ tele'.pc = "idle" /\ main'.pc = "boot"
    BY <1>16, IdleType DEF Restart, Crash, Restarted, sdVars
  <2> QED BY <1>1, <2>1
<1> QED BY <1>2, <1>3, <1>4, <1>5, <1>6, <1>7, <1>8, <1>9, <1>10, <1>11, <1>12, <1>13, <1>14,
           <1>15, <1>16
        DEF Next, Telemetry, MainTask

-----------------------------------------------------------------------------
(* Every step keeps the invariant.                                           *)
LEMMA StepOta ==
  ASSUME OtaInv, [Next]_vars, "overlap" \notin Faults
  PROVE  OtaInv'
<1>1. TypeInv'
  BY NextServerTypes, NextPartTypes, NextCardTypes, NextTaskTypes, NextSwitchTypes DEF TypeInv
<1>2. TaskInv'
  BY NextTaskInv
<1>3. LoadInv'
  BY NextTeleLoad, NextMeta DEF LoadInv
<1> QED BY <1>1, <1>2, <1>3, NextStage, NextFlash, NextNote, NextPartial DEF OtaInv

(* Every state of a behaviour has the invariant.                             *)
LEMMA OtaAlways ==
  ASSUME "overlap" \notin Faults
  PROVE  Spec => []OtaInv
<1>1. OtaInv /\ [Next]_vars => OtaInv'
  BY StepOta
<1> QED BY <1>1, InitOta, PTL DEF Spec

(* The state of the firmware update keeps its types.                         *)
THEOREM TypeCorrect ==
  ASSUME "overlap" \notin Faults
  PROVE  Spec => []TypeOK
<1>1. OtaInv => TypeOK
  BY DEF OtaInv, TypeInv, ServerTypes, PartTypes, CardTypes, TaskTypes, SwitchTypes, MetaFile, TypeOK
<1> QED BY <1>1, OtaAlways, PTL

(* What boots is one published image, whole, if it was offered with a        *)
(* sha256, for every number of images, resets, damaged and broken downloads  *)
(* and uploads (telelogger.ino:5066).                                        *)
THEOREM OnlyWholeImagesBoot ==
  ASSUME "overlap" \notin Faults
  PROVE  Spec => []BootsWhole
<1>1. OtaInv => BootsWhole
  BY DEF OtaInv, FlashInv
<1> QED BY <1>1, OtaAlways, PTL

(* A meta file beside a file of its size says that the image was verified,   *)
(* when it was offered with a sha256 (telelogger.ino:4856): the hash is of   *)
(* what the file holds, and neither changes after.                           *)
THEOREM OnlyVerifiedIsMarked ==
  ASSUME "overlap" \notin Faults
  PROVE  Spec => []MetaMeansVerified
<1>1. OtaInv => MetaMeansVerified
  BY DEF OtaInv, LoadInv
<1> QED BY <1>1, OtaAlways, PTL

(* The pull update replaces the build that staged the image and no other     *)
(* (telelogger.ino:2105).                                                    *)
THEOREM ReplacesItsOwnBuild ==
  ASSUME "overlap" \notin Faults
  PROVE  Spec => NotOverAnotherBuild
<1>1. ASSUME OtaInv, [Next]_vars
      PROVE  boot' # boot /\ updater = "pull" => meta.by = running
  <2> SUFFICES ASSUME boot' # boot, updater = "pull"
               PROVE  meta.by = running
    OBVIOUS
  <2>1. CASE Server \/ Telemetry \/ UNCHANGED vars
    BY <2>1
    DEF Server, PublishBin, PublishMeta, Trigger, vars, partVars, Telemetry, Check, Plan, DropOld,
        NoteTarget, Open, Receive, Store, Verify, Wipe, Mark, Unresume, StageSettings,
        SettingsOnly, ApplySettings, others
  <2>2. CASE FlashEnd
    BY <1>1, <2>2 DEF FlashEnd, OtaInv, StageInv
  <2>3. CASE Boot \/ RemoveStale \/ Standby \/ FlashBegin \/ FlashRead \/ FlashWrite \/ FlashDone
             \/ FlashSettings \/ StartTimer
    BY <2>3
    DEF Boot, RemoveStale, Standby, FlashBegin, FlashRead, FlashWrite, FlashDone, FlashSettings,
        StartTimer, partVars
  <2>4. CASE UploadBegin \/ UploadChunk \/ UploadEnd
    BY <1>1, <2>4 DEF UploadBegin, UploadChunk, UploadEnd, OtaInv, FlashInv
  <2>5. CASE Restart \/ Crash
    BY <2>5 DEF Restart, Crash, Restarted
  <2> QED BY <1>1, <2>1, <2>2, <2>3, <2>4, <2>5 DEF Next, MainTask, WebPage
<1>2. OtaInv /\ [Next]_vars => [boot' # boot /\ updater = "pull" => meta.by = running]_vars
  BY <1>1
<1> QED BY <1>2, OtaAlways, PTL DEF Spec, NotOverAnotherBuild

(* A partial image of the offered target stays on the card with its note,    *)
(* and only grows, in every step: every interruption of its download, resets *)
(* and what the boot after one does with the card (telelogger.ino:4847,      *)
(* 2126), but for a sum found wrong.                                         *)
THEOREM PartialStays ==
  ASSUME "overlap" \notin Faults
  PROVE  Spec => PartialKept
<1> DEFINE Kept == /\ fw'.on /\ resume' = resume
                   /\ Len(fw'.data) >= Len(fw.data)
                   /\ \A k \in DOMAIN fw.data : fw'.data[k] = fw.data[k]
<1>1. ASSUME OtaInv, [Next]_vars, Partial, tele.pc # "wipe"
      PROVE  Kept
  <2>0. /\ TaskInv /\ TeleLoad /\ fw.data \in Seq(Chunk) /\ buf \in Chunk /\ StageInv
        /\ tele \in [pc : TelePc, img : Image, total : 0..5, body : Seq(Chunk), hash : Seq(Chunk)]
        /\ main \in [pc : BusyPc \cup {"run", "upload"}, size : 0..5] /\ Len(fw.data) \in Nat
        /\ NoteInv /\ PartialInv /\ server.offer \in Image /\ fw.on
    BY <1>1, LenProperties
    DEF OtaInv, TypeInv, TaskTypes, CardTypes, ServerTypes, LoadInv, Partial
  <2>a. resume \in Image /\ resume # NoResume /\ resume # CutResume
    BY <1>1, <2>0 DEF Partial, Image, NoResume, CutResume
  <2>b. ~NoPartial
    BY <1>1, <2>0, <2>a, WholeProperties DEF NoPartial, Partial
  <2>1. ~meta.on /\ ~pending /\ tele.pc \notin {"mark", "unresume", "settings", "note"}
    BY <2>0, <2>a, <2>b DEF PartialInv, TeleLoad
  <2>2. main.pc \notin {"stale", "clean", "verify", "read", "write"}
    BY <2>0, <2>1, <2>a DEF PartialInv, StageInv
  <2>3. tele.pc # "drop"
    <3> SUFFICES ASSUME tele.pc = "drop" PROVE FALSE
      OBVIOUS
    <3>1. tele.img <= server.offer /\ resume <= tele.img /\ resume = server.offer /\ resume \in server.sums
      BY <1>1, <2>0, <2>a DEF NoteInv, Partial
    <3>2. resume = tele.img
      BY <2>0, <3>1, OtaAssumption DEF Image
    <3>3. Len(fw.data) > 0
      BY <1>1, <2>0, EmptySeq DEF Partial
    <3>4. Resumable
      BY <1>1, <2>0, <3>1, <3>2, <3>3 DEF Resumable, HasSum, Partial
    <3> QED BY <2>0, <3>4 DEF TeleLoad
  <2>4. CASE UNCHANGED <<fw, resume>>
    BY <2>0, <2>4
  <2>5. CASE Server \/ WebPage \/ UNCHANGED vars \/ Restart \/ Crash
    BY <2>4, <2>5
    DEF Server, PublishBin, PublishMeta, Trigger, WebPage, UploadBegin, UploadChunk, UploadEnd,
        webVars, vars, sdVars, Restart, Crash, Restarted
  <2>6. CASE Boot \/ Standby \/ FlashSettings \/ StartTimer
    BY <2>1, <2>4, <2>6, <2>a DEF Boot, Standby, FlashSettings, StartTimer, sdVars
  <2>7. CASE RemoveStale \/ FlashBegin \/ FlashRead \/ FlashWrite \/ FlashEnd \/ FlashDone
    BY <2>2, <2>7 DEF RemoveStale, FlashBegin, FlashRead, FlashWrite, FlashEnd, FlashDone
  <2>8. CASE Check \/ Plan \/ Receive \/ Verify \/ SettingsOnly \/ ApplySettings
    BY <2>4, <2>8 DEF Check, Plan, Receive, Verify, SettingsOnly, ApplySettings, sdVars
  <2>9. CASE DropOld \/ NoteTarget \/ Wipe \/ Mark \/ Unresume \/ StageSettings
    BY <1>1, <2>1, <2>3, <2>9 DEF DropOld, NoteTarget, Wipe, Mark, Unresume, StageSettings
  <2>10. CASE Open
    <3>1. fw' \in {fw, File(fw.data)} /\ resume' = resume
      BY <2>10 DEF Open
    <3>2. fw'.on /\ fw'.data = fw.data
      BY <2>0, <3>1, FileValues
    <3> QED BY <2>0, <3>1, <3>2
  <2>11. CASE Store
    <3>1. fw' \in {fw, File(Append(fw.data, buf))} /\ resume' = resume
      BY <2>11 DEF Store
    <3>2. /\ Append(fw.data, buf) \in Seq(Chunk) /\ Len(Append(fw.data, buf)) = Len(fw.data) + 1
          /\ \A k \in 1..Len(fw.data) : Append(fw.data, buf)[k] = fw.data[k]
          /\ DOMAIN fw.data = 1..Len(fw.data)
      BY <2>0, AppendProperties, LenProperties
    <3>3. CASE fw' = fw
      BY <2>4, <3>1, <3>3
    <3>4. CASE fw' = File(Append(fw.data, buf))
      <4>1. fw'.on /\ fw'.data = Append(fw.data, buf)
        BY <3>2, <3>4, FileValues
      <4> QED BY <2>0, <3>1, <3>2, <4>1
    <3> QED BY <3>1, <3>3, <3>4
  <2> QED BY <1>1, <2>5, <2>6, <2>7, <2>8, <2>9, <2>10, <2>11 DEF Next, Telemetry, MainTask
<1>2. OtaInv /\ [Next]_vars => [Partial /\ tele.pc # "wipe" => Kept]_vars
  BY <1>1
<1> QED BY <1>2, OtaAlways, PTL DEF Spec, PartialKept
=============================================================================
