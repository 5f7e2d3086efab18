------------------------------ MODULE PullOta ------------------------------
(***************************************************************************)
(* The firmware update (telelogger.ino performPullOtaCheck(),              *)
(* performPullOtaFlash(), _applyNvsFromSD(), the check of the staged files *)
(* at boot; handlerOTA() of dataserver.cpp).                               *)
(*                                                                         *)
(* The telemetry task asks the server for its offer, downloads the image   *)
(* to the card (continuing a partial one of the same target), verifies it, *)
(* marks it as complete with the meta file and restarts.  The next boot    *)
(* flashes what is marked, applies the settings image and restarts again.  *)
(*                                                                         *)
(* An image is its number and its chunks; a chunk is what lies between two *)
(* flushes of the file (PULL_OTA_FLUSH_BYTES), so a reset loses the chunk  *)
(* in work and no other.  SHA-256 is equality of the chunks.  Of the NVS   *)
(* partition there are the settings and the replay cursor of the delivery  *)
(* queue.  Both transports run the same steps.  Update.end() accepts what  *)
(* was written; the check the ESP-IDF makes of an image is not counted on. *)
(***************************************************************************)
EXTENDS Integers, Sequences

CONSTANTS
  MaxImage,    (* bound: images published                                  *)
  MaxFault,    (* bound: faults                                            *)
  MaxBoot,     (* bound: resets that are faults                            *)
  Faults       (* which faults may happen: "crash" (a reset at any point), *)
               (* "link" (a connection fails or breaks), "corrupt" (a      *)
               (* chunk arrives damaged), "sd" (the card fails), "flash"   *)
               (* (the flash fails), "norange" (the server ignores Range), *)
               (* "nosum" (meta.json has no sha256), "upload" (an image    *)
               (* over the web page), "settings" (the server offers        *)
               (* settings), "overlap" (an OTA_READY while the boot        *)
               (* flashes)                                                 *)

ASSUME OtaAssumption ==
  /\ MaxImage \in Nat \ {0} /\ MaxFault \in Nat /\ MaxBoot \in Nat
  /\ Faults \subseteq {"crash", "link", "corrupt", "sd", "flash", "norange", "nosum",
                       "upload", "settings", "overlap"}

Image    == 0..MaxImage                 \* 0: the build flashed over USB
Length(i) == IF i = 1 THEN 3 ELSE 2
Whole(i) == [k \in 1..Length(i) |-> <<i, k>>]
Bad      == <<0, 0>>                    \* a chunk of no image
Chunk    == (Image \X (1..3)) \cup {Bad}
Build(content) == content[1][1]         \* __DATE__ __TIME__

NoFile   == [on |-> FALSE, data |-> <<>>]
File(d)  == [on |-> TRUE, data |-> d]
NoMeta   == [on |-> FALSE, size |-> 0, by |-> 0, sum |-> FALSE]
CutMeta  == [NoMeta EXCEPT !.on = TRUE] \* a reset left it without its text
NoResume == -2
CutResume == -1

VARIABLES
  server,    (* bin: the image at firmware.bin; offer: what meta.json names *)
             (* (publish_ota.py replaces the one, then the other); sums:   *)
             (* the images offered with a sha256                           *)
  boot,      (* the partition that boots next                              *)
  checked,   (* history: its image was compared with a sha256, or did not  *)
             (* come from the server                                       *)
  running,   (* the build that runs                                        *)
  part,      (* the other partition: what Update.write() has put there     *)
  updater,   (* who holds Update: "none", "pull", "web"                    *)
  fw,        (* /ota_fw.bin                                                *)
  meta,      (* /ota_meta.txt: size and the build that staged it; sum is   *)
             (* history: the file was compared with a sha256               *)
  resume,    (* /ota_resume.txt: the image the partial file belongs to     *)
  nvsFile,   (* /ota_nvs.bin: "none", "cut" (not yet whole), "whole"       *)
  nvs,       (* the NVS partition: "old", "new", "part" (settings are      *)
             (* missing), "blank" (OTA_TOKEN is missing too)               *)
  token,     (* OTA_TOKEN and OTA_INTERVAL as the boot read them are set   *)
  main,      (* the main task                                              *)
  tele,      (* the telemetry task: where it is, its job                   *)
  buf,       (* s_otaChunkBuf                                              *)
  active,    (* s_ota_active                                               *)
  timer,     (* the timer of a restart runs                                *)
  pending,   (* s_ota_pending                                              *)
  checkNow,  (* s_ota_check_now                                            *)
  faults, crashes

sdVars   == <<fw, meta, resume, nvsFile>>
partVars == <<boot, checked, part, updater>>
ramVars  == <<main, tele, buf, pending, checkNow, active, timer, token>>
vars == <<server, running, partVars, sdVars, nvs, ramVars, faults, crashes>>

Idle == [pc |-> "idle", img |-> 0, total |-> 0, body |-> <<>>, hash |-> <<>>]

Init ==
  /\ server = [bin |-> 0, offer |-> 0, sums |-> {}, settings |-> "settings" \in Faults]
  /\ boot = Whole(0) /\ checked = TRUE /\ running = 0 /\ part = <<>> /\ updater = "none"
  /\ fw = NoFile /\ meta = NoMeta /\ resume = NoResume /\ nvsFile = "none" /\ nvs = "old"
  /\ main = [pc |-> "boot", size |-> 0] /\ tele = Idle /\ buf = Bad
  /\ pending = FALSE /\ checkNow = FALSE /\ active = FALSE /\ timer = FALSE /\ token = TRUE
  /\ faults = 0 /\ crashes = 0

Fault(f) == f \in Faults /\ faults < MaxFault /\ faults' = faults + 1
Go(pc)   == tele' = [tele EXCEPT !.pc = pc]

-----------------------------------------------------------------------------
(* The server (publish_ota.py): first the file, then what meta.json says.    *)

PublishBin ==
  /\ server.bin = server.offer /\ server.bin < MaxImage
  /\ server' = [server EXCEPT !.bin = server.bin + 1]
  /\ UNCHANGED <<running, partVars, sdVars, nvs, ramVars, faults, crashes>>

PublishMeta ==
  /\ server.offer < server.bin
  /\ \/ server' = [server EXCEPT !.offer = server.bin, !.sums = @ \cup {server.bin}]
        /\ UNCHANGED faults
     \/ server' = [server EXCEPT !.offer = server.bin] /\ Fault("nosum")
  /\ UNCHANGED <<running, partVars, sdVars, nvs, ramVars, crashes>>

WantsSettings == server.settings /\ nvs # "new"

(* OTA_READY (onMessage()): while the boot flashes only with "overlap".      *)
Trigger ==
  /\ ~checkNow /\ tele.pc = "idle" /\ (server.offer # running \/ WantsSettings)
  /\ main.pc = "run" \/ ("overlap" \in Faults /\ main.pc # "boot")
  /\ checkNow' = TRUE
  /\ UNCHANGED <<server, running, partVars, sdVars, nvs, main, tele, buf, pending, active, timer,
                 token, faults, crashes>>

-----------------------------------------------------------------------------
(* performPullOtaCheck(), in the telemetry task. *)

others == <<server, running, partVars, main, active, timer, token, crashes>>

(* Without OTA_TOKEN or OTA_INTERVAL the request is left where it is.        *)
Check ==
  /\ tele.pc = "idle" /\ checkNow /\ token /\ ~active
  /\ checkNow' = FALSE
  /\ \/ pending /\ Go("restart") /\ UNCHANGED faults
     \/ ~pending /\ Fault("link") /\ UNCHANGED tele
     \/ /\ ~pending /\ UNCHANGED faults
        /\ tele' = IF server.offer # running
                   THEN [Idle EXCEPT !.pc = "plan", !.img = server.offer]
                   ELSE IF WantsSettings
                   THEN [Idle EXCEPT !.pc = "nvs_only"]
                   ELSE Idle
  /\ UNCHANGED <<others, sdVars, nvs, buf, pending>>

(* meta.json of the target has a sha256. *)
HasSum == tele.img \in server.sums

Resumable ==
  /\ fw.on /\ resume = tele.img /\ HasSum
  /\ Len(fw.data) > 0 /\ Len(fw.data) < Length(tele.img)

PlanKeepsMeta ==
  /\ tele.pc = "plan"
  /\ Go(IF Resumable THEN "open" ELSE "drop")
  /\ UNCHANGED <<others, sdVars, nvs, buf, pending, checkNow, faults>>
Plan ==
  /\ tele.pc = "plan"
  /\ meta' = NoMeta
  /\ Go(IF Resumable THEN "open" ELSE "drop")
  /\ UNCHANGED <<others, fw, resume, nvsFile, nvs, buf, pending, checkNow, faults>>

(* The old partial file, its resume file, and the new resume file: none for  *)
(* an image without a sum.                                                   *)
DropOld ==
  /\ tele.pc = "drop"
  /\ \/ fw.on /\ fw' = NoFile /\ UNCHANGED <<resume, tele>>
     \/ ~fw.on /\ resume # NoResume /\ resume' = NoResume /\ UNCHANGED <<fw, tele>>
     \/ ~fw.on /\ resume = NoResume /\ HasSum /\ resume' = CutResume /\ Go("note") /\ UNCHANGED fw
     \/ ~fw.on /\ resume = NoResume /\ ~HasSum /\ Go("open") /\ UNCHANGED <<fw, resume>>
  /\ UNCHANGED <<others, meta, nvsFile, nvs, buf, pending, checkNow, faults>>

NoteTarget ==
  /\ tele.pc = "note"
  /\ resume' = tele.img /\ Go("open")
  /\ UNCHANGED <<others, fw, meta, nvsFile, nvs, buf, pending, checkNow, faults>>

(* Open the file, hash what it holds, connect, send the request with Range,  *)
(* read the headers: the length there replaces the one of meta.json.         *)
Start(body) ==
  tele' = [tele EXCEPT !.pc = "load", !.hash = fw.data, !.body = body,
                       !.total = Len(fw.data) + Len(body)]
Open ==
  /\ tele.pc = "open"
  /\ LET have == Len(fw.data)
         file == Whole(server.bin)
     IN  \/ Fault("link") /\ tele' = Idle /\ fw' = File(fw.data)
         \/ Fault("sd") /\ tele' = Idle /\ UNCHANGED fw
         \/ /\ have < Len(file) /\ UNCHANGED faults
            /\ Start(SubSeq(file, have + 1, Len(file))) /\ fw' = File(fw.data)
         \/ have > 0 /\ Fault("norange") /\ Start(file) /\ fw' = File(fw.data)
         \/ have >= Len(file) /\ UNCHANGED faults /\ tele' = Idle /\ fw' = File(fw.data)
  /\ UNCHANGED <<others, meta, resume, nvsFile, nvs, buf, pending, checkNow>>

Receive ==
  /\ tele.pc = "load" /\ tele.body # <<>>
  /\ \/ /\ \/ buf' = Head(tele.body) /\ UNCHANGED faults
           \/ buf' = Bad /\ Fault("corrupt")
        /\ tele' = [tele EXCEPT !.pc = "store", !.body = Tail(tele.body)]
     \/ Fault("link") /\ tele' = Idle /\ UNCHANGED buf
  /\ UNCHANGED <<others, sdVars, nvs, pending, checkNow>>

Store ==
  /\ tele.pc = "store"
  /\ \/ /\ fw' = File(Append(fw.data, buf)) /\ UNCHANGED faults
        /\ tele' = [tele EXCEPT !.pc = "load", !.hash = Append(tele.hash, buf)]
     \/ Fault("sd") /\ tele' = Idle /\ UNCHANGED fw
  /\ UNCHANGED <<others, meta, resume, nvsFile, nvs, buf, pending, checkNow>>

(* A missing sum skips the check. *)
VerifyNothing ==
  /\ tele.pc = "load" /\ tele.body = <<>>
  /\ Go("mark")
  /\ UNCHANGED <<others, sdVars, nvs, buf, pending, checkNow, faults>>
Verify ==
  /\ tele.pc = "load" /\ tele.body = <<>>
  /\ Go(IF HasSum => tele.hash = Whole(tele.img) THEN "mark" ELSE "wipe")
  /\ UNCHANGED <<others, sdVars, nvs, buf, pending, checkNow, faults>>

Wipe ==
  /\ tele.pc = "wipe"
  /\ \/ fw.on /\ fw' = NoFile /\ UNCHANGED <<resume, tele>>
     \/ ~fw.on /\ resume' = NoResume /\ tele' = Idle /\ UNCHANGED fw
  /\ UNCHANGED <<others, meta, nvsFile, nvs, buf, pending, checkNow, faults>>

(* The meta file; a card that refuses it is not noticed.                     *)
Mark ==
  /\ tele.pc = "mark"
  /\ \/ ~meta.on /\ meta' = CutMeta /\ UNCHANGED <<tele, faults>>
     \/ /\ meta.on /\ Go("unresume") /\ UNCHANGED faults
        /\ meta' = [on |-> TRUE, size |-> tele.total, by |-> running, sum |-> HasSum]
     \/ ~meta.on /\ Fault("sd") /\ Go("unresume") /\ UNCHANGED meta
  /\ UNCHANGED <<others, fw, resume, nvsFile, nvs, buf, pending, checkNow>>

Unresume ==
  /\ tele.pc = "unresume"
  /\ resume' = NoResume /\ nvsFile' = "none" /\ Go("settings")
  /\ UNCHANGED <<others, fw, meta, nvs, buf, pending, checkNow, faults>>

(* The settings image, if one is offered, is written in place: what is not   *)
(* whole is removed, unless a reset comes first.                             *)
StageSettings ==
  /\ tele.pc = "settings"
  /\ \/ /\ server.settings /\ nvsFile = "none" /\ nvsFile' = "cut"
        /\ UNCHANGED <<tele, pending, faults>>
     \/ /\ \/ nvsFile = "cut" /\ nvsFile' = "whole" /\ UNCHANGED faults
           \/ server.settings /\ Fault("link") /\ nvsFile' = "none"
           \/ ~server.settings /\ UNCHANGED <<nvsFile, faults>>
        /\ pending' = TRUE /\ Go("restart")
  /\ UNCHANGED <<others, fw, meta, resume, nvs, buf, checkNow>>

SettingsOnly ==
  /\ \/ tele.pc = "nvs_only" /\ nvsFile' = "none" /\ Go("nvs_load") /\ UNCHANGED faults
     \/ /\ tele.pc = "nvs_load"
        /\ \/ nvsFile = "none" /\ nvsFile' = "cut" /\ UNCHANGED <<tele, faults>>
           \/ nvsFile = "cut" /\ nvsFile' = "whole" /\ Go("apply") /\ UNCHANGED faults
           \/ Fault("link") /\ nvsFile' = "none" /\ tele' = Idle
  /\ UNCHANGED <<others, fw, meta, resume, nvs, buf, pending, checkNow>>

-----------------------------------------------------------------------------
(* _applyNvsFromSD(): read the file and remove it, erase, write.  A cut file *)
(* of less than 4 KB is refused, a longer one is the beginning of settings.  *)

Erase      == nvsFile' = "none" /\ nvs' = "blank" /\ UNCHANGED faults
ReadFails  == nvsFile' = "none" /\ Fault("sd") /\ UNCHANGED nvs
Write      == nvs' = "new" /\ UNCHANGED faults
WriteFails == Fault("flash") /\ UNCHANGED nvs

ApplySettings ==
  /\ \/ /\ tele.pc = "apply"
        /\ (Erase /\ Go("write")) \/ (ReadFails /\ tele' = Idle)
     \/ /\ tele.pc = "write" /\ UNCHANGED nvsFile
        /\ (Write /\ Go("restart")) \/ (WriteFails /\ tele' = Idle)
  /\ UNCHANGED <<others, fw, meta, resume, buf, pending, checkNow>>

-----------------------------------------------------------------------------
(* The main task: the check of the staged files at boot, the flash.          *)

Main(pc) == main' = [main EXCEPT !.pc = pc]
teleVars == <<server, tele, checkNow, token, crashes>>

StagedBySomeBuild ==
  meta.on /\ meta.size > 0 /\ fw.on /\ Len(fw.data) = meta.size
Staged ==
  meta.on /\ meta.size > 0 /\ fw.on /\ Len(fw.data) = meta.size /\ meta.by = running

BootForgetsPartial ==
  /\ main.pc = "boot"
  /\ \/ Staged /\ Main("verify") /\ UNCHANGED sdVars
     \/ meta.on /\ ~Staged /\ Main("stale") /\ UNCHANGED sdVars
     \/ ~meta.on /\ fw' = NoFile /\ nvsFile' = "none" /\ Main("run") /\ UNCHANGED <<meta, resume>>
  /\ UNCHANGED <<teleVars, running, partVars, nvs, buf, pending, active, timer, faults>>
Boot ==
  /\ main.pc = "boot"
  /\ \/ Staged /\ Main("verify") /\ UNCHANGED sdVars
     \/ meta.on /\ ~Staged /\ Main("stale") /\ UNCHANGED sdVars
     \/ /\ ~meta.on /\ fw.on /\ resume = NoResume
        /\ fw' = NoFile /\ nvsFile' = "none" /\ Main("run") /\ UNCHANGED <<meta, resume>>
     \/ ~meta.on /\ ~(fw.on /\ resume = NoResume) /\ Main("run") /\ UNCHANGED sdVars
  /\ UNCHANGED <<teleVars, running, partVars, nvs, buf, pending, active, timer, faults>>

(* Four files go, in this order. *)
RemoveStale ==
  /\ main.pc = "stale"
  /\ \/ fw.on /\ fw' = NoFile /\ UNCHANGED <<meta, resume, nvsFile, main>>
     \/ ~fw.on /\ meta.on /\ meta' = NoMeta /\ UNCHANGED <<fw, resume, nvsFile, main>>
     \/ /\ ~fw.on /\ ~meta.on
        /\ nvsFile' = "none" /\ resume' = NoResume /\ Main("run") /\ UNCHANGED <<fw, meta>>
  /\ UNCHANGED <<teleVars, running, partVars, nvs, buf, pending, active, timer, faults>>

(* standby() with s_ota_pending: performPullOtaFlash() too.                  *)
Standby ==
  /\ main.pc = "run" /\ pending
  /\ Main("verify") /\ active' = TRUE
  /\ UNCHANGED <<teleVars, running, partVars, sdVars, nvs, buf, pending, timer, faults>>

(* It returns false: standby() clears its flags, the boot goes on.           *)
GiveUp == Main("run") /\ active' = FALSE /\ pending' = FALSE

(* performPullOtaFlash() *)
FlashBegin ==
  /\ main.pc = "verify"
  /\ LET ok == fw.on /\ meta.on /\ meta.size > 0 /\ Len(fw.data) = meta.size
     IN  \/ /\ ok /\ UNCHANGED <<fw, meta, active, pending, faults>>
            /\ updater' = "pull" /\ part' = <<>>
            /\ main' = [pc |-> "read", size |-> meta.size]
         \/ /\ ok /\ (Fault("flash") \/ Fault("sd"))
            /\ GiveUp /\ UNCHANGED <<fw, meta, updater, part>>
         \/ ~ok /\ fw' = NoFile /\ meta' = NoMeta /\ GiveUp /\ UNCHANGED <<updater, part, faults>>
  /\ UNCHANGED <<teleVars, running, boot, checked, resume, nvsFile, nvs, buf, timer>>

FlashRead ==
  /\ main.pc = "read" /\ Len(part) < main.size
  /\ \/ /\ fw.on /\ Len(part) < Len(fw.data) /\ buf' = fw.data[Len(part) + 1]
        /\ Main("write") /\ UNCHANGED <<updater, active, pending, faults>>
     \/ /\ (fw.on /\ Len(part) < Len(fw.data) /\ Fault("sd")) \/
           (~(fw.on /\ Len(part) < Len(fw.data)) /\ UNCHANGED faults)
        /\ updater' = "none" /\ GiveUp /\ UNCHANGED buf
  /\ UNCHANGED <<teleVars, running, boot, checked, part, sdVars, nvs, timer>>

FlashWrite ==
  /\ main.pc = "write"
  /\ \/ part' = Append(part, buf) /\ Main("read") /\ UNCHANGED <<updater, active, pending, faults>>
     \/ Fault("flash") /\ updater' = "none" /\ GiveUp /\ UNCHANGED part
  /\ UNCHANGED <<teleVars, running, boot, checked, sdVars, nvs, buf, timer>>

FlashEnd ==
  /\ main.pc = "read" /\ Len(part) = main.size
  /\ updater' = "none"
  /\ \/ /\ boot' = part /\ checked' = meta.sum /\ Main("clean")
        /\ UNCHANGED <<fw, meta, active, pending, faults>>
     \/ Fault("flash") /\ fw' = NoFile /\ meta' = NoMeta /\ GiveUp /\ UNCHANGED <<boot, checked>>
  /\ UNCHANGED <<teleVars, running, part, resume, nvsFile, nvs, buf, timer>>

FlashDone ==
  /\ main.pc = "clean"
  /\ \/ fw.on /\ fw' = NoFile /\ UNCHANGED <<meta, main>>
     \/ ~fw.on /\ meta' = NoMeta /\ Main(IF nvsFile # "none" THEN "apply" ELSE "restart") /\ UNCHANGED fw
  /\ UNCHANGED <<teleVars, running, partVars, resume, nvsFile, nvs, buf, pending, active, timer, faults>>

Refuse   == nvsFile = "cut" /\ nvsFile' = "none" /\ UNCHANGED <<nvs, faults>>
WriteCut == nvs' \in {"part", "blank"} /\ UNCHANGED faults
FlashSettings ==
  /\ \/ /\ main.pc = "apply"
        /\ \/ Erase /\ Main(IF nvsFile = "cut" THEN "nvs_cut" ELSE "nvs")
           \/ (Refuse \/ ReadFails) /\ Main("restart")
     \/ /\ main.pc \in {"nvs", "nvs_cut"} /\ UNCHANGED nvsFile
        /\ (IF main.pc = "nvs" THEN Write ELSE WriteCut) \/ WriteFails
        /\ Main("restart")
  /\ UNCHANGED <<teleVars, running, partVars, fw, meta, resume, buf, pending, active, timer>>

StartTimer ==
  /\ main.pc = "restart"
  /\ timer' = TRUE /\ Main("blocked")
  /\ UNCHANGED <<teleVars, running, partVars, sdVars, nvs, buf, pending, active, faults>>

-----------------------------------------------------------------------------
(* handlerOTA(): an image over the web page.  The server is polled by the    *)
(* main task, so the upload stands in the way of all else the task does; the *)
(* telemetry task may be in the middle of a download.                        *)

webVars == <<server, running, sdVars, nvs, tele, buf, pending, checkNow, token, crashes>>

UploadBegin ==
  /\ main.pc = "run" /\ ~timer /\ Fault("upload")
  /\ updater' = "web" /\ part' = <<>> /\ active' = TRUE /\ Main("upload")
  /\ UNCHANGED <<webVars, boot, checked, timer>>

UploadFails == updater' = "none" /\ Main("run")

UploadChunkKeepsActive ==
  /\ main.pc = "upload" /\ Len(part) < Length(0)
  /\ \/ /\ part' = Append(part, Whole(0)[Len(part) + 1])
        /\ UNCHANGED <<updater, main, faults>>
     \/ Fault("link") /\ UploadFails /\ UNCHANGED part
  /\ UNCHANGED <<webVars, boot, checked, active, timer>>
UploadChunk ==
  /\ main.pc = "upload" /\ Len(part) < Length(0)
  /\ \/ /\ part' = Append(part, Whole(0)[Len(part) + 1])
        /\ UNCHANGED <<updater, main, active, faults>>
     \/ Fault("link") /\ UploadFails /\ active' = FALSE /\ UNCHANGED part
  /\ UNCHANGED <<webVars, boot, checked, timer>>

UploadEnd ==
  /\ main.pc = "upload" /\ Len(part) = Length(0)
  /\ updater' = "none" /\ Main("run")
  /\ \/ boot' = part /\ checked' = TRUE /\ timer' = TRUE /\ UNCHANGED <<active, faults>>
     \/ Fault("flash") /\ active' = FALSE /\ UNCHANGED <<boot, checked, timer>>
  /\ UNCHANGED <<webVars, part>>

-----------------------------------------------------------------------------
(* The restart, wanted or not. *)

Restarted ==
  /\ running' = Build(boot)
  /\ part' = <<>> /\ updater' = "none"
  /\ main' = [pc |-> "boot", size |-> 0] /\ tele' = Idle /\ buf' = Bad
  /\ pending' = FALSE /\ checkNow' = FALSE /\ active' = FALSE /\ timer' = FALSE
  /\ token' = (nvs # "blank")
  /\ UNCHANGED <<server, boot, checked, sdVars, nvs>>

Restart ==
  /\ tele.pc = "restart" \/ timer
  /\ Restarted /\ UNCHANGED <<faults, crashes>>

Crash ==
  /\ "crash" \in Faults /\ crashes < MaxBoot
  /\ crashes' = crashes + 1
  /\ Restarted /\ UNCHANGED faults

Telemetry == \/ Check \/ Plan \/ DropOld \/ NoteTarget \/ Open \/ Receive \/ Store \/ Verify
             \/ Wipe \/ Mark \/ Unresume \/ StageSettings \/ SettingsOnly \/ ApplySettings
MainTask  == \/ Boot \/ RemoveStale \/ Standby \/ FlashBegin \/ FlashRead \/ FlashWrite
             \/ FlashEnd \/ FlashDone \/ FlashSettings \/ StartTimer
WebPage   == UploadBegin \/ UploadChunk \/ UploadEnd
Server    == PublishBin \/ PublishMeta \/ Trigger

Next == Server \/ Telemetry \/ MainTask \/ WebPage \/ Restart \/ Crash

Spec == Init /\ [][Next]_vars

(* The tasks run, the card and the links fail only so often, the server asks *)
(* again while the device reports another build (external).                  *)
FairSpec ==
  /\ Spec
  /\ WF_vars(Telemetry) /\ WF_vars(MainTask) /\ WF_vars(UploadChunk \/ UploadEnd)
  /\ WF_vars(Restart) /\ WF_vars(PublishMeta) /\ WF_vars(Trigger)

-----------------------------------------------------------------------------
(* Properties. *)

TypeOK ==
  /\ server.bin \in Image /\ server.offer \in Image /\ server.sums \subseteq Image
  /\ running \in Image /\ checked \in BOOLEAN /\ token \in BOOLEAN
  /\ boot \in Seq(Chunk) /\ part \in Seq(Chunk) /\ updater \in {"none", "pull", "web"}
  /\ fw \in [on : BOOLEAN, data : Seq(Chunk)] /\ (~fw.on => fw.data = <<>>)
  /\ meta \in [on : BOOLEAN, size : 0..5, by : Image, sum : BOOLEAN]
  /\ resume \in Image \cup {NoResume, CutResume} /\ nvsFile \in {"none", "cut", "whole"}
  /\ nvs \in {"old", "new", "part", "blank"} /\ main.size \in 0..5
  /\ tele.img \in Image /\ tele.total \in 0..5 /\ buf \in Chunk
  /\ pending \in BOOLEAN /\ checkNow \in BOOLEAN /\ active \in BOOLEAN /\ timer \in BOOLEAN

(* The partition that boots holds one published image, whole, if the image   *)
(* was offered with a sha256: no reset, broken or damaged download, resumed  *)
(* or not, and no change of the image on the server halfway leads to a mixed *)
(* or cut one (telelogger.ino:5066-5095).                                    *)
BootsWhole == checked => \E i \in Image : boot = Whole(i)

(* What the check at boot takes for complete is the image, if it was offered *)
(* with a sha256 (telelogger.ino:4856): no meta file stands beside a file of *)
(* its size that was put there, continued or damaged since.                  *)
MetaMeansVerified ==
  meta.on /\ meta.sum /\ meta.size > 0 /\ fw.on /\ Len(fw.data) = meta.size
    => \E i \in Image : fw.data = Whole(i)

(* A staged image replaces only the build that decided to download it: not   *)
(* one flashed since (telelogger.ino:2105).                                  *)
NotOverAnotherBuild ==
  [][boot' # boot /\ updater = "pull" => meta.by = running]_vars

(* What a partial file holds of the image on offer is not fetched again: no  *)
(* step of any task, no reset and no boot after it takes the file, what it   *)
(* holds or its resume note away (telelogger.ino:4847, 2126-2132), but for   *)
(* the sum found wrong when the download is through (5152-5156).             *)
Partial ==
  /\ fw.on /\ fw.data # <<>>
  /\ resume = server.offer /\ Len(fw.data) < Length(server.offer)
PartialKept ==
  [][Partial /\ tele.pc # "wipe"
       => /\ fw'.on /\ resume' = resume
          /\ Len(fw'.data) >= Len(fw.data)
          /\ \A k \in DOMAIN fw.data : fw'.data[k] = fw.data[k]]_vars

(* The published build runs in the end, whatever stops the download, unless  *)
(* the settings are lost: a reset or an error between the erasing and the    *)
(* writing of NVS, or a cut settings image, leave no OTA_TOKEN to ask with.  *)
Updated == <>[](running = server.offer \/ ~token)
=============================================================================
