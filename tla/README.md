# Verification of the Freematics telelogger

TLA+ models of the telelogger firmware (`src/firmware_v5/telelogger`, built
with SD storage, WiFi, cellular modem SIM7670, PSRAM and the UDP protocol),
model-checked with TLC and, where stated, proved with TLAPS for every value of
the constants. Paths below are relative to `src/firmware_v5/telelogger` unless
they start with `src/`; `ino` is `telelogger.ino`.

1. The system
2. The modules, and how they correspond to the code
3. What is checked
4. What is proved
5. Where the code does not do what its docs say
6. Not modelled
7. Plan

## 1. The system

The box reads a car's bus, GPS and motion sensor, makes about one record a
second, and brings every record to a Traccar server, through outages of the
network, resets, power losses and a missing or dying SD card. It keeps the
trips of the car apart, parks and wakes with it, updates its own firmware over
either network, and serves its files over a web page.

| component | state | operations | talks to | module |
|---|---|---|---|---|
| delivery queue (`txqueue.cpp`) | ring in PSRAM, flights, SD replay, cursor in NVS, standby file in SPIFFS | push, drop, next packet, ACK, expire, save, boot, RESEND | SD card, NVS, server | `DeliveryQueue`, `RecordRing`, `RecordFifo` |
| SD writer (`sdwriter.cpp`) | byte ring, marks, two files with a confirmed length, one request | append, mark, write + fsync, retry, give up, open, close, sync | queue (`txqSdConfirmed`, `txqSetFile`), sniffer | `SdWriter` |
| SD log and cleanup (`telestore.cpp`) | current file number | begin, dispatch, end, purgeOldFiles | SD writer, queue | `SdWriter`, `DeliveryQueue` |
| record making, main loop (`ino` `process`, `engineTick`, `standby`) | engine state, ages, standby timer | poll OBD, finish a record, start and end a trip, park, wake | all | `Trip`, `DeliveryQueue` |
| telemetry task (`ino` `telemetry`) | `state.m_state`, connection errors | join, register, log in, send, report while parked | queue, session | `Telemetry` |
| UDP session (`teleclient.cpp` `TeleClientUDP`, `udpmsg.h`) | login, feed id, sync time | login, transmit, inbound (ACK, RESEND, commands) | queue, server | `Telemetry`, `DeliveryQueue` |
| OTA (`ino` `performPullOtaCheck`, `performPullOtaFlash`) | staged files on SD, partition, NVS | check, download, stage, flash at boot | SD, NVS, HTTP clients | `PullOta` |
| network drivers (`FreematicsNetwork.cpp`) | session state, buffers | open, send, receive, close | server, modem | `OtaHttp`, `Telemetry` |
| sniffer (`sniff.cpp`) | frame queue, file, speed, minutes in NVS | start, fill a block, stop, resume | SD writer, CAN driver | `Sniffer` |
| reads over CAN (`canodo.cpp`) | CAN driver, last diagnosis | one UDS read in ISO-TP frames | main task | `CanOdo`, `Trip` |
| web server (`dataserver.cpp`, `src/libraries/httpd`) | connections, downloads | read, answer, stream, expire, evict | all | `Web` |
| record buffers (`teleclient.cpp` `CBufferManager`) | slots | getFree, free | main task | none (section 6) |
| fingerprint (`sddigest.h`) | count, sum of the confirmed records | start, add, report | queue, server | none |
| sensor drivers, web page | devices, browser | I/O, display | all | none |

Tasks that run concurrently: the Arduino loop (records, trips, cleanup,
standby, flash at boot, web server), the telemetry task (links, sending, OTA
download), the SD writer task, the CAN receive task. They share the queue (one
mutex), the SD card (one lock), the SD writer's ring (one mutex), and a word of
flags (no lock).

What is hard: four stores of different lifetime (RAM, PSRAM, SPIFFS + NVS, SD
card) must together hold every record the server does not have, at every
instant at which the box may lose some of them; the network loses, repeats and
delays; the card comes up 15 s after the network, may be absent, full or die;
two tasks hand radios, flags and a CAN controller to each other without a lock;
an update goes through files that a reset may leave in any state.
`PROJECT.json` lists the hazards line by line under `hazards`.

## 2. The modules, and how they correspond to the code

The modules are composed by what each takes for granted of its neighbours:

- `DeliveryQueue` takes the reserve for a sequence of records; `RecordRing` is
  its bytes and implements that sequence (`RecordFifo`).
- `DeliveryQueue` takes the SD card for lines that arrive in order and a
  confirmation; `SdWriter` is the task that brings them there, and
  `ConfirmedOnCard` is what the queue relies on.
- `SdWriter` takes the sniffer's file for one that is open or not; `Sniffer` is
  the file's blocks and the mode.
- `DeliveryQueue` takes the network for packets that may be lost; `Telemetry` is
  the links that carry them, with the queue as one bit.
- `PullOta` takes a download for a stream that breaks or not; `OtaHttp` is the
  two clients that make it, down to the bytes of an answer.
- `Trip` takes a read over CAN for one of its outcomes, which `CanOdo` computes
  from the frames.

### DeliveryQueue

The delivery queue with all that decides where a record is. One action per
operation:

| action | code |
|---|---|
| `SetFile` | `initialize()`: card and new file found or not, `txqSetFile()` |
| `LogBegin`, `Push` | `process()` and `emitEngineEvent()`: the record's lines, then `queueRecord()` -> `txqPushEx()` with `dropTail()` |
| `StandbyPush` | `buildStandbyReport()`: push and the SPIFFS copy |
| `SdFlush`, `Confirm`, `GoDead` | the SD writer: bytes on the card, `txqSdConfirmed()`, `goDead()` |
| `EnterStandby`, `Purge` | `standby()`, `purgeOldFiles(txqOldestFileNeeded())` |
| `SendNewest`, `SendQueued`, `SendReplay` | the three sources of a packet in `txqNextPacket()` |
| `ReplayEnds`, `ReplayNextFile`, `ReplayAbandoned`, `ReplayDeferred` | the ways out of `buildSdPacket()` without a packet; the queue's packet that follows in the same call is part of the action |
| `OnAck`, `OnLateAck`, `Expire` | `txqOnAck()`, `expire()` (also `txqSendFailed()`) |
| `Save`, `Resend` | `txqSave()`, `txqResendRequest()` |
| `Restart`, `Panic`, `Damage`, `PowerLoss` | `prepareRestart()` and the resets, with `txqEarlyInit()` and `txqBegin()` after them |
| `Deliver`, `Lose` | network and server, external |

State: `rec[r]` (boot, file of its lines, `QEnt.file`), `disk[r]`, `st[r]`,
`pkt[r]`, `confirmed` (F_SD), `standby` (F_SB), `spiffs`, `flights`, `replay`
(`s_sdActive`, `s_sdFile`, `s_sdTs`), `saved` (NVS `TXQ_CUR`), the file
variables of the same names, the packets and ACKs under way, and three history
variables: what the server stored, what `s_lost` counted, what was given up as
documented (a record half written at a reset, one that existed in RAM only at a
power loss, a thinned one, a record of a file no replay can open).

Abstractions:
- A record is a number; numbers follow (boot, ts). The reserve keeps its
  entries in that order, so the ring is a set and its tail the least number.
- Byte counts become record counts: the reserve holds `Cap` entries, a packet
  `PacketRecs`. A push drops at most one entry.
- `s_sdPos`, `s_sdBoot` only speed up or repeat what (file, ts) says. The hold
  for records without a clock and the limit of `cap` make a packet shorter: it
  is any prefix of the pending records.
- Packet numbers grow in the code; here a number is used again once nothing
  carries it (not a flight, not a packet or ACK under way).
- Packets and ACKs under way do not outlive a reset.
- `KeepsUp`: the reserve (an hour of driving) is never filled by records the SD
  writer has not written yet (it syncs every few seconds and gives up after
  30 s). The sizes justify it, and the properties rest on it: with a reserve of two
  entries a confirmed record could be dropped while the next one is not on the card
  yet; the replay would skip it as the last record of the open file, which may still
  be growing (`txqueue.cpp:670-676`), and end.
- `Purge` asks and deletes in one step. The code reads the oldest file needed
  (`txqueue.cpp:966`) and deletes later, `handlerLogDelete()` after waiting for the
  card's lock; that gap is not exercised. (A record the server does not have when the
  file goes was one it did not have when the code asked, unless it is of the file
  that is open; and the file of such a record is among those needed.)

### RecordRing, RecordFifo

The bytes of the reserve in PSRAM, in cells: the header (`QHdr`) is cell 0, an
entry takes `Ent` cells for its `QEnt` and the rest for its text.

| action | code |
|---|---|
| `RingPush` | `txqPushEx()`: `dropTail()` until `findSpace()` finds room, the mark of a wrap, the entry, `sealHdr()` |
| `Send`, `RingExpire`, `RingAck` | the states of entries in `txqNextPacket()`, `expire()`, `txqOnAck()` with `releaseAcked()` |
| `Persist` | `persist()`: the CPU's cache written back |
| `CleanRestart`, `RingPanic` | a reset: the shutdown handler persists, or any mix of old and new cells stays; then `txqBegin()` with `validateRing()` |

A CRC is modelled by what it detects: an entry is whole when its cells are those
of one push; a header that is neither the old nor the new one does not match.
`validateRing()` goes by the header's count and never asks whether it has come
round; a panic that leaves cells over which it would (`Laps`) happens only with
`"lap"` in `Faults` (section 5).

`RecordFifo` is the abstract queue: push drops from the front, a release takes
from the front, a restart keeps a prefix of the queue before or after the
operation it cut short. One behaviour of the bytes does not fit that and is in
the abstract specification as `Jumble`: a panic in the middle of an operation
may leave the text of an old record under the header of the new queue, or that
of a new one under the old header. Even then no record is there twice, and the
records that were in the queue before and after stay in their order.

### SdWriter

The only task that writes to the card, between the tasks that log and the
queue that wants to know what the card has.

| action | code |
|---|---|
| `CheckLine`, `RefuseLine`, `PutLine`, `Mark` | `SDLogger::dispatch()` -> `sdwDataWrite()`, whose check of the flags comes before the mutex; `sdwDataMark()` |
| `WriteBegin`, `AppendOk`, `AppendFails`, `Confirm` | `dataWrite()`: head read without the mutex, `wfAppend()` (reopen, cut back, write, fsync), tail and marks under the mutex |
| `GiveUp`, `ClearRing`, `CutAndClose` | `goDead()` |
| `TakeRequest`, `DataOpened`, `DataClosed`, `SniffOpened`, `SniffLast` | `handleRequest()`: the request is read first, the card's lock comes later; the end of `sniffWrite()` |
| `OpenData`, `CloseData`, `Synced`, `NotSynced`, `Answered` | `SDLogger::begin()`, `end()`: `sdwDataOpen()`, `sdwDataSync()`, `sdwDataClose()`, `request()` with its timeouts |
| `StartSniff`, `RefuseSniff`, `OpenSniff`, `StopSniff`, `SniffStopped` | `startNow()`, `openFile()`, `sniffStopNow()`, `closeFile()` |

Abstractions: a line is a number, byte counts are line counts; of the sniffer's
file only that it is open and who believes so. What a failed append leaves is
any prefix of the chunk. `RoomInRing`: after a sync that timed out, no task logs
a whole ring (64 KB) while the write that held it up still runs; if one did, the
write would take its bytes from lines that came later. The batches of 32 marks
in `dataWrite()` are one step.

### Sniffer

Sniff mode: every frame of the bus into a file, and who owns the CAN controller.

| action | code |
|---|---|
| `Receive` | `rxTask()` -> `pushFrame()` |
| `Fill`, `WriteOk`, `WriteFails`, `GoDead` | the SD writer's `sniffWrite()` and `goDead()` with `sniffFill()`, `sniffSdDead()` |
| `Request`, `Renew`, `Refuse`, `Start`, `OpenFile`, `Begin` | `sniffRequest()`, `sniffTick()`, `startNow()`: `canOdoEnd()`, `openFile()`, `canStart()`, `saveMinutes()` |
| `Tick`, `SpeedTick`, `NoMinute`, `Minute` | the rest of `sniffTick()`: the search for the bus speed, the countdown |
| `Stop`, `Standby`, `CanStop`, `CloseFile`, `FileClosed`, `Stopped` | `sniffStopNow()` with its wait of 5 s for the last block |
| `OdoTick`, `OdoOff` | `vwOdoTick()`: `canOdoBegin()`, `canOdoEnd()` |
| `Send`, `SendEnd` | `sniffSend()` |
| `Prepare`, `Restart`, `Panic` | `sniffCloseForRestart()` in the main or the telemetry task, a panic; `sniffInit()` after them |

The telemetry task may prepare a restart between any two steps of the main
task. Opening the file answers in time or fails; `SdWriter` has the requests
that do not. `canStart()` and `canOdoBegin()` fail when the driver is installed
already; an installation or a start that fails for another reason
(`sniff.cpp:92-93`, `canodo.cpp:35-39`) is left out.

### Telemetry

The telemetry task's loops as one step per call that waits, against the main
task's way into standby and back.

| action | code |
|---|---|
| `Top` | the head of the outer loop: the web page's flags, standby or `WIFI`, `wifiConnect()` |
| `Drain`, `Drained`, `Shut`, `Wait`, `Report`, `ReportWifi`, `ReportCell`, `Ping`, `ReportEnd` | the standby branch of `telemetry()` |
| `Join`, `Loop`, `WifiLogin`, `Pick`, `CellInit`, `CellConnect`, `CellOff`, `Backoff` | the links while driving |
| `Send`, `Receive`, `DropConnection` | one round of the inner loop: signal check, packet, `inbound()`, modem check, connection errors |
| `Process`, `WebControl`, `Park`, `Standby`, `WifiOff`, `Wake` | the main task: `process()`, `httpControlStandby()`, `loop()`, `standby()` |
| `ApChanges`, `SkyChanges`, `VoltsChange`, `WifiJoins`, `SessionLost`, `ModemHangs` | the surroundings, external |

State: `flags` is `state.m_state`; the radio's own state is apart from it
(`wifi`, `modem`), because a call goes over WiFi whenever the radio is joined,
whatever the flags say. There are two configured networks; `preferred` and
`current` are `wifiPreferredIdx` and `wifiCurrentIdx`. What is queued is one bit
(`owed`); a packet lost on a good link is `DeliveryQueue`'s. `State::set()` and
`clear()` are single steps here (section 5).

### PullOta

| action | code |
|---|---|
| `PublishBin`, `PublishMeta` | `publish_ota.py`: first the image, then `meta.json`; external |
| `Trigger`, `Check`, `Plan`, `DropOld`, `NoteTarget`, `Open`, `Receive`, `Store`, `Verify`, `Wipe`, `Mark`, `Unresume`, `StageSettings`, `SettingsOnly` | OTA_READY, the guard in `telemetry()` (`ino:3425`), `performPullOtaCheck()`: one action per file operation or chunk |
| `ApplySettings`, `FlashSettings` | `_applyNvsFromSD()`: `Refuse`, `ReadFails`, `Erase`, then `Write`, `WriteCut` or `WriteFails` |
| `Boot`, `RemoveStale` | the check of the staged files in `initialize()` |
| `Standby`, `FlashBegin`, `FlashRead`, `FlashWrite`, `FlashEnd`, `FlashDone`, `StartTimer` | `performPullOtaFlash()` |
| `UploadBegin`, `UploadChunk`, `UploadEnd` | `handlerOTA()` |
| `Restart`, `Crash` | the restart, a reset at any step |

An image is its number and its chunks; a chunk is what lies between two flushes
of the file, so a reset loses the chunk in work and no other. SHA-256 is
equality of chunks.

`server.sums` are the images offered with a usable sha256 (`HasSum`): without one
there is no resume note, no check of the download, and a meta file all the same.
`checked` and `meta.sum` are history: whether the partition that boots, and the
staged file, were compared with a sum. The check the ESP-IDF makes of an image
before it boots is not counted on. `token` is what the boot read from NVS (OTA_TOKEN
and OTA_INTERVAL; the host goes with them): without it `Check` leaves the request
where it is, for ever. The settings replace the NVS partition in two steps, erase
and write, with a reset possible between them; a settings image that a reset cut
short (`nvsFile = "cut"`) is refused below 4 KB and applied above (`ino:4068`), with
whatever settings its beginning has. A check without a link is the fault `"link"`.

### OtaHttp

`WifiHTTP` and `CellHTTP` (SIM7670, CCH service, manual receive mode) and the
requests made with them: known locations, offer, image with Range, confirmation.

| action | code |
|---|---|
| `WifiOpen`, `WifiSend`, `WifiReceive`, `WifiReceived`, `WifiRefused`, `WifiHeaders`, `WifiBody` | `WifiHTTP::open()`, `send()`, `receive()`, `receiveHeaders()`, the loop over `rawClient()` |
| `CellInit`, `CellOpen`, `CellSend`, `CellHeaders`, `CellBody` | `CellHTTP::init()`, `open()`, `send()`, `receiveHeaders()`, `receiveBodyBytes()`, `cchRecvRaw()` |
| `CloseSession`, `Finish`, `Complete`, `Check`, `Sync` | what the callers in `performPullOtaCheck()` and `syncKnownLocations()` do around them |
| `Arrive`, `ServerCloses`, `Reset` | bytes, the server's end, a reset of the ESP32 (the modem keeps its session); external |

A byte of an answer is the number of its request and its place, so bytes of
another answer or place are recognised. A session that the modem opens after
`open()` gave up, or whose result came garbled, is `late`: it stays until AT+CCHCLOSE,
which `init()` sends after a reset of the ESP32 or a power cycle of the modem
(`resetCch()`, `ino:2914`; the latter is left out). That the modem frees a session
the server closed is not counted on. Abstracted: one host, no low heap, the
headers are one block, a request is sent whole or not, the text an AT timeout
leaves is purged, the content length is always announced; `MetaRoom > MetaLen +
1` (2 KB for an offer of 500 bytes).

### CanOdo, Trip

`CanOdo` has no state: `UdsRead(did, frames)` folds `udsRead()` over the frames
that come before the timeout; `Comes(did)` is what may come: the end of an
earlier reply, response-pending, refusal, the reply, frames of another ECU, and
any of them lost.

`Trip` extends it with the cycle of the main task:

| action | code |
|---|---|
| `Poll`, `ObdInit` | `process()`: `sniffTick()`, `processOBD()`, `obd.init()` |
| `EngineTick` | `engineTick()`: `EngineStarts`, `StaysOff`, `EcuDecides`, `VoltageDecides` |
| `OdoRead`, `FuelRead`, `ListRead`, `NameRead`, `Emit` | `vwOdoTick()`, `emitEngineEvent()` with its reads and its record |
| `Rest` | the end of `process()`: motion, the ECU check, the standby timer with `STANDBY_TIME` |
| `SetLimit`, `WebOff` | the commands of the web page |
| `Standby`, `Parked`, `Reset` | `standby()`, the wake-up by two voltages and a restart, other restarts; `initialize()` |
| `Car` | the car, external |

Time is in ticks. What the code compares with a duration is an age that stays at
its window, so the state space is finite; the clock stays at `MaxTime`. After
a wake-up the new file is taken to open (section 5 has the other case).

### Web

| action | code |
|---|---|
| `ReadPart`, `ReadEnd`, `ReadStream`, `ReadOther`, `Reset` | `_mwProcessReadSocket()`, `_mwCheckUrlHandlers()`, the handlers' first call |
| `Write`, `WriteFails`, `Load`, `WriteEnd` | `_mwSendRawDataChunk()`, `_mwProcessWriteSocket()`, the handlers' further calls (`handlerLogFile`, `handlerLogData`, `handlerSniff`) |
| `Expire`, `Elapse`, `Accept`, `Evict` | `mwHttpLoop()`, `_mwAcceptSocket()` |
| `Connect`, `Ask`, `SendRest`, `Leave` | clients, external |

A file is a header and blocks of lines; a buffer has room for some of them. The
steps of a pass are actions of their own, in any order. Where
a buffer ends between a timestamp and its values, `handlerLogData()` goes on with a
time of 0, which is local to the call (`dataserver.cpp:278`): up to the next
timestamp the values have a wrong time or fall out of the window. The model goes on
with the time.

### Proof modules

`DeliveryQueueProofs`, `SdWriterProofs`, `SnifferProofs`, `TelemetryProofs`,
`PullOtaProofs`, `OtaHttpProofs`, `TripProofs` and `WebProofs` extend the module of their component and hold its
theorems, lemmas and inductive invariants (section 4).

## 3. What is checked

Every module has one type invariant, `TypeOK` (`RingTypeOK` in `RecordRing`); that
of `DeliveryQueue` is among the properties of `dq_net`, and all are proved
(section 4).

| run | bounds, events | properties |
|---|---|---|
| `dq_reset` | 3 records, 2 boots, reserve of 2, packets of 1, one copy in SPIFFS; standby, panic, powerloss, nocard, purge | `NoSilentLoss`: a finished record is stored, counted, given up as documented, or still on its way (`txqueue.h:3-20`); `CursorCovers`: the cursor in NVS alone finds every record the card has and the server has not; `PurgeSparesUndelivered`; `FlashCopyKept`: the SPIFFS file goes only when its records are stored or in the queue |
| `dq_net` | 2 records, 2 boots, packets of 2, 2 flights, 2 numbers; loss, dup, resend, powerloss, damage | `TypeOK`; `AckedIsStored`: an entry marked acked is stored; `NeverStranded`: an entry in flight has a flight that ends; `IdentityRight`: nothing is stored under another boot number; `SentWhole`: a record half written to the card is not sent |
| `dq_live` | FairSpec, 3 records, reserve of 2; loss, dead | `AllDelivered`: every finished record reaches the server, or is counted |
| `ring` | 5 records of 2 sizes, 9 cells, 1 restart | `RecordsWhole`: no push overwrites a record still to be sent; `ImplementsFifo`: the bytes implement `RecordFifo`; `RestartKeeps`: a restart between operations keeps every record (with an exception, section 5) |
| `ring_lap` | 5 records of 2 sizes, 11 cells, 1 restart; `"lap"` | `RecordsWhole` is violated: a finding (section 5) |
| `sd_file` | FairSpec, 3 lines, ring of 2, 1 mark, 2 failures, 2 sessions, all timeouts | `FileIsStream`: no hole, duplicate or half line in a file that is written (`sdwriter.h:9-11`); `ConfirmedOnCard` (`sdwriter.h:17`); `LinesAccounted`: a line is on the card, waiting, or counted; `LinesSettle`: a waiting line gets there; `AnswerTrue`: who is told that its file is open has an open file |
| `sniff` | FairSpec, 3 frames, queue of 2, blocks of 1, 3 commands or resets, 1 failure, 2 speeds | `AllCounted`: the sum in a stats line (`sniff.cpp:203`); `FileInOrder`: the file has the accepted frames in order and a finished one says exactly how many; `OneOwner`: one driver, and its owner knows; `SwitchedOff` (`sniff.h:27`) |
| `tele` | FairSpec, 2 networks, 3 changes of network, coverage, voltage, modem or command | `LoggedIn`: records go out only in a session the server was told of; `Delivered`: with a usable link in the end what is queued gets through; `ParkedReported`: a parked device reports |
| `ota` | FairSpec, 2 images after the first, 2 faults, 1 reset | `BootsWhole`: what boots is one whole image, if it was offered with a sha256; `MetaMeansVerified`: so is a file beside a meta file of its size (`ino:4856`); `NotOverAnotherBuild` (`ino:2105`); `PartialKept`: no step, no reset and no boot takes a partial file, what it holds or its resume note away, but for a wrong sum (`ino:4847`, 2126-2132); `Updated`: the published build runs in the end, unless the settings are lost |
| `http` | FairSpec, image of 4, offer of 2, locations of 3, 2 faults | `InPlace`: every byte of an answer is the one asked for, and the file is the image; `Downloaded`: however a request ends, a later one gets the image, but for a late session of the modem |
| `trip` | FairSpec, windows of 1 to 5 ticks, the RPM's of 3, 2 silent cycles, 1 command, reset or missed answer | `InOrder`: starts and stops alternate and their times follow; `NoGhostTrip`: with OBD no voltage starts a trip; `StopIsSilence`: a stop over OBD needs the silent cycles; `OwnAnswer`: a read that succeeds has the reply to its own request; `TripFollows`: the trip follows the car in the end |
| `web` | 3 clients, 2 connections, 2 requests, 1 client that leaves, a file of 3 blocks, buffer of 2 | `AnswersMatch`: who gets an answer to its end got what it asked for; `FilesClosed`: no file stays open without its download |

Why the bounds are enough:

- `DeliveryQueue`: with a reserve of two the third record overflows and starts a
  replay; two boots put a reset between any two steps and give the card two
  files; two flights and two numbers let an ACK be late, double and for a
  packet whose entries left in another one; packets of two may be confirmed over
  a part of the queue that has changed since. The events are split between the
  runs by what a property is about: all of them at once are too many states. A
  RESEND with `NoSilentLoss`, and every other combination, is proved (section 4).
- `RecordRing`: nine cells and two sizes give every way round: a record that
  ends with the ring, one that leaves room for a mark, one that does not.
- `SdWriter`: the third line finds a ring of two full or wraps; two failures are
  a failed append and a failed retry; the second session meets the file of the
  first.
- `Sniffer`: the third frame finds the queue full while a block is written; of
  three commands two switch and one is a restart, a panic or a new duration; two
  speeds let the search go round.
- `Telemetry`: three changes are, for example, a link lost, a command and a link
  back, which meet every step of the handover.
- `PullOta`: two images let the offer change in the middle of a download; the
  first is longer than the second, so a partial file may be longer than its
  target; two faults and a reset meet at each file operation.
- `OtaHttp`: a chunk of two makes an image of four two reads and more, locations
  as long as their buffer are cut; two faults leave the rest of one answer for
  the next request and break that one too.
- `Trip`: the durations keep the order they have in the code; ages and the clock
  saturate, so behaviours are not bounded in time.
- `Web`: the third client waits for a slot or takes an idle one; three blocks
  need two buffers.

Deadlock is checked in `tele` and `trip`, whose tasks never stop. In the other
runs a behaviour ends when its records, frames, requests or boots are used up,
or the update is done.

### Fairness

- `DeliveryQueue` (`dq_live`): the setup reaches the card; the telemetry loop
  runs (`SendNewest` at most every 5 s, so the packets in order get their turn,
  strong because flights may be full for a while); a flight ends after 8 s; the
  network is not down for ever, so of the packets sent in order again and again
  one gets through, and of their ACKs one in time. Nothing is assumed of the
  packets sent out of order, nor of the card's death.
- `SdWriter`: the writer task runs (it wakes every 50 ms) and the card fails
  finitely often; giving up is never forced, so it cannot be what makes
  `LinesSettle` true.
- `Sniffer`: the main task's tick runs and its waits of 5 s end, minutes pass
  (strong: the minute step is disabled in between), a prepared restart happens.
  Nothing is assumed of the writer.
- `Telemetry`: the telemetry task runs, a radio in range of its network joins,
  the modem notices a lost network, the main task notices that `WORKING` is
  gone, parks and wakes. `WifiOff` is strong: the main task waits up to 15 s
  for a task that may be on its way to a call. The surroundings change a bounded
  number of times.
- `PullOta`: both tasks run, an upload begun goes on or fails, the publisher
  finishes what it began, the server asks again while the device reports another
  build. Faults are bounded.
- `OtaHttp`: the task runs, what is under way arrives, the check comes again
  (strong, because a request may be in work when it is due).
- `Trip`: the main task's loop goes on. Nothing is assumed of the car.
- `Web`, `RecordRing`: safety only.

## 4. What is proved

Each theorem is of the form `Spec => []P` (or `Spec => P` for an action
property), for every value of the constants that the module's named assumptions
allow, so for any number of records, frames, images, clients, faults and
restarts and any size of the buffers. None of the properties is inductive as it
stands; the invariant of each module adds what the code relies on without saying
so. Each was checked with TLC on the module's run first.

**`DeliveryQueueProofs`**: `TypeCorrect`, `AckedStored` (`AckedIsStored`),
`NoneStranded` (`NeverStranded`), for every set of events.
- `TypeInv`: the types, a boot opens at most one file (`lastFile <= boot`,
  strictly before `txqSetFile()`), a record is begun only while there is room.
- An ACK carries only a packet number. `CustodyInv` adds that flights have
  distinct numbers, that every packet under way with the number of an entry's
  flight contains the entry under its boot number, that an ACK under way with
  that number means the entry is stored, and that only finished records are held
  (so that the boot number of a record in the queue does not change).
- Assumed is the model's network: a number is free only when nothing carries it.

In the same module, `OwnBoot` (`IdentityRight`) and `SentFinished` (`SentWhole`),
for every set of events:
- `IdentityInv`: what is under way or stored is finished and under its boot
  number (`PacketsRight`, `StoredRight`), the records of one file are of one boot
  (`HomesInv`), the record being logged is of this boot and of the open file
  (`LogInv`), the card has only lines of records begun (`LinesInv`).

In the same module, `NothingLostInSilence` (`NoSilentLoss`), `CursorIsEnough`
(`CursorCovers`), `PurgeIsSafe` (`PurgeSparesUndelivered`) and `FlashIsKept`
(`FlashCopyKept`), under the hypothesis `Reliable`: `Events` has none of
`unsaved`, `damage`, `nocursor`, `nocard`, `nofile`, `dead` and `resendany`. Each
of the seven has a counterexample to `NoSilentLoss` in section 5. What is left,
in every combination: panics, power losses, resets with the cursor in NVS, parking,
purges, a RESEND while no older file waits, loss and duplication.
- `ShelfInv`: no replay is ever deferred (`CardInv`); records, files and the lines
  in the open file are in the same order (`OrderInv`, `FlushInv`).
- `QueueInv`: what waits has its file (`WaitingHaveFiles`), a confirmed record has
  all of its lines (`ConfirmedFull`), from the oldest entry with a file on the queue
  has every record but the thinned-out ones (`NoGap`), the SPIFFS copies are of
  standby records (`FlashInv`), and what the queue had to drop to the open file is
  not the last in it, which the replay leaves out (`NotLast`).
- `LossInv`: every finished record is settled, in the queue, or on the card with a
  replay running (`KeptInv`); the running replay and the cursor in NVS are at
  places from which a replay covers all that the card has and the server has not
  (`ReplayInv`, `CursorInv`); and what the ACK of a replay packet moves the replay
  past was in that packet (`FlightInv`).
- Neither part stands alone. Where the replay stops, `NoGap` has the queue take
  over; when the queue drops an entry, `NotLast` and `KeptInv` have the replay come
  to it; an ACK over both relies on `CustodyInv` and `IdentityInv`. The induction is
  over `AllInv`, their conjunction.

In the same module, of `RecordRing`: `RingTypeCorrect` (`RingTypeOK`),
`RingRecordsWhole` (`RecordsWhole`), `RingRestartKeeps` (`RestartKeeps`) and the
refinement `RingIsFifo` (`ImplementsFifo`), for every size of the ring and of the
records, when `"lap"` is not among the faults (with it `RecordsWhole` fails,
section 5).
- The places of the records are defined by recursion along the ring. `Chain` says
  without recursion that a sequence of positions is the one the walk takes, and
  `PlacesAre` that the recursive function is then that sequence. Such facts are
  inductions on numbers: `LeastNatural` and `SetInduction` make them, from the
  library's theorem that the naturals are well founded, as facts about a set of
  numbers, because a theorem with an operator as its parameter cannot be used.
- `Lay`: the places ascend from the tail and wrap at most once, every record is
  whole, and the header knows the newest and the free cell behind it. It is what
  `findSpace()` relies on and nowhere tests. `RingInv` has it for what the CPU sees,
  `FifoInv` for the chip too; a push keeps it because its record lies between head
  and tail after the drops, and a restart because the walk of `validateRing()`
  stops at the first entry that is not whole and, without `"lap"`, does not come
  round.
- `OwnInv` adds that a record is at one place only (`OnePlace`), so a mix of old
  and new cells never has it twice, and that what the CPU sees differs from the
  chip by the states of entries and at most one operation (`Same`, `PushedSince`). From it each step is one of `RecordFifo`
  or a stutter (`FifoPush`, `FifoAck`, `FifoRestart`, `FifoJumble`, ...).

**`SdWriterProofs`**: `TypeCorrect`, `StreamOnCard` (`FileIsStream`),
`ConfirmedIsSaved` (`ConfirmedOnCard`), `NoLineUncounted` (`LinesAccounted`),
`AnswerIsTrue` (`AnswerTrue`).
- `StreamInv`: the file and the ring behind it are one sequence in order;
  `GivenInv`: what the writer has passed is on the card, what it gave up is
  counted, even while it writes without the mutex; `MarkInv`: a mark is behind
  the lines of its record; `OpenInv`: nothing is logged before the answer of the
  open request; `RingInv`: the writer's copy of head and tail lags behind them.
- `AnswerInv`: while the main task waits for its sniff file, the request or the
  writer's work is that one and no other, and an OK waiting to be read is of a file
  that is still open, or of a card that has died since.
- Assumed is `RoomInRing`, part of the model's guards (section 2).

**`SnifferProofs`**: `TypeCorrect`, `FramesCounted` (`AllCounted`),
`OneOwnerAlways` (`OneOwner`), `FileComplete` (`FileInOrder`).
- `CountInv` is the sum with queue and block; `OwnerInv` relates the driver to
  the place of the main task; `FileInv` says that file, block and queue are the
  accepted frames in order, and at which places the last block may be under way.
  Owner and end of file hold while only the main task stops the mode
  (`tele = "idle"`; section 5 has the race).

**`TelemetryProofs`**: `TypeCorrect`, `LoginFirst` (`LoggedIn`).
- `LinkMeansLogin`: a link's flag stands for a login, but for the calls in which
  the modem has a session and the login is to come or has just failed; `OneLink`
  and `ErrorsBounded` are the strengthening of the types.

**`PullOtaProofs`**: `TypeCorrect`, `OnlyWholeImagesBoot` (`BootsWhole`),
`OnlyVerifiedIsMarked` (`MetaMeansVerified`), `ReplacesItsOwnBuild`
(`NotOverAnotherBuild`), `PartialStays` (`PartialKept`), when `"overlap"` is not
among the faults (with it they fail, section 5).
- `TaskInv`: the telemetry task leaves the card alone while the main task checks
  or flashes; `LoadInv`: the running hash is that of what is on the card, and no
  meta file stands beside a file in work; `StageInv`: what is staged was staged
  by the build that runs; `FlashInv`: the other partition has the head of the
  file that is written, which is an image if a sum was compared.
- `PartialStays` is about every step, so about the boot after a reset too. A boot
  removes files in three cases (a meta file that does not fit, a file without a
  resume note, a flash that is through or gives up); `PartialInv` says that none of
  them meets a partial image: beside a meta file, and where the main task removes
  files, there is none. `NoteInv` is what that needs: a resume note names an image
  that was offered with a sum, no later one than the download under way, and from
  `Open` on that download's.

**`OtaHttpProofs`**: `HttpTypeCorrect`, `AnswerInPlace` (`InPlace`), for all faults,
lengths of the answers and sizes of the buffers (that of the offer must hold it).
- `Place` says which request comes to which step, and that nothing is read before
  the headers; `Got` and `Filed` that what was read of the answer, and the file,
  are the next bytes in order.
- `WifiIn`: WiFi's session is used again, so bytes of an earlier answer may be in
  front, but no headers (`Clean`); a later request drops them on the way to its own
  (`Opens`), and behind those is the rest of its body (`Rest`).
- `CellIn`: a session of the modem is new for each request, its first byte is the
  headers; then `m_buffer` and the cache behind it are together the rest of the body.

**`TripProofs`**: `TypeCorrect`, `LogbookInOrder` (`InOrder`), `StopNeedsSilence`
(`StopIsSilence`), `StartNeedsRpm` (`NoGhostTrip`), `ReadsTheirOwn` (`OwnAnswer`).
- `LogbookInv`: the device and the logbook agree but for the event in work and a
  trip that the web page ends; `TimeInv`: the order of the clock, the last sign
  of life, the wake-up and the event; `RpmInv`: silent cycles make the last RPM
  old; `QuietInv`: the device's count is no more than the cycles it heard
  nothing; `GhostInv`: an RPM from before the last event that could still start
  an engine is met with OBD off.
- `StartNeedsRpm` has the hypothesis that the window of an RPM is at most three
  cycles and at most the silent cycles. It is true for cycles of a second and
  more and false below (section 5).
- `ReadsTheirOwn` is about the fold of `udsRead()` over the frames. `InTurn` is what
  it relies on: once the first frame of the reply to this request is there, the ECU
  sends nothing of an older one. `CollectInv` says that a reply that began as this
  one goes on with its parts in order, and `CollectSteps` that the fold takes the
  frames one after the other, by induction on their number. That the DID of the
  first frame is compared with the request is what the rest hangs on: without it
  the end of a reply given up earlier is taken for this one. A whole reply to an
  earlier request of the same DID, come late, cannot be told from a fresh one: the
  property says whose reply it is, not how old.

**`WebProofs`**: `TypeCorrect`, `FilesAreClosed` (`FilesClosed`), `AnswersRight`
(`AnswersMatch`).
- `WebInv`: a connection that sends has a client whose request it answers
  (`SlotInv`), no client has two places (`PlaceInv`), an unread request has no
  answer (`ClientInv`). `FileInv`: only a download that runs has a file.
  `AnswerInv`: what a client has, what is in the buffer and the position of the
  context are consecutive parts of the answer; `HandlerPiece` shows that each of
  the three handlers gives the next part, and nothing only at the end.
- Hypotheses are the absence of the three defects in section 5, each a condition
  on the constants: `NoStall` (no connection expires while it sends),
  `FilesGiven` (no empty file), and, for the answers, `WindowsFit` (no window
  whose values and bracket fill whole buffers).

Only model-checked:
- the four properties of `DeliveryQueue` above in a boot without a card (`nocard`):
  `dq_reset` has it with three records, too few for the counterexample;
- all liveness: fairness and ENABLED are out of the prover's reach.

## 5. Where the code does not do what its docs say

The passing runs leave these out, by a name in a constant or by an
approximation named here. Each of the combinations in the tables was run and has
a counterexample.

### Delivery queue

With the cfg of `dq_reset`, `SbCap = 0` and only `NoSilentLoss` (promised in
`txqueue.h:3-20`):

| Events, other constants | what happens |
|---|---|
| `unsaved`, `panic` | a panic before the cursor of a running replay is saved: the dropped records are in no queue, no replay, no count |
| `damage` | a reserve damaged in the middle: the entries behind the damage are dropped, the reserve is taken for kept |
| `nofile`, `powerloss`; `MaxBoot = 3` | a readable card that takes no new file: the replay stops after the first file |
| `resend`, `resendany` | a RESEND of a newer file while older records wait: what is dropped then is left to a replay that is past it |
| `standby`, `damage`; `SbCap = 1` | the SPIFFS copies of the entries lost with the damaged end of the reserve are deleted |
| `powerloss`, `nocursor` | a power loss before NVS names a first file: nothing is read back |
| `dead`, `powerloss`; `MaxBoot = 3` | a card that dies during a replay: its files cannot be opened, the cursor moves past them |
| `dead`, `resend` | the same with a RESEND |
| `nocard`; `MaxRec = 4` | a boot without a card: a second replay starts and replaces the deferred one |

`RecordRing`: `findSpace()` (`txqueue.cpp:205`) fills the ring to its last byte
when the oldest record lies before it, and `validateRing()` takes a header with
`head = cap` for damaged: a restart then drops the whole reserve
(`txqueue.h:9` says it survives). `RestartKeeps` excludes that state.

`RecordRing`, run `ring_lap`: `validateRing()` (`txqueue.cpp:209`) walks as many
entries as the header counts and never asks whether it has come round. The ring
is full from `DSTART` on; a larger record wraps to `DSTART`, over the two oldest,
and ends where a third begins that was dropped with them but is whole. A panic
leaves all of the push's cells and the old header. The walk begins at the new
record and, because the header counts one record more than there are, ends there
again: the queue has it twice, `head` is in the middle of the queue, and a later
push writes over a record that is still to be sent - against `txqueue.h:9-10` ("The
queue lives in a PSRAM reserve that survives ESP.restart() and panics") and
`txqueue.h:5-6` ("a record is only dropped from the queue once the server has ACKed
the packet it was in").

`SdWriter`: the opening of a sniff file may time out (the card's lock is held by
a listing) and be done later: the file belongs to nobody, and every later
session is refused until a restart.

### Firmware update

| cfg | what happens |
|---|---|
| `ota`, `Faults = {"overlap"}` | `ino:2119` has the boot flash before the telemetry task starts; `setup()` (5724-5745) creates it before. An `OTA_READY` during the flash downloads into the same buffer and files: `BootsWhole`, `PartialKept` and `Updated` fail |
| `ota`, `Faults = {"nosum", "corrupt"}` | a meta.json without a 64-digit sha256 (4817-4844): the damaged download is not checked (4927, 5139), the meta file is written (5214-5224), the next boot flashes it. The comment `ino:4856` says "OTA_META_PATH is still only written after SHA256 verification (the boot-time check flashes on it)". `MetaMeansVerified` without `meta.sum` and `BootsWhole` without `checked` fail |
| `ota`, `Faults = {"settings", "crash"}` or `{"settings", "flash"}` | a reset or a failing write between the erasing and the writing of NVS (4134-4164): no OTA_TOKEN after the restart, and 3425 never checks again. A reset while /ota_nvs.bin is written leaves a cut one that the next boot applies from 4 KB on (4068, 5238-5263). The comment 4077-4084 wants to keep the device from rebooting "with a blank NVS"; it does so for a read error of the card only. `Updated` without `~token` fails |
| `http`, `Faults = {"late"}` | the result of AT+CCHOPEN comes after its timeout or garbled (`src/libraries/FreematicsPlus/FreematicsNetwork.cpp:1331-1354`): `open()` returns false, its callers return without `close()` (`ino:4528-4533`, 4954-4964), and `init()` (1097-1115) closes nothing while `m_cchStarted` is set: no later `open()` succeeds before a reset or a power cycle of the modem. `Downloaded` without its exception fails |
| `http`, `Faults = {"closing"}` | a server that closes after each answer: `Downloaded` fails, against the comment at `src/libraries/FreematicsPlus/FreematicsNetwork.cpp:218-224` |

Read, not run:
- `ino:4187`, `2127`: "on any error staging files are cleaned up" does not hold
  for a failing `Update.begin()`, open, read or write (4240-4283).
- `ino:4775`: "NVS partition is unchanged" does not hold after a failing erase or
  write (4134-4164). The settings image replaces the whole partition, the boot
  number, file number and replay cursor with it.
- Comments at `ino:1337-1362` speak of an httpd task that is the main loop;
  `ino:4380-4386` says that OTA over cellular is not supported, it is. Settings
  that come with a firmware are fetched with the WiFi client even over cellular
  (5233) and are skipped there.

### Telemetry

| cfg | what happens |
|---|---|
| `tele`, `Commands = {"ON"}` | ON while driving leaves `s_http_standby_exit` set until the device parks; `Top` then clears `STANDBY` under the main task: `ParkedReported` and `Delivered` fail |

- `ino:3631` "WiFi always goes off for standby, full stop": `standby()` switches
  it off only when the flag is set (3642), and a radio that searches or joined
  before its login has no flag.
- The modem may stay powered: 3546 clears the flags without `cell.end()`, and
  `shutdown()` with WiFi joined returns before it.
- An access point without a way to the server (`"dead"`) blocks delivery though
  cellular works: local sends and 3222 reset the connection errors, and the
  backoff is skipped. `Usable` excludes it.
- The comment `ino:213-218` has `wifiConnect()` alternate between the two
  networks; the code (282-287) begins the preferred one only, which is 0 after
  each restart and changes on cellular near a known place. At the place of the
  other network, without cellular coverage, nothing is sent. `Usable` requires
  the preferred one.
- `State::set()` and `clear()` (1004-1011) read, change and write a word from
  two tasks; the comment at 3115-3117 relies on them. The model takes them for
  atomic.
- OFF while the engine runs wakes again after 10 s; after OFF the web page is not
  served, so ON and the upload cannot reach the device (`dataserver.cpp:587-595`).

### Trips

- The header comment `ino:554-555` is older than 2357-2361: voltage starts a trip
  only without OBD.
- A boot without a card keeps the wake-up time in RTC memory: a later boot within
  300 s may date its START before the trip before it. `Trip` takes the file to
  open.
- OFF of the web page cuts a trip without a STOP, though `ino:2396` says that
  every path into standby ends a running engine first. `InOrder` counts it as
  `"cut"`.
- `s_obdCycle` keeps its value while OBD is not polled: after sniff mode and a new
  `obd.init()` a STOP may come one polled cycle early; `StopIsSilence` counts the
  cycles in which the ECU was not heard, polled or not.
- `s_lowVoltSinceMs` (2379-2381) keeps its value while OBD is ready. When sniff
  mode takes OBD away with a low battery, a time noted minutes ago ends the trip
  in the first cycle, though 556-557 says that the voltage must stay low for
  `ENGINE_STOP_LOW_V_MS`; an RPM of the last 3 s starts the trip again at once,
  and that trip's STOP may then be up to 2 s before its START. `InOrder` allows a
  stop as old as the RPM that started the trip; a bound of one second has a
  counterexample (`trip` with `MaxTime = 7`, `LowTime = 4`, `WakeWindow = 2`,
  `Changes = {"sniff", "miss"}`, `MaxChange = 2`).
- With a `DATA_INTERVAL` of 500 ms (3909) three silent cycles may be over before
  the last RPM is 3 s old: the STOP over OBD is followed by a START without a new
  RPM, against 2357-2361. It is what the hypothesis of `StartNeedsRpm` excludes;
  the intervals of `DATA_INTERVAL_TABLE` are a second and more.
- `STANDBY_TIME` below the middle tier has no effect, though `ino:811-813` says
  that the device "enters standby sooner".
- `obd.errors` is a byte and is compared with 999: that path into standby is
  unreachable.

### Sniffer

- A frame sent while the speed is searched counts as received: a wrong speed may
  be taken for found (`sniff.h:19`).
- A restart prepared by the telemetry task races the main task's
  `saveMinutes()` (`sniff.cpp:556-568`): a 0 may be written last, and the mode
  does not come back (against 472-474). `speedTick()` may start the driver again
  after it was stopped; `FileInOrder` and `OneOwner` allow for it.
- `canOdoBegin()` that installs the driver but cannot start it leaves it
  installed (`canodo.cpp:37-39`).

### Web server

| cfg | what happens |
|---|---|
| `web`, `"sending"` in `Stalls` | a connection that expires while it sends loses FLAG_DATA_STREAM (`httpd.c:505`), so its handler is not called: the file stays open and the next download on that connection goes on in it, against `dataserver.cpp:187` |
| `web`, `Empty = {1}` | a handler whose first call returns 0: the same leak |
| `web`, `Windows = {3}` | `handlerLogData()` never sends `]` when the buffer is full exactly at the last matching element |

A download that expires or fails looks complete to its client; the OK of RESET
is never sent; `handlerLogDelete()` asks for the oldest file needed before it
takes the card's lock.

## 6. Not modelled

- Sensor drivers, OBD adapter text, GPS and motion values: device I/O and number
  conversion; `Trip` has their outcomes. The web page: browser code.
- The fingerprint: arithmetic over the stream `ConfirmedOnCard` is about.
- Record buffers: taken and freed by one task within one record.
- HTTP as the telemetry protocol: not built.
- Of the delivery queue: the hold for records without a clock, the thinning of
  fields, status lines. Of the SD log: text formatting, the SPIFFS logger.
- Of the telemetry task: restarts of WiFi for low heap, the fast connect, the
  reopening of the socket after 64 packets, deep standby, the pause when hot.
- Of the update: modems other than the SIM7670, heap guards, redirects, the direct
  flash of a box without a ready card (`ino:5300` and on), the image check of the
  ESP-IDF, a truncated list of known locations that replaces the table
  (`ino:493-534`).
- Of the sniffer: cleanup of its old files, live view, test code.
- Of the main loop: the guard against USB power, fuel bytes, setting the clock,
  the frames of the extended UDS session.
- Of the web server: authentication, POST, redirects, files from SPIFFS, the text
  of lists and settings.
- An ACK of the last boot that arrives after a reset: the model drops what is
  under way at a reset.

## 7. Plan

1. `DeliveryQueue`: which part of `NoSilentLoss` is left with `nocard`, and which
   of the other three properties hold in the presence of the events under which
   `NoSilentLoss` does not.
2. An ACK of the last boot that arrives after a reset.
