----------------------------- MODULE RecordRing -----------------------------
(***************************************************************************)
(* The reserve of the delivery queue (txqueue.cpp): the records lie one    *)
(* after the other in a ring of PSRAM behind a header with the position of *)
(* the oldest record, of the next free byte and of the newest record.      *)
(*                                                                         *)
(* DeliveryQueue takes the queue for a sequence; here it is the bytes, in  *)
(* units of a cell: the header is cell 0, an entry takes Ent cells for its *)
(* QEnt and the rest for its text.  A CRC covers the header and each entry *)
(* (not its state).  The CPU writes to a cache; persist() writes the cache *)
(* back, and a panic leaves in the chip any mix of what it had and what    *)
(* was written since.                                                      *)
(***************************************************************************)
EXTENDS Integers, Sequences, FiniteSets

CONSTANTS
  RingCap,     (* s_cap: cells of the reserve                          *)
  Ent,         (* cells of a QEnt                                      *)
  Sizes,       (* the cells an entry can take, its QEnt included       *)
  MaxPush,     (* bound: records pushed                                *)
  MaxReset,    (* bound: restarts                                      *)
  Faults       (* "lap": a walk may come round to where it began       *)

DStart == 1    \* DSTART: the header is one cell

ASSUME RingAssumption ==
  /\ RingCap \in Nat /\ Ent \in Nat \ {0}
  /\ Sizes # {} /\ Sizes \subseteq Nat
  /\ \A z \in Sizes : Ent <= z /\ DStart + z <= RingCap
  /\ MaxPush \in Nat /\ MaxReset \in Nat /\ Faults \subseteq {"lap"}

Record == 1..MaxPush
Cells  == DStart..(RingCap - 1)

VARIABLES
  mem,      (* the cells as the CPU sees them                       *)
  hdr,      (* QHdr as the CPU sees it                              *)
  chip,     (* the cells in the PSRAM                               *)
  chipHdr,  (* QHdr in the PSRAM                                    *)
  busy,     (* an operation has changed the reserve, persist() is next *)
  pushed,   (* records pushed                                       *)
  resets    (* restarts so far                                      *)

ringVars == <<mem, hdr, chip, chipHdr, busy, pushed, resets>>

Blank == [kind |-> "blank", id |-> 0, size |-> 0, state |-> "none"]
Wrap  == [kind |-> "wrap", id |-> 0, size |-> 0, state |-> "none"]
Text(r) == [kind |-> "text", id |-> r, size |-> 0, state |-> "none"]
Entry(r, z) == [kind |-> "entry", id |-> r, size |-> z, state |-> "pending"]

(* resetRing(), and a ring from which the last record has gone. *)
Empty == [head |-> DStart, tail |-> DStart, count |-> 0, last |-> DStart, sealed |-> TRUE]
Torn  == [Empty EXCEPT !.sealed = FALSE]    \* the CRC does not match

RingInit ==
  /\ mem = [c \in Cells |-> Blank] /\ hdr = Empty
  /\ chip = mem /\ chipHdr = hdr
  /\ busy = FALSE /\ pushed = 0 /\ resets = 0

-----------------------------------------------------------------------------
(* Positions. *)

NormByRoom(m, pos) == IF pos + Ent > RingCap THEN DStart ELSE pos
Norm(m, pos) == IF pos + Ent > RingCap \/ m[pos].kind = "wrap" THEN DStart ELSE pos

NextPos(m, pos) == pos + m[pos].size

(* The positions of the count records from the oldest on. *)
Places(m, h) ==
  LET place[n \in 1..h.count] ==
        Norm(m, IF n = 1 THEN h.tail ELSE NextPos(m, place[n - 1]))
  IN  place

QueueOf(m, h) == LET at == Places(m, h) IN [n \in 1..h.count |-> m[at[n]].id]
RingQueue == QueueOf(mem, hdr)

(* The header after dropTail() or releaseAcked() has taken k records.        *)
DropTail(m, h) ==
  IF h.count = 1 THEN Empty
  ELSE [h EXCEPT !.tail = NextPos(m, Norm(m, h.tail)), !.count = h.count - 1]

WithoutOldest(m, h) ==
  LET left[k \in 0..h.count] == IF k = 0 THEN h ELSE DropTail(m, left[k - 1])
  IN  left

SpaceWhenFull(h, need) ==
  IF h.count = 0 THEN {DStart}
  ELSE IF h.head >= h.tail
       THEN IF h.head + need <= RingCap THEN {h.head}
            ELSE IF DStart + need <= h.tail THEN {DStart} ELSE {}
       ELSE IF h.head + need <= h.tail THEN {h.head} ELSE {}
(* Where findSpace() finds need cells: one place, or none. *)
Space(h, need) ==
  IF h.count = 0 THEN {DStart}
  ELSE IF h.head > h.tail
       THEN IF h.head + need <= RingCap THEN {h.head}
            ELSE IF DStart + need < h.tail THEN {DStart} ELSE {}
       ELSE IF h.head + need < h.tail THEN {h.head} ELSE {}

(* The explicit mark of a wrap, where it has room. *)
MarkWrap(m, h, need) ==
  IF /\ h.count > 0 /\ h.head > h.tail
     /\ h.head + need > RingCap /\ h.head + Ent <= RingCap
  THEN [m EXCEPT ![h.head] = Wrap]
  ELSE m

Written(m, at, r, z) ==
  [c \in Cells |-> IF c = at THEN Entry(r, z)
                   ELSE IF c \in (at + 1)..(at + z - 1) THEN Text(r) ELSE m[c]]

-----------------------------------------------------------------------------
(* The operations, each under lock(). *)

(* txqPushEx(): drop the oldest until there is room, write, seal.            *)
RingPush(z) ==
  LET left   == WithoutOldest(mem, hdr)
      drops  == CHOOSE k \in 0..hdr.count :
                  /\ Space(left[k], z) # {}
                  /\ \A j \in 0..(k - 1) : Space(left[j], z) = {}
      h      == left[drops]
      at     == CHOOSE p \in Space(h, z) : TRUE
  IN  /\ ~busy /\ pushed < MaxPush
      /\ pushed' = pushed + 1
      /\ mem' = Written(MarkWrap(mem, h, z), at, pushed + 1, z)
      /\ hdr' = [h EXCEPT !.head = at + z, !.last = at, !.count = h.count + 1]
      /\ busy' = TRUE
      /\ UNCHANGED <<chip, chipHdr, resets>>

InState(s) == {n \in 1..hdr.count : mem[Places(mem, hdr)[n]].state = s}
SetState(N, s) ==
  LET at == {Places(mem, hdr)[n] : n \in N}
  IN  [c \in Cells |-> IF c \in at THEN [mem[c] EXCEPT !.state = s] ELSE mem[c]]

(* txqNextPacket(): a packet takes the first waiting records; nothing is     *)
(* written back.                                                             *)
Send ==
  /\ ~busy
  /\ \E n \in InState("pending") :
       mem' = SetState({k \in InState("pending") : k <= n}, "inflight")
  /\ UNCHANGED <<hdr, chip, chipHdr, busy, pushed, resets>>

(* expire(), txqSendFailed() *)
RingExpire ==
  /\ ~busy /\ InState("inflight") # {}
  /\ \E N \in SUBSET InState("inflight") \ {{}} : mem' = SetState(N, "pending")
  /\ UNCHANGED <<hdr, chip, chipHdr, busy, pushed, resets>>

(* txqOnAck(): the records of the packet are confirmed, and the confirmed    *)
(* ones at the front released.                                               *)
RingAck ==
  /\ ~busy
  /\ \E N \in SUBSET InState("inflight") \ {{}} :
       /\ mem' = SetState(N, "acked")
       /\ LET done == N \cup InState("acked")
              k    == CHOOSE k \in 0..hdr.count :
                        /\ 1..k \subseteq done
                        /\ k < hdr.count => k + 1 \notin done
          IN  hdr' = WithoutOldest(mem, hdr)[k]
  /\ busy' = TRUE
  /\ UNCHANGED <<chip, chipHdr, pushed, resets>>

Persist ==
  /\ busy
  /\ chip' = mem /\ chipHdr' = hdr /\ busy' = FALSE
  /\ UNCHANGED <<mem, hdr, pushed, resets>>

-----------------------------------------------------------------------------
(* Restarts. *)

(* The entry at pos is whole: magic, length, CRC.                            *)
WholeBeforeEnd(m, pos) ==
  /\ m[pos].kind = "entry" /\ pos + m[pos].size < RingCap
  /\ \A c \in (pos + 1)..(pos + m[pos].size - 1) : m[c] = Text(m[pos].id)
Whole(m, pos) ==
  /\ m[pos].kind = "entry" /\ pos + m[pos].size <= RingCap
  /\ \A c \in (pos + 1)..(pos + m[pos].size - 1) : m[c] = Text(m[pos].id)

(* validateRing() up to the first damaged entry: where it is after n of the  *)
(* entries the header counts, the last good one and their number.            *)
Steps(m, h) ==
  LET step[n \in 0..h.count] ==
        IF n = 0 THEN [pos |-> h.tail, last |-> h.tail, n |-> 0, on |-> TRUE]
        ELSE LET s == step[n - 1]
                 p == Norm(m, s.pos)
             IN  IF ~s.on THEN s
                 ELSE IF Whole(m, p)
                      THEN [pos |-> NextPos(m, p), last |-> p, n |-> n, on |-> TRUE]
                      ELSE [pos |-> p, last |-> s.last, n |-> s.n, on |-> FALSE]
  IN  step
Walk(m, h) == Steps(m, h)[h.count]

Valid(h) == h.sealed /\ h.head < RingCap /\ h.tail < RingCap

Validated(m, h) ==
  LET w == Walk(m, h)
  IN  IF ~Valid(h) \/ w.n = 0 THEN Empty
      ELSE [head |-> w.pos, tail |-> h.tail, count |-> w.n, last |-> w.last, sealed |-> TRUE]

(* The walk goes by the header's count, not by its positions: over records   *)
(* other than those the header counts it may come round to where it began,   *)
(* to a record for the second time or over the tail.                         *)
Laps(m, h) ==
  LET step == Steps(m, h)
  IN  \E n \in 1..step[h.count].n :
        \/ step[n].last < h.tail /\ NextPos(m, step[n].last) > h.tail
        \/ \E k \in 1..(n - 1) : step[k].last = step[n].last

(* What is not confirmed is sent again. *)
BackToPending(m, h) ==
  LET at == {Places(m, h)[n] : n \in 1..h.count}
  IN  [c \in Cells |-> IF c \in at /\ m[c].state = "inflight"
                       THEN [m[c] EXCEPT !.state = "pending"] ELSE m[c]]

(* txqBegin() on a chip that holds m and h.                                  *)
Begin(m, h) ==
  /\ resets < MaxReset
  /\ hdr' = Validated(m, h)
  /\ mem' = BackToPending(m, Validated(m, h))
  /\ chip' = mem' /\ chipHdr' = hdr' /\ busy' = FALSE
  /\ resets' = resets + 1 /\ UNCHANGED pushed

(* esp_restart() from between two operations: the shutdown handler persists. *)
CleanRestart == ~busy /\ Begin(mem, hdr)

(* A panic: cell by cell what the chip had or what was written since; a      *)
(* header that is neither old nor new does not match its CRC.                *)
Fresh == {c \in Cells : chip[c] # mem[c]}
RingPanic ==
  \E N \in SUBSET Fresh :
    \E h \in {chipHdr, hdr} \cup (IF chipHdr = hdr THEN {} ELSE {Torn}) :
      LET m == [c \in Cells |-> IF c \in N THEN mem[c] ELSE chip[c]]
      IN  ("lap" \in Faults \/ ~Laps(m, h)) /\ Begin(m, h)

RingNext ==
  \/ \E z \in Sizes : RingPush(z)
  \/ Send \/ RingExpire \/ RingAck
  \/ Persist
  \/ CleanRestart \/ RingPanic

RingSpec == RingInit /\ [][RingNext]_ringVars

-----------------------------------------------------------------------------
(* Properties. *)

CellKind == {"blank", "wrap", "text", "entry"}
RingTypeOK ==
  /\ mem \in [Cells -> [kind : CellKind, id : 0..MaxPush, size : {0} \cup Sizes,
                        state : {"none", "pending", "inflight", "acked"}]]
  /\ hdr.head \in DStart..RingCap /\ hdr.tail \in DStart..RingCap /\ hdr.last \in Cells
  /\ hdr.count \in Nat /\ hdr.sealed \in BOOLEAN
  /\ busy \in BOOLEAN /\ pushed \in 0..MaxPush /\ resets \in 0..MaxReset

(* The positions taken by the n-th record. *)
Extent(n) == LET p == Places(mem, hdr)[n] IN p..NextPos(mem, p) - 1

(* The records of the queue lie whole in the ring and apart from each other: *)
(* however the writes went round and whatever a panic mixed, no push has     *)
(* overwritten a record that is still to be sent (txqueue.cpp:344-363), and  *)
(* the next one will find the end of the newest (lastPos, head).             *)
RecordsWhole ==
  /\ \A n \in 1..hdr.count : Whole(mem, Places(mem, hdr)[n])
  /\ \A n, k \in 1..hdr.count : n # k => Extent(n) \cap Extent(k) = {}
  /\ hdr.count > 0 => hdr.last = Places(mem, hdr)[hdr.count]

Fifo == INSTANCE RecordFifo WITH queue <- RingQueue, saved <- QueueOf(chip, chipHdr)
(* The bytes implement the queue (RecordFifo).                               *)
ImplementsFifo == Fifo!Spec

(* A restart between two operations keeps every record in its place          *)
(* (txqueue.h:9), unless the newest record or the last one released ended    *)
(* with the ring: validateRing() then takes the header for damaged.          *)
RestartKeeps ==
  [][CleanRestart /\ hdr.head < RingCap /\ hdr.tail < RingCap => RingQueue' = RingQueue]_ringVars
=============================================================================
