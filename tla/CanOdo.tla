------------------------------- MODULE CanOdo -------------------------------
(***************************************************************************)
(* The reads over the CAN bus (canodo.cpp): UDS 22 <did> to one ECU, whose *)
(* reply comes in ISO-TP frames, as operators on the frames that come      *)
(* before the time is out.                                                 *)
(*                                                                         *)
(* A reply is the sequence of its parts 1..Parts(did), one in a frame; the *)
(* DID stands in the first one only.  A consecutive frame carries its      *)
(* number and nothing that tells whose it is.                              *)
(***************************************************************************)
EXTENDS Naturals, Sequences, SequencesExt

Did == {"km", "fuel", "list", "name1", "name2"}
Ecu(did)   == CASE did = "km" -> "gateway" [] did = "fuel" -> "cluster" [] OTHER -> "radio"
Parts(did) == CASE did = "list" -> 1 [] did = "km" -> 2 [] OTHER -> 3

(* One frame: the ECU it is from, what it is, the reply it is a part of.     *)
Frame(did, kind, n) == [from |-> Ecu(did), kind |-> kind, of |-> did, n |-> n]
Reply(did) ==
  [i \in 1..Parts(did) |->
     IF i > 1 THEN Frame(did, "next", i - 1)
     ELSE Frame(did, IF Parts(did) = 1 THEN "single" ELSE "first", 0)]
Pending(did) == Frame(did, "pending", 0)
Refusal(did) == Frame(did, "refused", 0)

-----------------------------------------------------------------------------
(* udsRead(): a reader that waits for the first frame, collects the rest.    *)

Waiting == [at |-> "first", got |-> <<>>, want |-> 0, seq |-> 1]
Ends(r, at) == [r EXCEPT !.at = at]
Part(f) == <<f.of, f.n>>

FirstFrame(r, f) ==
  CASE f.kind = "refused" -> Ends(r, "nrc")
    [] f.kind = "single"  -> [r EXCEPT !.at = "whole", !.got = <<Part(f)>>, !.want = 1]
    [] f.kind = "first"   -> [r EXCEPT !.at = "next", !.got = <<Part(f)>>, !.want = Parts(f.of)]
    [] OTHER              -> r                \* response pending, a frame nobody waits for

NextFrame(r, f) ==
  IF f.kind # "next" \/ f.n # r.seq THEN Ends(r, "order")
  ELSE [r EXCEPT !.got = Append(@, Part(f)), !.seq = @ + 1,
                 !.at = IF Len(r.got) + 1 = r.want THEN "whole" ELSE @]

(* waitFrame(): frames of other ECUs are counted and passed over.            *)
OnFrame(ecu, r, f) ==
  IF f.from # ecu THEN r
  ELSE IF r.at = "first" THEN FirstFrame(r, f)
  ELSE IF r.at = "next" THEN NextFrame(r, f) ELSE r

Collect(did, frames) == FoldLeft(LAMBDA r, f : OnFrame(Ecu(did), r, f), Waiting, frames)

Outcome(r, did) ==
  CASE r.at = "whole" /\ r.got[1][1] = did -> "ok"
    [] r.at = "whole" -> "bad"
    [] r.at = "first" -> "no_reply"
    [] r.at = "next"  -> "timeout"
    [] OTHER -> r.at

Read(did, result, r) == [did |-> did, result |-> result, got |-> IF result = "ok" THEN r.got ELSE <<>>]
UdsReadAny(did, frames) ==
  LET r == Collect(did, frames)
  IN  Read(did, IF r.at = "whole" THEN "ok" ELSE Outcome(r, did), r)
UdsRead(did, frames) ==
  LET r == Collect(did, frames)
  IN  Read(did, Outcome(r, did), r)

Nothing == [did |-> "km", result |-> "not_ready", got |-> <<>>]   \* !s_ready, or not sent

-----------------------------------------------------------------------------
(* What may come: the ECU sends one frame after the other, the end of an     *)
(* earlier reply nobody waited for any more first; frames get lost.          *)

Late(did) ==
  UNION {{SubSeq(Reply(d), i, Len(Reply(d))) : i \in 1..Parts(d) + 1} :
           d \in {e \in Did : Ecu(e) = Ecu(did)}}
Answers(did) == {<<Pending(did)>> \o Reply(did), <<Refusal(did)>>, Reply(did)}
Lost == [from |-> "none", kind |-> "none", of |-> "none", n |-> 0]
Lossy(s) == {[i \in DOMAIN s |-> IF i \in gone THEN Lost ELSE s[i]] : gone \in SUBSET DOMAIN s}
Foreign(did) == <<Frame(IF did = "km" THEN "list" ELSE "km", "first", 0)>>
Comes(did) ==
  {Foreign(did) \o Reply(did)} \cup UNION {Lossy(l \o a) : l \in Late(did), a \in Answers(did)}

Reads == [did \in Did |-> {UdsRead(did, c) : c \in Comes(did)}]

(* A read that succeeds has the whole reply to its own request, in order; or *)
(* one to an earlier request of the same DID, which looks the same.          *)
Own(r) == r.result = "ok" => r.got = [i \in 1..Parts(r.did) |-> Part(Reply(r.did)[i])]
=============================================================================
