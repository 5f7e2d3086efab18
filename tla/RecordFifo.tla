----------------------------- MODULE RecordFifo -----------------------------
(***************************************************************************)
(* What the reserve promises (txqueue.h:1-20): a queue of records, oldest  *)
(* first, of which the oldest give way when it is full, the confirmed ones *)
(* leave from the front, and which a restart may shorten at its end but    *)
(* never reorders.  A panic in the middle of an operation may leave other  *)
(* records in its place (Jumble): what it had begun to write, or what was  *)
(* there before.                                                           *)
(***************************************************************************)
EXTENDS Naturals, Sequences

CONSTANT Record   (* the records that can be made, numbered in order *)

VARIABLES
  queue,   (* the records, oldest first                      *)
  saved    (* the queue of the last completed operation      *)

vars == <<queue, saved>>

Init == queue = <<>> /\ saved = <<>>

Records(s)    == {s[i] : i \in 1..Len(s)}
Without(s, k) == SubSeq(s, k + 1, Len(s))
Prefix(s, k)  == SubSeq(s, 1, k)

Push(r) ==
  /\ \A i \in 1..Len(queue) : queue[i] < r
  /\ \E k \in 0..Len(queue) : queue' = Append(Without(queue, k), r)
  /\ UNCHANGED saved

Release ==
  /\ \E k \in 1..Len(queue) : queue' = Without(queue, k)
  /\ UNCHANGED saved

Complete == saved' = queue /\ UNCHANGED queue

(* Kept: the start of the queue before or after the operation cut short.     *)
Restart ==
  /\ \E s \in {queue, saved} : \E k \in 0..Len(s) : queue' = Prefix(s, k)
  /\ saved' = queue'

(* A panic in the middle of an operation: a record that had its place taken  *)
(* or not yet written leaves another one there; the others stay in order.    *)
Jumble ==
  /\ queue # saved /\ saved' = queue'
  /\ queue' \in Seq(Record)
  /\ \A i, j \in 1..Len(queue') : i # j => queue'[i] # queue'[j]
  /\ \A a, b \in 1..Len(saved) : a < b /\ {saved[a], saved[b]} \subseteq Records(queue) =>
       ~ \E i, j \in 1..Len(queue') : i < j /\ queue'[i] = saved[b] /\ queue'[j] = saved[a]

Next == \/ Complete \/ Release \/ \E r \in Record : Push(r)
        \/ Restart \/ Jumble

Spec == Init /\ [][Next]_vars
=============================================================================
