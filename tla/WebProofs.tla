------------------------------ MODULE WebProofs ------------------------------
(***************************************************************************)
(* What holds of the web server for any number of connections, clients,    *)
(* requests and files, buffers of any size, and answers sent in any pieces. *)
(***************************************************************************)
EXTENDS Web, SequenceTheorems, TLAPS

(* The answer to a client is under way.                                      *)
Answered(s, c) ==
  /\ asked[c] # None /\ ended[c] = "no" /\ wire[c] = "none" /\ ~rest[c]
  /\ streams[s] <=> IsStream(asked[c])
  /\ ~streams[s] => asked[c].kind \in {"text", "page"}

SlotOK(s) ==
  /\ state[s] = "sending" => conn[s] # None /\ Answered(s, conn[s])
  /\ state[s] # "sending" => ~streams[s] /\ served[s] < KeepAlive
  /\ streams[s] => ptr[s] # None
  /\ conn[s] = None => served[s] = 0
SlotInv == \A s \in Slots : SlotOK(s)

(* A client has one connection or is waiting for one.                        *)
PlaceInv ==
  /\ \A s, t \in Slots : conn[s] = conn[t] /\ conn[s] # None => s = t
  /\ \A i, j \in 1..Len(backlog) : backlog[i] = backlog[j] => i = j
  /\ \A i \in 1..Len(backlog), s \in Slots : conn[s] # backlog[i]

(* A request that is not read yet has no answer.                             *)
ClientOK(c) ==
  /\ wire[c] = "whole" => ~rest[c]
  /\ (wire[c] = "whole" \/ rest[c]) => asked[c] # None /\ ended[c] = "no" /\ got[c] = <<>>
ClientInv == \A c \in Clients : ClientOK(c)

WebInv == TypeOK /\ SlotInv /\ PlaceInv /\ ClientInv

-----------------------------------------------------------------------------
(* Pieces of files. *)

(* The constants are numbers.                                                *)
LEMMA Sizes ==
  /\ Blocks \in Nat \ {0} /\ Room \in Nat /\ Room >= 2 /\ Files \subseteq Nat
  /\ \A f \in Files : Size(f) \in Nat /\ Size(f) <= Blocks
BY BoundsAssumption DEF Size

(* Blocks of a file, one after the other.                                    *)
LEMMA ItemsAre ==
  ASSUME NEW f \in Nat, NEW m \in Nat, NEW n \in Int, m <= n + 1
  PROVE  /\ Items(f, m, n) \in Seq(Item) /\ Len(Items(f, m, n)) = n + 1 - m
         /\ \A i \in 1..(n + 1 - m) : Items(f, m, n)[i] = <<f, m + i - 1>>
<1>1. n + 1 - m \in Nat /\ \A i \in 1..(n + 1 - m) : <<f, m + i - 1>> \in Item
  BY DEF Item
<1>2. Items(f, m, n) \in [1..(n + 1 - m) -> Item]
  BY <1>1 DEF Items
<1> QED BY <1>1, <1>2 DEF Items

(* None, when the last one is before the first.                              *)
LEMMA ItemsNone ==
  ASSUME NEW f, NEW m \in Int, NEW n \in Int, n < m
  PROVE  Items(f, m, n) = <<>>
BY DEF Items

(* No more than there is between the two, in any case.                       *)
LEMMA ItemsTyped ==
  ASSUME NEW f \in Nat, NEW m \in Nat, NEW n \in Int
  PROVE  /\ Items(f, m, n) \in Seq(Item) /\ Len(Items(f, m, n)) \in Nat
         /\ m <= n + 1 => Len(Items(f, m, n)) = n + 1 - m
         /\ n < m => Len(Items(f, m, n)) = 0
<1>1. CASE m <= n + 1
  BY <1>1, ItemsAre, ItemsNone
<1>2. CASE n + 1 < m
  <2>1. n < m /\ Items(f, m, n) = <<>>
    BY <1>2, ItemsNone
  <2> QED BY <1>2, <2>1, EmptySeq
<1> QED BY <1>1, <1>2

(* The context y continues x at position p.                                  *)
Continues(y, x, p, h, d) ==
  /\ y \in Contexts /\ y.kind = x.kind /\ y.file = x.file /\ y.to = x.to /\ y.from = x.from
  /\ y.pos = p /\ (y.head <=> h) /\ (y.done <=> d)

(* A context with another position is a context.                             *)
LEMMA Moved ==
  ASSUME NEW x \in Contexts, NEW p \in Nat, NEW b \in BOOLEAN
  PROVE  /\ Continues([x EXCEPT !.pos = p], x, p, x.head, x.done)
         /\ Continues([x EXCEPT !.head = b, !.pos = p], x, p, b, x.done)
         /\ Continues([x EXCEPT !.pos = p, !.done = b], x, p, x.head, b)
<1>1. ASSUME NEW y, y = [x EXCEPT !.pos = p]
      PROVE  Continues(y, x, p, x.head, x.done)
  BY <1>1 DEF Contexts, Continues
<1>2. ASSUME NEW y, y = [x EXCEPT !.head = b, !.pos = p]
      PROVE  Continues(y, x, p, b, x.done)
  <2>1. y = [k \in DOMAIN x |-> IF k = "head" THEN b ELSE [x EXCEPT !.pos = p][k]]
    BY <1>2
  <2> QED BY <1>1, <2>1 DEF Contexts, Continues
<1>3. ASSUME NEW y, y = [x EXCEPT !.pos = p, !.done = b]
      PROVE  Continues(y, x, p, x.head, b)
  <2>1. y = [k \in DOMAIN x |-> IF k = "done" THEN b ELSE [x EXCEPT !.pos = p][k]]
    BY <1>3
  <2> QED BY <1>1, <2>1 DEF Contexts, Continues
<1> QED BY <1>1, <1>2, <1>3

(* The next piece of a log: as many blocks as a buffer holds.                *)
LEMMA LogFileEffect ==
  ASSUME NEW x \in Contexts
  PROVE  LET d == LogFile(x).data
             n == Least(x.pos + Room - 1, Size(x.file))
         IN  /\ d = Items(x.file, x.pos, n) /\ d \in Seq(Item) /\ Len(d) <= Room
             /\ Len(d) = IF x.pos <= n + 1 THEN n + 1 - x.pos ELSE 0
             /\ Continues(LogFile(x).ctx, x, x.pos + Len(d), x.head, x.done)
<1> DEFINE n == Least(x.pos + Room - 1, Size(x.file))
           d == Items(x.file, x.pos, n)
<1>0. Size(x.file) \in Nat /\ x.file \in Nat /\ x.pos \in Nat
  BY Sizes DEF Contexts
<1>1. n \in Int /\ n <= x.pos + Room - 1
  BY <1>0, Sizes DEF Least
<1>2. /\ d \in Seq(Item) /\ Len(d) \in Nat
      /\ x.pos <= n + 1 => Len(d) = n + 1 - x.pos
      /\ n < x.pos => Len(d) = 0
  BY <1>0, <1>1, ItemsTyped
<1>3. LogFile(x).data = d /\ LogFile(x).ctx = [x EXCEPT !.pos = x.pos + Len(d)]
  BY DEF LogFile, Unread
<1> HIDE DEF n, d
<1>4. Continues(LogFile(x).ctx, x, x.pos + Len(d), x.head, x.done)
  <2>1. x.pos + Len(d) \in Nat
    BY <1>0, <1>2
  <2> QED BY <1>3, <2>1, Moved
<1>5. Len(d) <= Room /\ Len(d) = IF x.pos <= n + 1 THEN n + 1 - x.pos ELSE 0
  BY <1>0, <1>1, <1>2, Sizes
<1>6. d = Items(x.file, x.pos, n)
  BY DEF d
<1> QED BY <1>2, <1>3, <1>4, <1>5, <1>6 DEF n

(* The next piece of the frames: the header first, then blocks, up to the    *)
(* last one that is wanted.                                                  *)
LEMMA SniffFileEffect ==
  ASSUME NEW x \in Contexts
  PROVE  LET d == SniffFile(x).data
             y == SniffFile(x).ctx
             n == Least(x.pos + Room - 1, Size(x.file))
             last == IF x.pos <= n + 1 THEN n ELSE x.pos - 1
         IN  /\ d \in Seq(Item) /\ Len(d) <= Room
             /\ x.done => y = x /\ d = <<>>
             /\ ~x.done /\ ~x.head =>
                  /\ d = <<<<x.file, 0>>>> /\ Continues(y, x, x.from, TRUE, x.done)
             /\ ~x.done /\ x.head =>
                  /\ d = Items(x.file, x.pos, Least(last, x.to))
                  /\ Continues(y, x, last + 1, x.head, x.to < last)
<1> DEFINE n == Least(x.pos + Room - 1, Size(x.file))
           last == IF x.pos <= n + 1 THEN n ELSE x.pos - 1
           m == Least(last, x.to)
           d == Items(x.file, x.pos, m)
<1>0. /\ x.file \in Nat /\ x.pos \in Nat /\ Size(x.file) \in Nat
      /\ x.from \in Nat /\ x.to \in Nat /\ x.head \in BOOLEAN /\ x.done \in BOOLEAN
  BY Sizes DEF Contexts
<1>1. n \in Int /\ n <= x.pos + Room - 1
  BY <1>0, Sizes DEF Least
<1>2. x.pos + Len(Unread(x, Room)) - 1 = last
  <2>1. Unread(x, Room) = Items(x.file, x.pos, n)
    BY DEF Unread
  <2> HIDE DEF n
  <2> DEFINE k == Len(Items(x.file, x.pos, n))
  <2>2. k \in Nat /\ (x.pos <= n + 1 => k = n + 1 - x.pos) /\ (n < x.pos => k = 0)
    BY ZenonT(60), <1>0, <1>1, ItemsTyped
  <2>3. Len(Unread(x, Room)) = k
    BY <2>1
  <2> HIDE DEF k
  <2> QED BY <1>0, <1>1, <2>2, <2>3
<1>3. last \in Int /\ last + 1 \in Nat /\ m \in Int /\ m <= last
      /\ last <= x.pos + Room - 1
  BY <1>0, <1>1, Sizes DEF Least
<1>4. d \in Seq(Item) /\ Len(d) <= Room
  <2> HIDE DEF m
  <2>1. /\ d \in Seq(Item) /\ Len(d) \in Nat
        /\ x.pos <= m + 1 => Len(d) = m + 1 - x.pos
        /\ m < x.pos => Len(d) = 0
    BY ZenonT(60), <1>0, <1>3, ItemsTyped
  <2> QED BY <1>0, <1>3, <2>1, Sizes
<1>5. d = Items(x.file, x.pos, m)
  OBVIOUS
<1> HIDE DEF last, d
<1>6. CASE x.done
  BY <1>0, <1>6, EmptySeq, Sizes DEF SniffFile
<1>7. CASE ~x.done /\ ~x.head
  <2>1. SniffFile(x).ctx = [x EXCEPT !.head = TRUE, !.pos = x.from] /\ SniffFile(x).data = <<<<x.file, 0>>>>
    BY <1>7 DEF SniffFile
  <2>2. Continues(SniffFile(x).ctx, x, x.from, TRUE, x.done)
    BY <1>0, <2>1, Moved
  <2>3. <<<<x.file, 0>>>> \in Seq(Item) /\ Len(<<<<x.file, 0>>>>) = 1
    BY <1>0 DEF Item
  <2>4. SniffFile(x).data \in Seq(Item) /\ Len(SniffFile(x).data) <= Room
    BY <2>1, <2>3, Sizes
  <2> QED BY <1>7, <2>1, <2>2, <2>4, Zenon
<1>8. ASSUME ~x.done /\ x.head
      PROVE  SniffFile(x).data = d /\ Continues(SniffFile(x).ctx, x, last + 1, x.head, x.to < last)
  <2>0. (x.to < last) \in BOOLEAN
    OBVIOUS
  <2>1. PICK b \in BOOLEAN : b = (x.to < last)
    BY <2>0, Zenon
  <2>2. SniffFile(x).ctx = [x EXCEPT !.pos = last + 1, !.done = x.to < last] /\ SniffFile(x).data = d
    BY <1>2, <1>8, Zenon DEF SniffFile, d
  <2>3. SniffFile(x).ctx = [x EXCEPT !.pos = last + 1, !.done = b]
    BY <2>1, <2>2, Zenon
  <2>4. Continues(SniffFile(x).ctx, x, last + 1, x.head, b)
    <3>1. last + 1 \in Nat
      BY <1>3
    <3>2. Continues([x EXCEPT !.pos = last + 1, !.done = b], x, last + 1, x.head, b)
      BY <3>1, Moved, Zenon
    <3> QED BY <2>3, <3>2, Zenon
  <2>5. Continues(SniffFile(x).ctx, x, last + 1, x.head, x.to < last)
    BY <2>1, <2>4 DEF Continues
  <2> QED BY <2>2, <2>5
<1>9. CASE ~x.done /\ x.head
  BY <1>4, <1>5, <1>8, <1>9, Zenon DEF last
<1> QED BY <1>6, <1>7, <1>9

(* The next piece of the values: the bracket before the first one, blocks    *)
(* until the buffer is full, or to the last one that is wanted and the other *)
(* bracket.                                                                  *)
LEMMA LogDataEffect ==
  ASSUME NEW x \in Contexts
  PROVE  LET d == LogData(x).data
             h == IF x.head THEN 0 ELSE 1
             n == Least(x.pos + Room - h - 1, x.to)
             k == IF x.pos <= n + 1 THEN n + 1 - x.pos ELSE 0
         IN  /\ d \in Seq(Item) /\ Len(d) <= Room
             /\ h = 1 => Len(d) >= 1 /\ d[1] = Opening
             /\ \A i \in 1..k : d[h + i] = <<x.file, x.pos + i - 1>>
             /\ h + k = Room =>
                  Len(d) = Room /\ Continues(LogData(x).ctx, x, x.pos + k, TRUE, x.done)
             /\ h + k # Room =>
                  /\ Continues(LogData(x).ctx, x, x.to + 1, TRUE, x.done)
                  /\ IF h + k = 0 THEN d = <<>> ELSE Len(d) = h + k + 1 /\ d[h + k + 1] = Closing
<1> DEFINE h == IF x.head THEN 0 ELSE 1
           n == Least(x.pos + Room - h - 1, x.to)
           k == IF x.pos <= n + 1 THEN n + 1 - x.pos ELSE 0
           start == IF x.head THEN <<>> ELSE <<Opening>>
           D == Items(x.file, x.pos, n)
           d == start \o D
           y == LogData(x).ctx
           e == LogData(x).data
<1> SUFFICES /\ e \in Seq(Item) /\ Len(e) <= Room
             /\ h = 1 => Len(e) >= 1 /\ e[1] = Opening
             /\ \A i \in 1..k : e[h + i] = <<x.file, x.pos + i - 1>>
             /\ h + k = Room =>
                  Len(e) = Room /\ Continues(y, x, x.pos + k, TRUE, x.done)
             /\ h + k # Room =>
                  /\ Continues(y, x, x.to + 1, TRUE, x.done)
                  /\ IF h + k = 0 THEN e = <<>> ELSE Len(e) = h + k + 1 /\ e[h + k + 1] = Closing
  OBVIOUS
<1>1. /\ x.file \in Nat /\ x.pos \in Nat /\ x.to \in Nat /\ x.to + 1 \in Nat /\ h \in 0..1
  <2>1. h \in 0..1
    OBVIOUS
  <2> HIDE DEF h
  <2>2. x.file \in Nat /\ x.pos \in Nat /\ x.to \in Nat
    BY Sizes DEF Contexts
  <2> QED BY <2>1, <2>2
<1>2. start \in Seq(Item) /\ Len(start) = h /\ (h = 1 => start[1] = Opening) /\ (h = 0 => start = <<>>)
  <2>1. CASE x.head
    BY <2>1, EmptySeq
  <2>2. CASE ~x.head
    BY <2>2 DEF Item, Opening
  <2> QED BY <2>1, <2>2
<1> HIDE DEF start
<1>3. n \in Int /\ n <= x.pos + Room - h - 1
  BY <1>1, Sizes DEF Least
<1>4. /\ k \in Nat /\ h + k <= Room
      /\ D \in Seq(Item) /\ Len(D) = k
      /\ \A i \in 1..k : D[i] = <<x.file, x.pos + i - 1>>
  <2>1. k \in Nat /\ h + k <= Room
    BY <1>1, <1>3, Sizes
  <2>2. CASE x.pos <= n + 1
    <3>1. k = n + 1 - x.pos
      BY <2>2
    <3> HIDE DEF n, k
    <3>2. /\ D \in Seq(Item) /\ Len(D) = n + 1 - x.pos
          /\ \A i \in 1..(n + 1 - x.pos) : D[i] = <<x.file, x.pos + i - 1>>
      BY <1>1, <1>3, <2>2, ItemsAre
    <3> QED BY <2>1, <3>1, <3>2
  <2>3. CASE ~(x.pos <= n + 1)
    <3>1. k = 0
      BY <2>3
    <3> HIDE DEF n, k
    <3>2. D = <<>>
      BY <1>1, <1>3, <2>3, ItemsNone
    <3> HIDE DEF D
    <3>3. D \in Seq(Item) /\ Len(D) = 0
      BY <3>2, EmptySeq
    <3> QED BY <2>1, <3>1, <3>3
  <2> QED BY <2>1, <2>2, <2>3
<1> HIDE DEF h, n, k, D
<1>5. /\ d \in Seq(Item) /\ Len(d) = h + k /\ (h = 1 => d[1] = Opening)
      /\ \A i \in 1..k : d[h + i] = <<x.file, x.pos + i - 1>>
  <2>1. start \in Seq(Item) /\ D \in Seq(Item) /\ Len(start) = h /\ Len(D) = k
    BY <1>2, <1>4
  <2>2. /\ d \in Seq(Item) /\ Len(d) = Len(start) + Len(D)
        /\ \A i \in 1..(Len(start) + Len(D)) :
             d[i] = IF i <= Len(start) THEN start[i] ELSE D[i - Len(start)]
    BY <2>1, ConcatProperties
  <2> HIDE DEF d
  <2>3. \A i \in 1..(h + k) : d[i] = IF i <= h THEN start[i] ELSE D[i - h]
    BY <2>1, <2>2
  <2>4. h = 1 => d[1] = Opening
    BY <1>1, <1>2, <1>4, <2>3
  <2>5. ASSUME NEW i \in 1..k
        PROVE  d[h + i] = <<x.file, x.pos + i - 1>>
    <3>1. h + i \in 1..(h + k) /\ ~(h + i <= h) /\ (h + i) - h = i
      BY <1>1, <1>4
    <3>2. d[h + i] = D[i]
      BY <2>3, <3>1
    <3> QED BY <1>4, <3>2
  <2> QED BY <2>1, <2>2, <2>4, <2>5
<1>6. d = <<>> <=> h + k = 0
  BY <1>1, <1>4, <1>5, EmptySeq
<1>7. /\ h + k = Room => e = d /\ y = [x EXCEPT !.head = TRUE, !.pos = x.pos + Len(d) - Len(start)]
      /\ h + k # Room => /\ e = IF d = <<>> THEN <<>> ELSE d \o <<Closing>>
                         /\ y = [x EXCEPT !.head = TRUE, !.pos = x.to + 1]
  <2>1. D = Items(x.file, x.pos, Least(x.pos + Room - Len(start) - 1, x.to))
    BY <1>2 DEF D, n
  <2>2. Len(d) = Room <=> h + k = Room
    BY <1>5
  <2> QED BY <2>1, <2>2 DEF LogData, start
<1> HIDE DEF d, e, y
<1>8. <<Closing>> \in Seq(Item) /\ Len(<<Closing>>) = 1 /\ <<Closing>>[1] = Closing
  BY DEF Item, Closing
<1>9. CASE h + k = Room
  <2>1. x.pos + Len(d) - Len(start) = x.pos + k /\ x.pos + k \in Nat
    BY <1>1, <1>2, <1>4, <1>5
  <2>2. Continues(y, x, x.pos + k, TRUE, x.done)
    BY <1>7, <1>9, <2>1, Moved
  <2>3. /\ e \in Seq(Item) /\ Len(e) = Room /\ Len(e) <= Room /\ (h = 1 => Len(e) >= 1 /\ e[1] = Opening)
        /\ \A i \in 1..k : e[h + i] = <<x.file, x.pos + i - 1>>
    BY <1>5, <1>7, <1>9, Sizes
  <2> QED BY <1>9, <2>2, <2>3, Zenon
<1>10. CASE h + k # Room /\ h + k = 0
  <2>1. Continues(y, x, x.to + 1, TRUE, x.done)
    BY <1>1, <1>7, <1>10, Moved
  <2>2. e = <<>>
    BY <1>6, <1>7, <1>10
  <2>3. e \in Seq(Item) /\ Len(e) <= Room /\ h # 1 /\ 1..k = {}
    BY <1>1, <1>4, <1>10, <2>2, Sizes, EmptySeq
  <2> QED BY <1>10, <2>1, <2>2, <2>3, Zenon
<1>11. CASE h + k # Room /\ h + k # 0
  <2>1. Continues(y, x, x.to + 1, TRUE, x.done)
    BY <1>1, <1>7, <1>11, Moved
  <2>2. e = d \o <<Closing>>
    BY <1>6, <1>7, <1>11
  <2>3. /\ e \in Seq(Item) /\ Len(e) = Len(d) + 1
        /\ \A i \in 1..(Len(d) + 1) : e[i] = IF i <= Len(d) THEN d[i] ELSE Closing
    BY <1>5, <1>8, <2>2, ConcatProperties
  <2>4. Len(e) = h + k + 1 /\ h + k + 1 <= Room /\ e[h + k + 1] = Closing
    BY <1>1, <1>4, <1>5, <1>11, <2>3, Sizes
  <2>5. h = 1 => e[1] = Opening
    BY <1>1, <1>4, <1>5, <1>11, <2>3
  <2>6. ASSUME NEW i \in 1..k
        PROVE  e[h + i] = <<x.file, x.pos + i - 1>>
    <3>1. h + i \in 1..Len(d) /\ h + i \in 1..(Len(d) + 1)
      BY <1>1, <1>4, <1>5
    <3> QED BY <1>5, <2>3, <3>1
  <2>7. Len(e) <= Room /\ Len(e) >= 1
    BY <1>1, <1>4, <2>4
  <2> QED BY <1>11, <2>1, <2>3, <2>4, <2>5, <2>6, <2>7, Zenon
<1> QED BY <1>9, <1>10, <1>11

(* A handler keeps a context, and gives no more than a buffer holds.         *)
LEMMA HandlerTyped ==
  ASSUME NEW x \in Contexts
  PROVE  /\ Handler(x).ctx \in Contexts /\ Handler(x).data \in Seq(Item)
         /\ Len(Handler(x).data) \in Nat /\ Len(Handler(x).data) <= Room
<1>1. x.kind \in {"log", "data", "sniff"}
  BY DEF Contexts
<1>2. CASE x.kind = "log"
  <2>1. Handler(x) = LogFile(x)
    BY <1>2 DEF Handler
  <2> QED BY <2>1, LogFileEffect, LenProperties DEF Continues
<1>3. CASE x.kind = "data"
  <2>1. Handler(x) = LogData(x)
    BY <1>3 DEF Handler
  <2>2. LogData(x).ctx \in Contexts
    BY LogDataEffect, Zenon DEF Continues
  <2>3. LogData(x).data \in Seq(Item) /\ Len(LogData(x).data) <= Room
    BY LogDataEffect, Zenon
  <2> QED BY <2>1, <2>2, <2>3, LenProperties
<1>4. CASE x.kind = "sniff"
  <2>1. Handler(x) = SniffFile(x)
    BY <1>4 DEF Handler
  <2>2. SniffFile(x).ctx \in Contexts
    BY SniffFileEffect, Zenon DEF Continues
  <2>3. SniffFile(x).data \in Seq(Item) /\ Len(SniffFile(x).data) <= Room
    BY SniffFileEffect, Zenon
  <2> QED BY <2>1, <2>2, <2>3, LenProperties
<1> QED BY <1>1, <1>2, <1>3, <1>4

(* What a request for a download says.                                       *)
LEMMA RequestIs ==
  ASSUME NEW r \in Requests
  PROVE  /\ IsStream(r) => /\ r.file \in Files /\ r.from \in Nat /\ r.to \in 1..Blocks
                           /\ r.kind = "data" => r.to \in Windows /\ r.from = 1
                           /\ r.kind = "sniff" => r.from \in {0, 2}
                           /\ r.kind = "log" => r.from = 1
         /\ ~IsStream(r) => r.kind \in {"text", "page", "unknown", "reset"}
<1>1. CASE r \in [kind : Kinds \ {"log", "data", "sniff"}, file : {0}, from : {0}, to : {0}]
  BY <1>1, EventsAssumption DEF IsStream
<1>2. CASE r \in [kind : Kinds \cap {"log"}, file : Files, from : {1}, to : {Blocks}]
  BY <1>2, Sizes DEF IsStream
<1>3. CASE r \in [kind : Kinds \cap {"data"}, file : Files \ Empty, from : {1}, to : Windows]
  <2>1. r.file \in Files /\ r.from = 1 /\ r.to \in Windows /\ r.kind = "data"
    BY <1>3
  <2>2. r.to \in 1..Blocks
    BY <2>1, BoundsAssumption
  <2> QED BY <2>1, <2>2 DEF IsStream
<1>4. CASE r \in [kind : Kinds \cap {"sniff"}, file : Files, from : {0, 2}, to : Windows]
  <2>1. r.file \in Files /\ r.from \in {0, 2} /\ r.to \in Windows /\ r.kind = "sniff"
    BY <1>4
  <2>2. r.to \in 1..Blocks
    BY <2>1, BoundsAssumption
  <2> QED BY <2>1, <2>2 DEF IsStream
<1> QED BY <1>1, <1>2, <1>3, <1>4 DEF Requests

(* A download begins with a context of its own.                              *)
LEMMA FirstContext ==
  ASSUME NEW r \in Requests, IsStream(r)
  PROVE  LET x == NewContext(r)
         IN  /\ x \in Contexts /\ x.kind = r.kind /\ x.file = r.file /\ x.to = r.to
             /\ x.from = r.from /\ x.pos = (IF r.kind = "sniff" THEN 0 ELSE 1) /\ ~x.done
             /\ x.head <=> (r.kind = "log" \/ r.from = 0)
<1>1. /\ r.file \in Files /\ r.from \in Nat /\ r.to \in Nat /\ r.kind \in {"log", "data", "sniff"}
  BY RequestIs, Sizes DEF IsStream
<1>2. PICK b \in BOOLEAN : b = (r.kind = "log" \/ r.from = 0)
  <2>1. (r.kind = "log" \/ r.from = 0) \in BOOLEAN
    BY Zenon
  <2> QED BY <2>1, Zenon
<1>3. NewContext(r) = [kind |-> r.kind, file |-> r.file, to |-> r.to, from |-> r.from,
                       pos |-> IF r.kind = "sniff" THEN 0 ELSE 1, head |-> b, done |-> FALSE]
  BY <1>2, Zenon DEF NewContext
<1>4. b <=> (r.kind = "log" \/ r.from = 0)
  BY <1>2, Zenon
<1> QED BY <1>1, <1>3, <1>4 DEF Contexts

-----------------------------------------------------------------------------
(* What a handler gives is the next piece of the answer. *)

(* The pieces of the answer to a request, and how many there are.            *)
BodyLen(r) ==
  CASE r.kind = "log"   -> Blocks
    [] r.kind = "data"  -> r.to + 2
    [] r.kind = "sniff" -> r.to + 1 - (IF r.from = 0 THEN 0 ELSE 1)
    [] OTHER            -> 1
Part(r, i) ==
  CASE r.kind = "log"   -> <<r.file, i>>
    [] r.kind = "data"  -> (IF i = 1 THEN Opening ELSE IF i = r.to + 2 THEN Closing ELSE <<r.file, i - 1>>)
    [] r.kind = "sniff" -> (IF r.from = 0 \/ i = 1 THEN <<r.file, i - 1>> ELSE <<r.file, i>>)
    [] OTHER            -> Text

(* The files have something, and the brackets around the values are no       *)
(* whole number of buffers.                                                  *)
FilesGiven == Empty = {}
WindowsFit == \A w \in Windows : (w + 1) % Room # 0

(* How much of the answer a context has given.                               *)
Off(x) ==
  CASE x.kind = "log"   -> x.pos - 1
    [] x.kind = "data"  -> IF ~x.head THEN 0 ELSE IF x.pos = x.to + 1 THEN x.to + 2 ELSE x.pos
    [] x.kind = "sniff" -> IF ~x.head THEN 0
                           ELSE (IF x.from = 0 THEN 0 ELSE 1) + Least(x.pos, x.to + 1) - x.from

(* A context of the download that a request asks for.                        *)
Good(x, r) ==
  /\ x \in Contexts /\ x.kind = r.kind /\ x.file = r.file /\ x.to = r.to /\ x.from = r.from
  /\ x.kind = "log" => x.pos \in 1..(Blocks + 1)
  /\ x.kind = "data" => /\ x.pos \in 1..(x.to + 1) /\ (~x.head => x.pos = 1)
                        /\ x.head /\ x.pos <= x.to => x.pos % Room = 0
  /\ x.kind = "sniff" => /\ ~x.head => x.from = 2 /\ ~x.done
                         /\ x.head => /\ x.pos \in x.from..(Blocks + 1)
                                      /\ x.done <=> x.pos > x.to + 1

(* The result res of a handler is the next piece.                            *)
NextPiece(x, r, res) ==
  /\ Good(res.ctx, r) /\ Off(res.ctx) = Off(x) + Len(res.data) /\ Off(res.ctx) <= BodyLen(r)
  /\ \A i \in 1..Len(res.data) : res.data[i] = Part(r, Off(x) + i)
  /\ res.data = <<>> => Off(x) = BodyLen(r)

(* The first piece is there and begins the answer.                           *)
LEMMA FirstGood ==
  ASSUME NEW r \in Requests, IsStream(r)
  PROVE  Good(NewContext(r), r) /\ Off(NewContext(r)) = 0
<1> DEFINE x == NewContext(r)
<1>1. /\ x \in Contexts /\ x.kind = r.kind /\ x.file = r.file /\ x.to = r.to
      /\ x.from = r.from /\ x.pos = (IF r.kind = "sniff" THEN 0 ELSE 1) /\ ~x.done
      /\ x.head <=> (r.kind = "log" \/ r.from = 0)
  BY FirstContext, Zenon
<1>2. /\ r.to \in 1..Blocks /\ r.kind \in {"log", "data", "sniff"}
      /\ r.kind = "data" => r.from = 1
      /\ r.kind = "sniff" => r.from \in {0, 2}
  BY RequestIs DEF IsStream
<1> HIDE DEF x
<1>3. Good(x, r)
  BY <1>1, <1>2, Sizes DEF Good
<1>4. Off(x) = 0
  BY <1>1, <1>2, Sizes DEF Off, Least
<1> QED BY <1>3, <1>4 DEF x

(* A multiple of n less than another one is less by n at least.              *)
LEMMA Multiples ==
  ASSUME NEW a \in Int, NEW b \in Int, NEW n \in Nat, b < a
  PROVE  b * n + n <= a * n
OBVIOUS

(* A full buffer after another one, or after the bracket, is at a multiple   *)
(* of its size.                                                              *)
LEMMA NextMultiple ==
  ASSUME NEW p \in Nat, p % Room = 0
  PROVE  (p + Room) % Room = 0
<1> DEFINE q == p \div Room
           q2 == (p + Room) \div Room
<1>1. /\ q \in Int /\ q2 \in Int /\ Room \in Nat /\ Room >= 2
      /\ p % Room = p - q * Room /\ (p + Room) % Room = p + Room - q2 * Room
      /\ (p + Room) % Room \in 0..(Room - 1)
  BY Sizes
<1> HIDE DEF q, q2
<1>2. p + Room = (q + 1) * Room /\ (q + 1) * Room \in Int /\ q2 * Room \in Int
  BY <1>1
<1>3. ~(q2 < q + 1)
  BY <1>1, <1>2, Multiples
<1>4. ~(q + 1 < q2)
  BY <1>1, <1>2, Multiples
<1> QED BY <1>1, <1>2, <1>3, <1>4

(* The next piece of a log.                                                  *)
LEMMA LogPiece ==
  ASSUME NEW r \in Requests, NEW x, Good(x, r), r.kind = "log", FilesGiven
  PROVE  NextPiece(x, r, LogFile(x))
<1> DEFINE d == LogFile(x).data
           y == LogFile(x).ctx
           n == Least(x.pos + Room - 1, Size(x.file))
<1>1. /\ x \in Contexts /\ x.kind = "log" /\ x.file = r.file /\ x.to = r.to /\ x.from = r.from
      /\ x.pos \in 1..(Blocks + 1) /\ x.pos \in Nat /\ x.file \in Nat
  BY Sizes DEF Good, Contexts
<1>2. /\ d = Items(x.file, x.pos, n) /\ d \in Seq(Item)
      /\ Len(d) = IF x.pos <= n + 1 THEN n + 1 - x.pos ELSE 0
      /\ Continues(y, x, x.pos + Len(d), x.head, x.done)
  BY <1>1, LogFileEffect, Zenon
<1>3. Size(x.file) = Blocks
  BY DEF FilesGiven, Size
<1>4. n \in Int /\ x.pos <= n + 1 /\ n <= Blocks /\ (n < x.pos => x.pos = Blocks + 1)
  BY <1>1, <1>3, Sizes DEF Least
<1> HIDE DEF d, y, n
<1>5. Len(d) = n + 1 - x.pos /\ x.pos + Len(d) = n + 1
  BY <1>1, <1>2, <1>4
<1>6. Good(y, r) /\ Off(y) = Off(x) + Len(d) /\ Off(y) <= BodyLen(r)
  BY SMTT(60), <1>1, <1>2, <1>4, <1>5, Sizes DEF Good, Continues, Off, BodyLen
<1>7. ASSUME NEW i \in 1..Len(d)
      PROVE  d[i] = Part(r, Off(x) + i)
  <2>0. \A j \in 1..(n + 1 - x.pos) : Items(x.file, x.pos, n)[j] = <<x.file, x.pos + j - 1>>
    BY <1>1, <1>4, ItemsAre
  <2>1. d[i] = <<x.file, x.pos + i - 1>>
    BY <1>2, <1>5, <2>0
  <2>2. Off(x) + i = x.pos + i - 1
    BY <1>1 DEF Off
  <2> QED BY <1>1, <2>1, <2>2 DEF Part
<1>8. ASSUME d = <<>>
      PROVE  Off(x) = BodyLen(r)
  <2>1. Len(d) = 0
    BY <1>8, EmptySeq
  <2>2. x.pos = Blocks + 1
    BY <1>1, <1>4, <1>5, <2>1
  <2> QED BY <1>1, <2>2, Sizes DEF Off, BodyLen
<1> QED BY <1>6, <1>7, <1>8 DEF NextPiece, d, y

(* The next piece of the frames.                                             *)
LEMMA SniffPiece ==
  ASSUME NEW r \in Requests, NEW x, Good(x, r), r.kind = "sniff", FilesGiven
  PROVE  NextPiece(x, r, SniffFile(x))
<1> DEFINE d == SniffFile(x).data
           y == SniffFile(x).ctx
           n == Least(x.pos + Room - 1, Size(x.file))
           last == IF x.pos <= n + 1 THEN n ELSE x.pos - 1
           m == Least(last, x.to)
<1>1. /\ x \in Contexts /\ x.kind = "sniff" /\ x.file = r.file /\ x.to = r.to /\ x.from = r.from
      /\ x.file \in Nat /\ x.head \in BOOLEAN /\ x.done \in BOOLEAN /\ x.pos \in Nat
      /\ ~x.head => x.from = 2 /\ ~x.done
      /\ x.head => x.pos \in x.from..(Blocks + 1) /\ (x.done <=> x.pos > x.to + 1)
  BY Sizes DEF Good, Contexts
<1>2. x.to \in 1..Blocks /\ x.from \in {0, 2} /\ Size(x.file) = Blocks
  BY <1>1, RequestIs DEF IsStream, FilesGiven, Size
<1>3. /\ d \in Seq(Item)
      /\ x.done => y = x /\ d = <<>>
      /\ ~x.done /\ ~x.head => d = <<<<x.file, 0>>>> /\ Continues(y, x, x.from, TRUE, x.done)
      /\ ~x.done /\ x.head => d = Items(x.file, x.pos, m)
                              /\ Continues(y, x, last + 1, x.head, x.to < last)
  BY <1>1, SniffFileEffect, Zenon
<1>4. CASE x.done
  <2>1. Off(x) = BodyLen(r)
    BY <1>1, <1>2, <1>4 DEF Off, BodyLen, Least
  <2>2. BodyLen(r) \in Int
    BY <1>1, <1>2 DEF BodyLen
  <2> HIDE DEF d, y
  <2>3. Len(d) = 0 /\ y = x
    BY <1>3, <1>4, EmptySeq
  <2>4. Good(y, r) /\ Off(y) = Off(x) + Len(d) /\ Off(y) <= BodyLen(r)
    BY <2>1, <2>2, <2>3
  <2> QED BY <2>1, <2>3, <2>4 DEF NextPiece, d, y
<1>5. CASE ~x.done /\ ~x.head
  <2> HIDE DEF d, y
  <2>1. /\ d = <<<<x.file, 0>>>> /\ Len(d) = 1 /\ d[1] = <<x.file, 0>> /\ d # <<>>
        /\ Continues(y, x, x.from, TRUE, x.done)
    <3>1. d = <<<<x.file, 0>>>> /\ Continues(y, x, x.from, TRUE, x.done)
      BY <1>3, <1>5
    <3>2. Len(d) = 1 /\ d[1] = <<x.file, 0>>
      BY <3>1
    <3> QED BY <3>1, <3>2, EmptySeq
  <2>2. Good(y, r) /\ Off(y) = Off(x) + Len(d) /\ Off(y) <= BodyLen(r)
    BY <1>1, <1>2, <1>5, <2>1, Sizes DEF Good, Continues, Off, BodyLen, Least
  <2>3. d[1] = Part(r, Off(x) + 1)
    BY <1>1, <1>5, <2>1 DEF Part, Off
  <2> QED BY <2>1, <2>2, <2>3 DEF NextPiece, d, y
<1>6. CASE ~x.done /\ x.head
  <2>1. /\ n \in Int /\ n <= Blocks /\ x.pos <= n + 1 /\ (n < x.pos => x.pos = Blocks + 1)
        /\ last = n /\ x.pos <= x.to + 1 /\ x.pos >= x.from
    BY <1>1, <1>2, <1>6, Sizes DEF Least
  <2>2. /\ m \in Int /\ x.pos <= m + 1 /\ m <= x.to /\ m <= n
        /\ m + 1 = Least(n + 1, x.to + 1) /\ (m < x.pos => x.pos = x.to + 1)
    <3>1. m = Least(n, x.to)
      BY <2>1
    <3> HIDE DEF m, n, last
    <3> QED BY <1>1, <1>2, <2>1, <3>1, Sizes DEF Least
  <2> HIDE DEF d, y, n, m, last
  <2>3. d = Items(x.file, x.pos, m) /\ Continues(y, x, n + 1, TRUE, x.to < n)
    BY <1>3, <1>6, <2>1 DEF Continues
  <2>4. /\ Len(d) = m + 1 - x.pos
        /\ \A i \in 1..(m + 1 - x.pos) : d[i] = <<x.file, x.pos + i - 1>>
    BY <1>1, <2>2, <2>3, ItemsAre
  <2> DEFINE h == IF x.from = 0 THEN 0 ELSE 1
  <2>5. /\ Off(x) = h + x.pos - x.from /\ Off(y) = h + (m + 1) - x.from
        /\ BodyLen(r) = x.to + 1 - h /\ h \in 0..1 /\ x.from = 2 * h
    BY <1>1, <1>2, <1>6, <2>1, <2>2, <2>3, Sizes DEF Off, BodyLen, Least, Continues
  <2>6. Good(y, r)
    BY <1>1, <1>2, <1>6, <2>1, <2>3, Sizes DEF Good, Continues
  <2> HIDE DEF h
  <2>7. Off(y) = Off(x) + Len(d) /\ Off(y) <= BodyLen(r)
    BY SMTT(60), <1>1, <1>2, <2>1, <2>2, <2>4, <2>5
  <2>8. ASSUME NEW i \in 1..Len(d)
        PROVE  d[i] = Part(r, Off(x) + i)
    <3>0. d[i] = <<x.file, x.pos + i - 1>>
      BY <2>4
    <3>1. Off(x) + i = x.pos + i - h
      <4>1. i \in Int /\ x.pos \in Int /\ h \in Int /\ Off(x) = x.pos - h
        BY <1>1, <2>5
      <4> QED BY <4>1
    <3>2. h = 0 => Part(r, Off(x) + i) = <<x.file, x.pos + i - 1>>
      BY <1>1, <1>2, <2>5, <3>1 DEF Part
    <3>3. h = 1 => Part(r, Off(x) + i) = <<x.file, x.pos + i - 1>>
      <4>1. ASSUME h = 1
            PROVE  x.from = 2 /\ x.pos >= 2 /\ Off(x) + i >= 2 /\ Off(x) + i = x.pos + i - 1
        BY SMTT(60), <1>1, <1>2, <2>1, <2>2, <2>4, <2>5, <3>1, <4>1
      <4> QED BY <1>1, <4>1 DEF Part
    <3> QED BY <2>5, <3>0, <3>2, <3>3
  <2>9. d = <<>> => Off(x) = BodyLen(r)
    BY SMTT(60), <1>1, <1>2, <2>2, <2>4, <2>5, EmptySeq
  <2> QED BY <2>6, <2>7, <2>8, <2>9 DEF NextPiece, d, y
<1> QED BY <1>1, <1>4, <1>5, <1>6

(* The next piece of the values.                                             *)
LEMMA DataPiece ==
  ASSUME NEW r \in Requests, NEW x, Good(x, r), r.kind = "data", WindowsFit
  PROVE  NextPiece(x, r, LogData(x))
<1> DEFINE d == LogData(x).data
           y == LogData(x).ctx
           h == IF x.head THEN 0 ELSE 1
           n == Least(x.pos + Room - h - 1, x.to)
           k == IF x.pos <= n + 1 THEN n + 1 - x.pos ELSE 0
<1>1. /\ x \in Contexts /\ x.kind = "data" /\ x.file = r.file /\ x.to = r.to /\ x.from = r.from
      /\ x.file \in Nat /\ x.head \in BOOLEAN /\ x.pos \in 1..(x.to + 1)
      /\ ~x.head => x.pos = 1
  BY Sizes DEF Good, Contexts
<1>0. (x.head /\ x.pos <= x.to => x.pos % Room = 0) /\ (x.to + 1) % Room # 0
  BY <1>1, RequestIs DEF IsStream, WindowsFit, Good
<1>2. x.to \in Nat /\ x.to >= 1 /\ x.pos \in Nat
  BY <1>1, RequestIs, Sizes DEF IsStream
<1>3. /\ d \in Seq(Item)
      /\ h = 1 => Len(d) >= 1 /\ d[1] = Opening
      /\ \A i \in 1..k : d[h + i] = <<x.file, x.pos + i - 1>>
      /\ h + k = Room => Len(d) = Room /\ Continues(y, x, x.pos + k, TRUE, x.done)
      /\ h + k # Room =>
           /\ Continues(y, x, x.to + 1, TRUE, x.done)
           /\ IF h + k = 0 THEN d = <<>> ELSE Len(d) = h + k + 1 /\ d[h + k + 1] = Closing
  BY <1>1, LogDataEffect, Zenon
<1>4. h \in 0..1 /\ (h = 0 <=> x.head) /\ (h = 1 => x.pos = 1)
  <2>1. h \in 0..1 /\ (h = 0 <=> x.head)
    BY <1>1
  <2> QED BY <1>1, <2>1
<1> HIDE DEF d, y, h
<1>5. /\ n \in Int /\ n <= x.to /\ n <= x.pos + Room - h - 1 /\ k = n + 1 - x.pos /\ k \in Nat
      /\ n = x.to \/ n = x.pos + Room - h - 1
  BY <1>1, <1>2, <1>4, Sizes DEF Least
<1> HIDE DEF n, k
<1>6. CASE x.head /\ x.pos = x.to + 1
  <2>1. h = 0 /\ k = 0 /\ h + k = 0 /\ h + k # Room
    BY <1>1, <1>2, <1>4, <1>5, <1>6, Sizes
  <2>2. Continues(y, x, x.to + 1, TRUE, x.done) /\ d = <<>> /\ Len(d) = 0
    BY <1>3, <2>1, EmptySeq
  <2>3. Off(x) = x.to + 2 /\ Off(y) = x.to + 2 /\ BodyLen(r) = x.to + 2
    BY <1>1, <1>6, <2>2 DEF Off, Continues, BodyLen
  <2>4. Good(y, r)
    BY <1>1, <1>2, <2>2 DEF Good, Continues
  <2>5. Off(y) = Off(x) + Len(d) /\ Off(y) <= BodyLen(r) /\ 1..Len(d) = {}
    BY <1>2, <2>2, <2>3
  <2> QED BY <2>3, <2>4, <2>5 DEF NextPiece, d, y
<1>7. CASE ~(x.head /\ x.pos = x.to + 1)
  <2>1. Off(x) = x.pos - h /\ Off(x) \in Nat
    BY <1>1, <1>2, <1>4, <1>7 DEF Off
  <2>2. h = 1 => Part(r, Off(x) + 1) = Opening
    BY <1>1, <1>4, <2>1 DEF Part
  <2>3. ASSUME NEW i \in 1..k
        PROVE  Part(r, Off(x) + (h + i)) = <<x.file, x.pos + i - 1>>
    <3>1. /\ Off(x) + (h + i) = x.pos + i /\ x.pos + i # 1 /\ x.pos + i # x.to + 2
          /\ x.pos + i - 1 = (x.pos + i) - 1
      BY <1>1, <1>2, <1>4, <1>5, <2>1
    <3> HIDE DEF Opening, Closing
    <3> QED BY <1>1, <3>1 DEF Part
  <2>4. \A i \in 1..(h + k) : d[i] = Part(r, Off(x) + i)
    <3> SUFFICES ASSUME NEW i \in 1..(h + k)
                 PROVE  d[i] = Part(r, Off(x) + i)
      OBVIOUS
    <3>1. CASE h = 1 /\ i = 1
      BY <1>3, <2>2, <3>1
    <3>2. CASE ~(h = 1 /\ i = 1)
      <4>1. PICK j \in 1..k : i = h + j
        <5>1. i - h \in 1..k /\ i = h + (i - h)
          BY <1>4, <1>5, <3>2
        <5> QED BY <5>1
      <4> QED BY <1>3, <2>3, <4>1
    <3> QED BY <3>1, <3>2
  <2>5. CASE h + k = Room
    <3>1. Len(d) = h + k /\ Continues(y, x, x.pos + k, TRUE, x.done)
      BY <1>3, <2>5
    <3>2. x.pos + k = n + 1 /\ x.pos + k \in Nat /\ x.pos + k >= 1 /\ x.pos + k <= x.to + 1
      BY <1>1, <1>2, <1>5
    <3>3. (x.pos + k) % Room = 0
      <4>1. CASE h = 0
        <5>1. x.pos + k = x.pos + Room /\ x.head /\ x.pos <= x.to
          BY <1>1, <1>2, <1>4, <1>5, <1>7, <2>5, <4>1
        <5> QED BY <1>0, <1>2, <5>1, NextMultiple
      <4>2. CASE h = 1
        <5>1. x.pos + k = 0 + Room
          BY <1>4, <1>5, <2>5, <4>2, Sizes
        <5>2. 0 % Room = 0
          BY Sizes
        <5> QED BY <5>1, <5>2, NextMultiple
      <4> QED BY <1>4, <4>1, <4>2
    <3>4. x.pos + k # x.to + 1
      BY <1>0, <3>3
    <3>5. Good(y, r)
      BY <1>1, <1>2, <3>1, <3>2, <3>3 DEF Good, Continues
    <3>6. Off(y) = x.pos + k /\ BodyLen(r) = x.to + 2
      BY <1>1, <3>1, <3>4 DEF Off, Continues, BodyLen
    <3>7. Off(y) = Off(x) + Len(d) /\ Off(y) <= BodyLen(r)
      <4>1. Off(y) = Off(x) + Len(d)
        BY SMTT(60), <1>2, <1>4, <1>5, <2>1, <3>1, <3>6
      <4>2. Off(y) <= BodyLen(r)
        BY <1>2, <3>2, <3>6
      <4> QED BY <4>1, <4>2
    <3>8. d # <<>>
      BY <2>5, <3>1, Sizes, EmptySeq
    <3> QED BY <2>4, <3>1, <3>5, <3>7, <3>8 DEF NextPiece, d, y
  <2>6. CASE h + k # Room
    <3>1. n = x.to /\ h + k # 0
      <4>a. Room \in Nat /\ x.pos \in Nat /\ x.to \in Nat
        BY <1>2, Sizes
      <4>1. n = x.to
        <5>1. n = x.pos + Room - h - 1 => k = Room - h
          BY <1>2, <1>4, <1>5, <4>a
        <5>2. n # x.pos + Room - h - 1
          BY <1>4, <1>5, <2>6, <4>a, <5>1
        <5> QED BY <1>5, <5>2
      <4>2. h + k # 0
        <5>1. h = 0 /\ k = 0 => x.pos = x.to + 1
          BY <1>2, <1>5, <4>1
        <5>2. h = 0 => x.pos # x.to + 1
          BY <1>4, <1>7
        <5> QED BY <1>4, <1>5, <5>1, <5>2
      <4> QED BY <4>1, <4>2
    <3>2. /\ Continues(y, x, x.to + 1, TRUE, x.done)
          /\ Len(d) = h + k + 1 /\ d[h + k + 1] = Closing
      BY <1>3, <2>6, <3>1
    <3>3. Off(y) = x.to + 2 /\ BodyLen(r) = x.to + 2 /\ Off(x) + (h + k + 1) = x.to + 2
      BY SMTT(60), <1>1, <1>2, <1>4, <1>5, <2>1, <3>1, <3>2 DEF Off, Continues, BodyLen
    <3>4. Good(y, r)
      BY <1>1, <1>2, <3>2 DEF Good, Continues
    <3>5. Part(r, Off(x) + (h + k + 1)) = Closing
      <4>1. r.to + 2 # 1 /\ Off(x) + (h + k + 1) = r.to + 2
        BY <1>1, <1>2, <3>3
      <4> QED BY <4>1 DEF Part
    <3>6. \A i \in 1..Len(d) : d[i] = Part(r, Off(x) + i)
      <4> SUFFICES ASSUME NEW i \in 1..Len(d)
                   PROVE  d[i] = Part(r, Off(x) + i)
        OBVIOUS
      <4>1. i \in 1..(h + k) \/ i = h + k + 1
        BY <1>4, <1>5, <3>2
      <4> QED BY <2>4, <3>2, <3>5, <4>1
    <3>7. Off(y) = Off(x) + Len(d) /\ Off(y) <= BodyLen(r) /\ d # <<>>
      <4>1. Off(y) = Off(x) + Len(d)
        BY <3>2, <3>3
      <4>2. Off(y) <= BodyLen(r)
        BY <1>2, <3>3
      <4>3. Len(d) # 0
        BY <1>4, <1>5, <3>2
      <4> QED BY <4>1, <4>2, <4>3, EmptySeq
    <3> QED BY <3>4, <3>6, <3>7 DEF NextPiece, d, y
  <2> QED BY <2>5, <2>6
<1> QED BY <1>6, <1>7

(* A handler gives the next piece, and nothing only at the end.              *)
LEMMA HandlerPiece ==
  ASSUME NEW r \in Requests, IsStream(r), NEW x, Good(x, r), FilesGiven, WindowsFit
  PROVE  NextPiece(x, r, Handler(x))
<1>1. CASE r.kind = "log"
  <2>1. Handler(x) = LogFile(x)
    BY <1>1 DEF Handler, Good
  <2> QED BY <1>1, <2>1, LogPiece
<1>2. CASE r.kind = "data"
  <2>1. Handler(x) = LogData(x)
    BY <1>2 DEF Handler, Good
  <2> QED BY <1>2, <2>1, DataPiece
<1>3. CASE r.kind = "sniff"
  <2>1. Handler(x) = SniffFile(x)
    BY <1>3 DEF Handler, Good
  <2> QED BY <1>3, <2>1, SniffPiece
<1> QED BY <1>1, <1>2, <1>3 DEF IsStream

(* The first piece of a download is never empty.                             *)
LEMMA FirstPiece ==
  ASSUME NEW r \in Requests, IsStream(r), FilesGiven
  PROVE  Handler(NewContext(r)).data # <<>>
<1> DEFINE x == NewContext(r)
<1>1. /\ x \in Contexts /\ x.kind = r.kind /\ x.file = r.file /\ x.to = r.to
      /\ x.from = r.from /\ x.pos = (IF r.kind = "sniff" THEN 0 ELSE 1) /\ ~x.done
      /\ x.head <=> (r.kind = "log" \/ r.from = 0)
  BY FirstContext, Zenon
<1>2. /\ r.to \in 1..Blocks /\ r.kind \in {"log", "data", "sniff"} /\ r.file \in Nat
      /\ r.kind = "data" => r.from = 1
      /\ Size(x.file) = Blocks
  BY RequestIs, Sizes DEF IsStream, FilesGiven, Size
<1> HIDE DEF x
<1>3. CASE r.kind = "log"
  <2> DEFINE n == Least(x.pos + Room - 1, Size(x.file))
  <2>1. LogFile(x).data = Items(x.file, x.pos, n)
    BY <1>1, LogFileEffect, Zenon
  <2>2. n \in Int /\ n >= 1 /\ x.pos = 1
    BY <1>1, <1>2, <1>3, Sizes DEF Least
  <2> HIDE DEF n
  <2>3. Len(LogFile(x).data) >= 1
    <3>1. x.file \in Nat /\ x.pos \in Nat /\ x.pos <= n + 1
      BY <1>1, <1>2, <2>2
    <3>2. Len(Items(x.file, x.pos, n)) = n + 1 - x.pos
      BY <2>2, <3>1, ItemsAre, Zenon
    <3> QED BY <2>1, <2>2, <3>2
  <2> QED BY <1>1, <1>3, <2>3, EmptySeq DEF Handler, x
<1>4. CASE r.kind = "data"
  <2>1. ~x.head
    BY <1>1, <1>2, <1>4
  <2>2. Len(LogData(x).data) >= 1
    <3> DEFINE h == IF x.head THEN 0 ELSE 1
    <3>1. h = 1 => Len(LogData(x).data) >= 1
      BY <1>1, LogDataEffect, Zenon
    <3> QED BY <2>1, <3>1
  <2> QED BY <1>1, <1>4, <2>2, EmptySeq DEF Handler, x
<1>5. CASE r.kind = "sniff"
  <2> DEFINE n == Least(x.pos + Room - 1, Size(x.file))
             last == IF x.pos <= n + 1 THEN n ELSE x.pos - 1
             m == Least(last, x.to)
  <2>1. /\ ~x.head => SniffFile(x).data = <<<<x.file, 0>>>>
        /\ x.head => SniffFile(x).data = Items(x.file, x.pos, m)
    BY <1>1, SniffFileEffect, Zenon
  <2>2. m \in Int /\ m >= 0 /\ x.pos = 0 /\ x.file \in Nat
    BY <1>1, <1>2, <1>5, Sizes DEF Least
  <2> HIDE DEF m
  <2>3. x.head => Len(SniffFile(x).data) >= 1
    <3>1. x.pos \in Nat /\ x.pos <= m + 1
      BY <2>2
    <3>2. Len(Items(x.file, x.pos, m)) = m + 1 - x.pos
      BY <2>2, <3>1, ItemsAre, ZenonT(60)
    <3> QED BY <2>1, <2>2, <3>2
  <2>4. ~x.head => Len(SniffFile(x).data) >= 1
    BY <2>1
  <2> QED BY <1>1, <1>5, <2>3, <2>4, EmptySeq DEF Handler, x
<1> QED BY <1>2, <1>3, <1>4, <1>5

(* The answer is its pieces.                                                 *)
LEMMA BodyIs ==
  ASSUME NEW r \in Requests, FilesGiven
  PROVE  /\ Body(r) \in Seq(Item) /\ Len(Body(r)) = BodyLen(r)
         /\ \A i \in 1..BodyLen(r) : Body(r)[i] = Part(r, i)
<1>1. CASE r.kind = "log"
  <2>1. r.file \in Nat /\ Size(r.file) = Blocks /\ Body(r) = Items(r.file, 1, Blocks) /\ Blocks \in Nat
    BY <1>1, RequestIs, Sizes DEF IsStream, FilesGiven, Size, Body
  <2>2. /\ Items(r.file, 1, Blocks) \in Seq(Item) /\ Len(Items(r.file, 1, Blocks)) = Blocks + 1 - 1
        /\ \A i \in 1..(Blocks + 1 - 1) : Items(r.file, 1, Blocks)[i] = <<r.file, 1 + i - 1>>
    <3>1. 1 \in Nat /\ Blocks \in Int /\ 1 <= Blocks + 1
      BY <2>1
    <3> QED BY <2>1, <3>1, ItemsAre, Zenon
  <2>3. ASSUME NEW i \in 1..Blocks
        PROVE  Body(r)[i] = Part(r, i)
    <3>1. i \in 1..(Blocks + 1 - 1) /\ 1 + i - 1 = i
      BY <2>1
    <3> QED BY <1>1, <2>1, <2>2, <3>1 DEF Part
  <2>4. BodyLen(r) = Blocks /\ Blocks + 1 - 1 = Blocks
    BY <1>1, <2>1 DEF BodyLen
  <2> QED BY <2>1, <2>2, <2>3, <2>4
<1>2. CASE r.kind = "data"
  <2> DEFINE D == Items(r.file, 1, r.to)
             B == (<<Opening>> \o D) \o <<Closing>>
  <2>1. r.file \in Nat /\ r.to \in Nat /\ Body(r) = B /\ BodyLen(r) = r.to + 2
    BY <1>2, RequestIs, Sizes DEF IsStream, Body, BodyLen
  <2>2. D \in Seq(Item) /\ Len(D) = r.to /\ \A i \in 1..r.to : D[i] = <<r.file, i>>
    <3>1. /\ D \in Seq(Item) /\ Len(D) = r.to + 1 - 1
          /\ \A i \in 1..(r.to + 1 - 1) : D[i] = <<r.file, 1 + i - 1>>
      <4>1. 1 \in Nat /\ r.to \in Int /\ 1 <= r.to + 1
        BY <2>1
      <4> QED BY <2>1, <4>1, ItemsAre, Zenon
    <3> HIDE DEF D
    <3> QED BY <2>1, <3>1
  <2> HIDE DEF D
  <2>3. /\ <<Opening>> \in Seq(Item) /\ Len(<<Opening>>) = 1 /\ <<Opening>>[1] = Opening
        /\ <<Closing>> \in Seq(Item) /\ Len(<<Closing>>) = 1 /\ <<Closing>>[1] = Closing
    BY DEF Item, Opening, Closing
  <2> DEFINE E == <<Opening>> \o D
  <2>4. /\ E \in Seq(Item) /\ Len(E) = 1 + r.to
        /\ \A i \in 1..(1 + r.to) : E[i] = IF i <= 1 THEN <<Opening>>[i] ELSE D[i - 1]
    BY <2>2, <2>3, ConcatProperties
  <2> HIDE DEF E
  <2>5. /\ B \in Seq(Item) /\ Len(B) = 1 + r.to + 1
        /\ \A i \in 1..(1 + r.to + 1) : B[i] = IF i <= 1 + r.to THEN E[i] ELSE <<Closing>>[i - (1 + r.to)]
    BY <2>3, <2>4, ConcatProperties DEF E
  <2> HIDE DEF B
  <2>6. ASSUME NEW i \in 1..(r.to + 2)
        PROVE  B[i] = Part(r, i)
    <3>1. CASE i = 1
      <4>1. i \in 1..(1 + r.to + 1) /\ i <= 1 + r.to /\ i \in 1..(1 + r.to) /\ i <= 1
        BY <2>1, <3>1
      <4>2. B[i] = E[i] /\ E[i] = <<Opening>>[1]
        BY <2>4, <2>5, <3>1, <4>1
      <4> QED BY <1>2, <2>3, <3>1, <4>2 DEF Part
    <3>2. CASE i = r.to + 2
      <4>1. B[i] = <<Closing>>[1] /\ i # 1
        <5>1. i \in 1..(1 + r.to + 1) /\ ~(i <= 1 + r.to) /\ i - (1 + r.to) = 1
          BY <2>1, <3>2
        <5>2. B[i] = <<Closing>>[i - (1 + r.to)]
          BY <2>5, <5>1
        <5>3. i # 1
          BY <2>1, <3>2
        <5> QED BY <5>1, <5>2, <5>3
      <4> QED BY <1>2, <2>3, <3>2, <4>1 DEF Part
    <3>3. CASE i # 1 /\ i # r.to + 2
      <4>1. i - 1 \in 1..r.to /\ i \in 1..(1 + r.to + 1) /\ i <= 1 + r.to /\ ~(i <= 1) /\ i \in 1..(1 + r.to)
        BY <2>1, <3>3
      <4>2. B[i] = E[i] /\ E[i] = D[i - 1] /\ D[i - 1] = <<r.file, i - 1>>
        BY <2>2, <2>4, <2>5, <4>1
      <4> QED BY <1>2, <3>3, <4>2 DEF Part
    <3> QED BY <3>1, <3>2, <3>3
  <2>7. r.to + 2 = 1 + r.to + 1
    BY <2>1
  <2> QED BY <2>1, <2>5, <2>6, <2>7
<1>3. CASE r.kind = "sniff"
  <2> DEFINE h == IF r.from = 0 THEN <<>> ELSE <<<<r.file, 0>>>>
             D == Items(r.file, r.from, r.to)
             n == r.to + 1 - r.from
             k == IF r.from = 0 THEN 0 ELSE 1
  <2>1. /\ r.file \in Nat /\ r.to \in 1..Blocks /\ r.to \in Nat /\ r.from \in {0, 2}
        /\ Size(r.file) = Blocks
    <3>1. r.file \in Files /\ r.to \in 1..Blocks /\ r.from \in {0, 2}
      BY <1>3, RequestIs DEF IsStream
    <3>2. Size(r.file) = Blocks
      BY DEF FilesGiven, Size
    <3>3. r.file \in Nat /\ r.to \in Nat
      <4>1. r.file \in Nat
        BY <3>1, Sizes, Zenon
      <4>2. r.to \in Nat
        BY <3>1
      <4> QED BY <4>1, <4>2
    <3> QED BY <3>1, <3>2, <3>3
  <2>2. Least(r.to, Size(r.file)) = r.to
    BY <2>1, Sizes DEF Least
  <2>3. Body(r) = h \o D /\ BodyLen(r) = r.to + 1 - k
    BY <1>3, <2>2 DEF Body, BodyLen
  <2>4. D \in Seq(Item) /\ Len(D) = n /\ \A i \in 1..n : D[i] = <<r.file, r.from + i - 1>>
    <3>1. r.from \in Nat /\ r.to \in Int /\ r.from <= r.to + 1
      BY <2>1
    <3> QED BY <2>1, <3>1, ItemsAre, Zenon
  <2>5. h \in Seq(Item) /\ Len(h) = k /\ (k = 1 => h[1] = <<r.file, 0>>)
    <3>1. CASE r.from = 0
      BY <3>1, EmptySeq
    <3>2. CASE r.from # 0
      BY <2>1, <3>2 DEF Item
    <3> QED BY <3>1, <3>2
  <2>6. k \in 0..1 /\ r.from = 2 * k /\ (r.from = 0 <=> k = 0) /\ n = r.to + 1 - r.from /\ n \in Nat
    BY <2>1
  <2> HIDE DEF h, D, k, n
  <2>7. /\ h \o D \in Seq(Item) /\ Len(h \o D) = k + n
        /\ \A i \in 1..(k + n) : (h \o D)[i] = IF i <= k THEN h[i] ELSE D[i - k]
    BY <2>4, <2>5, ConcatProperties
  <2>8. k + n = BodyLen(r)
    BY <2>1, <2>3, <2>6
  <2>9. ASSUME NEW i \in 1..(k + n)
        PROVE  (h \o D)[i] = Part(r, i)
    <3>1. CASE k = 0
      <4>1. ~(i <= k) /\ i - k = i /\ i \in 1..n /\ r.from + i - 1 = i - 1 /\ r.from = 0
        BY <2>6, <3>1
      <4>2. (h \o D)[i] = <<r.file, i - 1>>
        BY <2>4, <2>7, <4>1
      <4> QED BY <1>3, <4>1, <4>2 DEF Part
    <3>2. CASE k = 1 /\ i = 1
      <4>1. (h \o D)[i] = <<r.file, 0>> /\ i - 1 = 0 /\ r.from # 0
        BY <2>5, <2>6, <2>7, <3>2
      <4> QED BY <1>3, <3>2, <4>1 DEF Part
    <3>3. CASE k = 1 /\ i # 1
      <4>1. ~(i <= k) /\ i - k \in 1..n /\ r.from + (i - k) - 1 = i /\ r.from # 0
        BY <2>6, <3>3
      <4>2. (h \o D)[i] = <<r.file, i>>
        BY <2>4, <2>7, <4>1
      <4> QED BY <1>3, <3>3, <4>1, <4>2 DEF Part
    <3>4. k = 0 \/ k = 1
      BY <2>6
    <3> QED BY <3>1, <3>2, <3>3, <3>4
  <2> QED BY <2>3, <2>7, <2>8, <2>9
<1>4. CASE ~IsStream(r)
  <2>1. Body(r) = <<Text>> /\ BodyLen(r) = 1 /\ \A i \in 1..1 : Part(r, i) = Text
    BY <1>4 DEF Body, BodyLen, Part, IsStream
  <2>2. <<Text>> \in Seq(Item) /\ Len(<<Text>>) = 1 /\ <<Text>>[1] = Text
    BY DEF Item, Text
  <2> QED BY <2>1, <2>2
<1> QED BY <1>1, <1>2, <1>3, <1>4 DEF IsStream

-----------------------------------------------------------------------------
(* What a step changes. *)

SlotSame(t) ==
  /\ conn'[t] = conn[t] /\ state'[t] = state[t] /\ streams'[t] = streams[t]
  /\ closes'[t] = closes[t] /\ late'[t] = late[t] /\ ptr'[t] = ptr[t]
  /\ served'[t] = served[t] /\ data'[t] = data[t]
ClientSame(d) ==
  /\ asked'[d] = asked[d] /\ wire'[d] = wire[d] /\ rest'[d] = rest[d] /\ got'[d] = got[d]
  /\ ended'[d] = ended[d] /\ gone'[d] = gone[d]
Touches(s, c) ==
  /\ \A t \in Slots \ {s} : SlotSame(t)
  /\ \A d \in Clients \ {c} : ClientSame(d)

(* Nothing to send fits into a buffer.                                       *)
LEMMA NothingSent ==
  <<>> \in Seq(Item) /\ Len(<<>>) = 0 /\ Len(<<>>) <= Room
<1>1. <<>> \in Seq(Item) /\ Len(<<>>) = 0
  BY EmptySeq
<1>2. 0 <= Room
  BY Sizes
<1> QED BY <1>1, <1>2

(* A connection ends, or is kept for another request.                        *)
Ended(s, stream, close, how) ==
  /\ SlotTypes' /\ ClientTypes' /\ Touches(s, conn[s]) /\ UNCHANGED <<asked, got, gone>>
  /\ state'[s] = "idle" /\ ~streams'[s] /\ ~late'[s]
  /\ ptr'[s] = (IF stream THEN None ELSE ptr[s])
  /\ \/ conn'[s] = None /\ served'[s] = 0
     \/ conn'[s] = conn[s] /\ ~close /\ served'[s] = served[s] /\ served[s] < KeepAlive
  /\ ended'[conn[s]] = (IF ended[conn[s]] = "no" THEN how ELSE ended[conn[s]])
  /\ ~rest'[conn[s]] /\ wire'[conn[s]] = (IF close THEN "none" ELSE wire[conn[s]])

(* The answer to r begins, with a piece of it and its context.               *)
Begun(s, r, x, first) ==
  /\ SlotTypes' /\ ClientTypes' /\ Touches(s, conn[s]) /\ UNCHANGED <<asked, got, gone>>
  /\ state'[s] = "sending" /\ (streams'[s] <=> IsStream(r)) /\ ~late'[s]
  /\ ptr'[s] = x /\ data'[s] = first /\ conn'[s] = conn[s] /\ wire'[conn[s]] = "none"
  /\ served'[s] = served[s] + 1 /\ UNCHANGED <<rest, ended>>

(* A request has no answer.                                                  *)
Missed(s, x) ==
  /\ SlotTypes' /\ ClientTypes' /\ Touches(s, conn[s]) /\ UNCHANGED <<asked, got, gone>>
  /\ state'[s] = "idle" /\ ~streams'[s] /\ ~late'[s]
  /\ ptr'[s] = x /\ conn'[s] = None /\ wire'[conn[s]] = "none"
  /\ served'[s] = 0 /\ UNCHANGED rest /\ ended'[conn[s]] = "cut"

(* So it does when it is closed,                                             *)
LEMMA CloseEffect ==
  ASSUME SlotTypes, ClientTypes, NEW s \in Slots, conn[s] \in Clients,
         NEW stream \in BOOLEAN, NEW close \in BOOLEAN, NEW how \in {"eof", "cut"},
         Close(s, stream, close, how), UNCHANGED <<asked, got, gone>>
  PROVE  Ended(s, stream, close, how)
<1>0. KeepAlive \in Nat /\ served[s] \in 0..KeepAlive /\ served[s] \in Nat
  <2>1. KeepAlive \in Nat
    BY BoundsAssumption
  <2>2. served[s] \in 0..KeepAlive
    BY DEF SlotTypes
  <2> QED BY <2>1, <2>2
<1>1. /\ state' \in [Slots -> {"idle", "receiving", "sending"}]
      /\ streams' \in [Slots -> BOOLEAN] /\ closes' \in [Slots -> BOOLEAN] /\ late' \in [Slots -> BOOLEAN]
  BY DEF SlotTypes, ClientTypes, Close, Fresh
<1>2. data' \in [Slots -> Seq(Item)] /\ \A t \in Slots : Len(data'[t]) <= Room
  BY NothingSent DEF SlotTypes, ClientTypes, Close, Fresh
<1>3. /\ conn' \in [Slots -> Clients \cup {None}] /\ ptr' \in [Slots -> Contexts \cup {None}]
      /\ served' \in [Slots -> 0..KeepAlive]
  <2>1. conn' \in [Slots -> Clients \cup {None}]
    BY DEF SlotTypes, ClientTypes, Close
  <2>2. ptr' \in [Slots -> Contexts \cup {None}]
    BY DEF SlotTypes, ClientTypes, Close
  <2>3. served' \in [Slots -> 0..KeepAlive]
    <3>1. 0 \in 0..KeepAlive
      BY <1>0
    <3>2. (IF close \/ served[s] >= KeepAlive THEN 0 ELSE served[s]) \in 0..KeepAlive
      BY <1>0, <3>1
    <3> QED BY <3>2 DEF SlotTypes, Close
  <2> QED BY <2>1, <2>2, <2>3
<1>4. ClientTypes'
  BY DEF SlotTypes, ClientTypes, Close
<1>5. \A t \in Slots \ {s} : SlotSame(t)
  BY DEF SlotTypes, ClientTypes, Close, Fresh, SlotSame
<1>6. \A d \in Clients \ {conn[s]} : ClientSame(d)
  BY DEF SlotTypes, ClientTypes, Close, ClientSame
<1>7. /\ state'[s] = "idle" /\ ~streams'[s] /\ ~closes'[s] /\ ~late'[s] /\ data'[s] = <<>>
      /\ ptr'[s] = (IF stream THEN None ELSE ptr[s])
  BY DEF SlotTypes, ClientTypes, Close, Fresh
<1>8. \/ conn'[s] = None /\ served'[s] = 0
      \/ conn'[s] = conn[s] /\ ~close /\ served'[s] = served[s] /\ served[s] < KeepAlive
  <2>1. CASE close \/ served[s] >= KeepAlive
    BY <2>1 DEF SlotTypes, ClientTypes, Close
  <2>2. CASE ~(close \/ served[s] >= KeepAlive)
    <3>1. served[s] < KeepAlive /\ ~close
      BY <1>0, <2>2
    <3> QED BY <2>2, <3>1 DEF SlotTypes, ClientTypes, Close
  <2> QED BY <2>1, <2>2
<1>9. /\ ended'[conn[s]] = (IF ended[conn[s]] = "no" THEN how ELSE ended[conn[s]])
      /\ ~rest'[conn[s]] /\ wire'[conn[s]] = (IF close THEN "none" ELSE wire[conn[s]])
  BY DEF SlotTypes, ClientTypes, Close
<1> QED BY <1>1, <1>2, <1>3, <1>4, <1>5, <1>6, <1>7, <1>8, <1>9 DEF Touches, SlotTypes, Ended

(* when the server begins to answer,                                         *)
LEMMA AnswerEffect ==
  ASSUME SlotTypes, ClientTypes, NEW s \in Slots, conn[s] \in Clients, served[s] < KeepAlive,
         NEW r, NEW x \in Contexts \cup {None}, NEW first \in Seq(Item), Len(first) <= Room,
         NEW close \in BOOLEAN,
         Answer(s, r, [ptr EXCEPT ![s] = x], first, close), UNCHANGED <<asked, got, gone>>
  PROVE  Begun(s, r, x, first)
<1>0. KeepAlive \in Nat /\ served[s] \in 0..KeepAlive /\ served[s] \in Nat
  <2>1. KeepAlive \in Nat
    BY BoundsAssumption
  <2>2. served[s] \in 0..KeepAlive
    BY DEF SlotTypes
  <2> QED BY <2>1, <2>2
<1>1. PICK b \in BOOLEAN : b = IsStream(r)
  <2>1. IsStream(r) = TRUE \/ IsStream(r) = FALSE
    <3> DEFINE b == r.kind \in {"log", "data", "sniff"}
    <3>1. b \in BOOLEAN
      OBVIOUS
    <3>2. IsStream(r) = b
      BY Zenon DEF IsStream
    <3> HIDE DEF b
    <3> QED BY <3>1, <3>2
  <2> QED BY <2>1, Zenon
<1>2. streams' = [streams EXCEPT ![s] = b]
  BY <1>1, Zenon DEF SlotTypes, ClientTypes, Answer
<1>3. b <=> IsStream(r)
  BY <1>1, Zenon
<1>4. SlotTypes'
  <2>1. served[s] + 1 \in 0..KeepAlive
    BY <1>0
  <2>2. served' \in [Slots -> 0..KeepAlive]
    BY <2>1 DEF SlotTypes, ClientTypes, Answer
  <2>3. data' \in [Slots -> Seq(Item)] /\ \A t \in Slots : Len(data'[t]) <= Room
    BY DEF SlotTypes, ClientTypes, Answer
  <2>4. /\ conn' \in [Slots -> Clients \cup {None}] /\ ptr' \in [Slots -> Contexts \cup {None}]
        /\ state' \in [Slots -> {"idle", "receiving", "sending"}]
    BY DEF SlotTypes, ClientTypes, Answer
  <2>5. streams' \in [Slots -> BOOLEAN]
    BY <1>2 DEF SlotTypes
  <2>6. closes' \in [Slots -> BOOLEAN] /\ late' \in [Slots -> BOOLEAN]
    BY DEF SlotTypes, Answer
  <2> QED BY <2>2, <2>3, <2>4, <2>5, <2>6 DEF SlotTypes
<1>5. ClientTypes'
  BY DEF SlotTypes, ClientTypes, Answer
<1>6. \A t \in Slots \ {s} : SlotSame(t)
  BY <1>2 DEF SlotTypes, ClientTypes, Answer, SlotSame
<1>7. \A d \in Clients \ {conn[s]} : ClientSame(d)
  BY DEF SlotTypes, ClientTypes, Answer, ClientSame
<1>8. /\ state'[s] = "sending" /\ (streams'[s] <=> IsStream(r)) /\ ~late'[s]
      /\ ptr'[s] = x /\ data'[s] = first /\ conn'[s] = conn[s] /\ wire'[conn[s]] = "none"
      /\ served'[s] = served[s] + 1 /\ UNCHANGED <<rest, ended>>
  BY <1>2, <1>3 DEF SlotTypes, ClientTypes, Answer
<1> QED BY <1>4, <1>5, <1>6, <1>7, <1>8 DEF Touches, Begun

(* and when no handler does.                                                 *)
LEMMA NotFoundEffect ==
  ASSUME SlotTypes, ClientTypes, NEW s \in Slots, conn[s] \in Clients,
         NEW x \in Contexts \cup {None},
         NotFound(s, [ptr EXCEPT ![s] = x]), UNCHANGED <<asked, got, gone>>
  PROVE  Missed(s, x)
<1>0. KeepAlive \in Nat /\ served[s] \in 0..KeepAlive /\ served[s] \in Nat
  <2>1. KeepAlive \in Nat
    BY BoundsAssumption
  <2>2. served[s] \in 0..KeepAlive
    BY DEF SlotTypes
  <2> QED BY <2>1, <2>2
<1>1. <<>> \in Seq(Item) /\ Len(<<>>) <= Room
  BY NothingSent
<1>4. SlotTypes'
  <2>1. served' \in [Slots -> 0..KeepAlive]
    <3>1. 0 \in 0..KeepAlive
      BY <1>0
    <3> QED BY <3>1 DEF SlotTypes, NotFound
  <2>2. data' \in [Slots -> Seq(Item)] /\ \A t \in Slots : Len(data'[t]) <= Room
    BY <1>1 DEF SlotTypes, ClientTypes, NotFound, Fresh
  <2>3. /\ conn' \in [Slots -> Clients \cup {None}] /\ ptr' \in [Slots -> Contexts \cup {None}]
        /\ state' \in [Slots -> {"idle", "receiving", "sending"}]
    BY DEF SlotTypes, ClientTypes, NotFound, Fresh
  <2>4. /\ streams' \in [Slots -> BOOLEAN] /\ closes' \in [Slots -> BOOLEAN]
        /\ late' \in [Slots -> BOOLEAN]
    BY DEF SlotTypes, ClientTypes, NotFound, Fresh
  <2> QED BY <2>1, <2>2, <2>3, <2>4 DEF SlotTypes
<1>5. ClientTypes'
  BY DEF SlotTypes, ClientTypes, NotFound
<1>6. \A t \in Slots \ {s} : SlotSame(t)
  BY DEF SlotTypes, ClientTypes, NotFound, Fresh, SlotSame
<1>7. \A d \in Clients \ {conn[s]} : ClientSame(d)
  BY DEF SlotTypes, ClientTypes, NotFound, ClientSame
<1>8. /\ state'[s] = "idle" /\ ~streams'[s] /\ ~late'[s]
      /\ ptr'[s] = x /\ data'[s] = <<>> /\ conn'[s] = None /\ wire'[conn[s]] = "none"
      /\ served'[s] = 0 /\ UNCHANGED rest /\ ended'[conn[s]] = "cut"
  BY DEF SlotTypes, ClientTypes, NotFound, Fresh
<1> QED BY <1>4, <1>5, <1>6, <1>7, <1>8 DEF Touches, Missed

-----------------------------------------------------------------------------
(* The connections, their clients and their files. *)

(* Why a connection ends.                                                    *)
Ending(s, stream, close, how) ==
  /\ close \/ state[s] = "sending"
  /\ stream \/ ~streams[s] \/ late[s]
  /\ how = "eof" => /\ state[s] = "sending" /\ data[s] = <<>>
                    /\ streams[s] => Handler(ptr[s]).data = <<>>
(* What a connection begins to answer.                                       *)
Reading(s) ==
  conn[s] # None /\ state[s] # "sending" /\ wire[conn[s]] = "whole"
Beginning(s, x, first) ==
  LET r == asked[conn[s]]
      res == Handler(IF ptr[s] = None THEN NewContext(r) ELSE ptr[s])
  IN  \/ IsStream(r) /\ x = res.ctx /\ first = res.data /\ first # <<>>
      \/ r.kind \in {"text", "page"} /\ x = ptr[s] /\ first = <<Text>>
Missing(s, x) ==
  LET r == asked[conn[s]]
      res == Handler(IF ptr[s] = None THEN NewContext(r) ELSE ptr[s])
  IN  (IsStream(r) /\ x = res.ctx /\ res.data = <<>>) \/ x = ptr[s]

(* The steps of a connection that end it,                                    *)
LEMMA Endings ==
  ASSUME WebInv, NEW s \in Slots,
         \/ Expire(s) \/ ReadEnd(s) \/ WriteFails(s) \/ WriteEnd(s)
         \/ (Load(s) /\ Handler(ptr[s]).data = <<>>)
  PROVE  /\ UNCHANGED <<backlog, bounds>> /\ conn[s] \in Clients
         /\ \E stream, close \in BOOLEAN, how \in {"eof", "cut"} :
              Ended(s, stream, close, how) /\ Ending(s, stream, close, how)
<1>1. /\ SlotTypes /\ ClientTypes /\ (state[s] = "sending" => conn[s] # None)
      /\ conn[s] \in Clients \cup {None} /\ streams[s] \in BOOLEAN /\ closes[s] \in BOOLEAN
      /\ (state[s] # "sending" => ~streams[s])
  BY DEF WebInv, TypeOK, SlotTypes, SlotInv, SlotOK
<1>2. CASE Expire(s)
  <2>1. Close(s, FALSE, TRUE, "cut") /\ UNCHANGED <<asked, got, gone>> /\ conn[s] \in Clients /\ late[s]
    BY <1>1, <1>2 DEF Expire
  <2>2. Ended(s, FALSE, TRUE, "cut")
    BY <1>1, <2>1, CloseEffect
  <2> QED BY <1>2, <2>1, <2>2 DEF Expire, Ending
<1>3. CASE ReadEnd(s)
  <2>1. Close(s, FALSE, TRUE, "cut") /\ UNCHANGED <<asked, got, gone>> /\ conn[s] \in Clients /\ ~streams[s]
    BY <1>1, <1>3 DEF ReadEnd
  <2>2. Ended(s, FALSE, TRUE, "cut")
    BY <1>1, <2>1, CloseEffect
  <2> QED BY <1>3, <2>1, <2>2 DEF ReadEnd, Ending
<1>4. CASE WriteFails(s)
  <2>1. Close(s, streams[s], TRUE, "cut") /\ UNCHANGED <<asked, got, gone>> /\ conn[s] \in Clients
    BY <1>1, <1>4 DEF WriteFails
  <2>2. Ended(s, streams[s], TRUE, "cut")
    BY <1>1, <2>1, CloseEffect
  <2>3. Ending(s, streams[s], TRUE, "cut")
    BY DEF Ending
  <2> QED BY <1>1, <1>4, <2>1, <2>2, <2>3 DEF WriteFails
<1>5. CASE WriteEnd(s)
  <2>1. Close(s, FALSE, closes[s], "eof") /\ UNCHANGED <<asked, got, gone>> /\ conn[s] \in Clients
    BY <1>1, <1>5 DEF WriteEnd
  <2>2. Ended(s, FALSE, closes[s], "eof")
    BY <1>1, <2>1, CloseEffect
  <2>3. Ending(s, FALSE, closes[s], "eof")
    BY <1>5 DEF WriteEnd, Ending
  <2> QED BY <1>1, <1>5, <2>1, <2>2, <2>3 DEF WriteEnd
<1>6. CASE Load(s) /\ Handler(ptr[s]).data = <<>>
  <2>1. Close(s, TRUE, TRUE, "eof") /\ UNCHANGED <<asked, got, gone>> /\ conn[s] \in Clients
    BY <1>1, <1>6 DEF Load
  <2>2. Ended(s, TRUE, TRUE, "eof")
    BY <1>1, <2>1, CloseEffect
  <2>3. Ending(s, TRUE, TRUE, "eof")
    BY <1>6 DEF Load, Ending
  <2> QED BY <1>6, <2>1, <2>2, <2>3 DEF Load
<1> QED BY <1>2, <1>3, <1>4, <1>5, <1>6

(* and those that answer a request, or find no answer.                       *)
LEMMA Beginnings ==
  ASSUME WebInv, NEW s \in Slots, ReadStream(s) \/ ReadOther(s)
  PROVE  /\ UNCHANGED <<backlog, bounds>> /\ conn[s] \in Clients /\ Reading(s)
         /\ asked[conn[s]] \in Requests
         /\ \/ \E x \in Contexts \cup {None}, first \in Seq(Item) :
                 Begun(s, asked[conn[s]], x, first) /\ Beginning(s, x, first)
            \/ \E x \in Contexts \cup {None} : Missed(s, x) /\ Missing(s, x)
<1> DEFINE c == conn[s]
           r == asked[c]
<1>1. /\ SlotTypes /\ ClientTypes /\ c \in Clients /\ r \in Requests /\ ptr[s] \in Contexts \cup {None}
      /\ served[s] < KeepAlive /\ Reading(s) /\ UNCHANGED <<backlog, asked, got, gone, bounds>>
  <2>1. Reading(s) /\ UNCHANGED <<backlog, asked, got, gone, bounds>>
    BY DEF ReadStream, ReadOther, Reading
  <2>2. c \in Clients
    BY <2>1 DEF WebInv, TypeOK, SlotTypes, Reading
  <2> QED BY <2>1, <2>2 DEF WebInv, TypeOK, SlotTypes, ClientTypes, SlotInv, SlotOK, ClientInv, ClientOK, Reading
<1>2. CASE ReadStream(s)
  <2> DEFINE x == IF ptr[s] = None THEN NewContext(r) ELSE ptr[s]
             res == Handler(x)
             now == [ptr EXCEPT ![s] = res.ctx]
  <2>1. IsStream(r)
    BY <1>2 DEF ReadStream
  <2>2. x \in Contexts
    <3>1. NewContext(r) \in Contexts
      BY <1>1, <2>1, FirstContext, Zenon
    <3> QED BY <1>1, <3>1
  <2>3. res.ctx \in Contexts /\ res.data \in Seq(Item) /\ Len(res.data) <= Room
    BY <2>2, HandlerTyped
  <2>4. CASE res.data = <<>>
    <3>1. NotFound(s, now)
      BY <1>2, <2>4 DEF ReadStream
    <3>2. Missed(s, res.ctx)
      BY <1>1, <2>3, <3>1, NotFoundEffect
    <3>3. Missing(s, res.ctx)
      BY <2>1, <2>4 DEF Missing
    <3> QED BY <1>1, <2>3, <3>2, <3>3
  <2>5. CASE res.data # <<>>
    <3>1. Answer(s, r, now, res.data, TRUE)
      BY <1>2, <2>5 DEF ReadStream
    <3>2. Begun(s, r, res.ctx, res.data)
      BY <1>1, <2>3, <3>1, AnswerEffect
    <3>3. Beginning(s, res.ctx, res.data)
      BY <2>1, <2>5 DEF Beginning
    <3> QED BY <1>1, <2>3, <3>2, <3>3
  <2> QED BY <2>4, <2>5
<1>3. CASE ReadOther(s)
  <2>1. ptr = [ptr EXCEPT ![s] = ptr[s]]
    BY <1>1 DEF SlotTypes
  <2>2. <<Text>> \in Seq(Item) /\ Len(<<Text>>) = 1 /\ Len(<<Text>>) <= Room
    BY Sizes DEF Item, Text
  <2>3. CASE NotFound(s, ptr)
    <3>1. Missed(s, ptr[s])
      BY <1>1, <2>1, <2>3, NotFoundEffect
    <3> QED BY <1>1, <3>1 DEF Missing
  <2>4. ASSUME NEW close \in BOOLEAN, Answer(s, r, ptr, <<Text>>, close), r.kind \in {"text", "page"}
        PROVE  \E x \in Contexts \cup {None}, first \in Seq(Item) :
                 Begun(s, r, x, first) /\ Beginning(s, x, first)
    <3>1. Begun(s, r, ptr[s], <<Text>>)
      BY <1>1, <2>1, <2>2, <2>4, AnswerEffect
    <3> QED BY <1>1, <2>2, <2>4, <3>1 DEF Beginning
  <2> QED BY <1>1, <1>3, <2>3, <2>4 DEF ReadOther
<1> QED BY <1>2, <1>3

(* The first of those who wait leaves the queue.                             *)
LEMMA BacklogRest ==
  ASSUME backlog \in Seq(Clients), backlog # <<>>, backlog' = SubSeq(backlog, 2, Len(backlog))
  PROVE  /\ backlog' \in Seq(Clients) /\ Len(backlog) \in Nat /\ Len(backlog) >= 1
         /\ Len(backlog') = Len(backlog) - 1 /\ backlog[1] \in Clients
         /\ \A i \in 1..Len(backlog') : backlog'[i] = backlog[i + 1]
<1>1. Len(backlog) \in Nat /\ Len(backlog) # 0
  BY EmptySeq, LenProperties
<1>2. \A i \in 2..Len(backlog) : backlog[i] \in Clients
  BY <1>1
<1>3. /\ backlog' \in Seq(Clients)
      /\ Len(backlog') = (IF 2 <= Len(backlog) THEN Len(backlog) - 2 + 1 ELSE 0)
      /\ \A i \in 1..(Len(backlog) - 2 + 1) : backlog'[i] = backlog[2 + i - 1]
  BY <1>1, <1>2, SubSeqProperties
<1>4. backlog[1] \in Clients /\ Len(backlog') = Len(backlog) - 1
  <2>1. 1 \in 1..Len(backlog)
    BY <1>1
  <2>2. backlog[1] \in Clients
    BY <2>1
  <2> DEFINE k == Len(backlog')
  <2>3. k = (IF 2 <= Len(backlog) THEN Len(backlog) - 2 + 1 ELSE 0)
    BY <1>3
  <2> HIDE DEF k
  <2>4. k = Len(backlog) - 1
    BY <1>1, <2>3
  <2> QED BY <2>2, <2>4 DEF k
<1>5. ASSUME NEW i \in 1..Len(backlog')
      PROVE  backlog'[i] = backlog[i + 1]
  <2>1. i \in 1..(Len(backlog) - 2 + 1) /\ 2 + i - 1 = i + 1
    BY <1>1, <1>4
  <2> QED BY <1>3, <2>1
<1> QED BY <1>1, <1>3, <1>4, <1>5

(* What the socket took is the beginning of what there was to send.          *)
LEMMA SentPart ==
  ASSUME NEW g \in Seq(Item), NEW d \in Seq(Item), NEW n \in 1..Len(d)
  PROVE  LET g2 == g \o SubSeq(d, 1, n)
             d2 == SubSeq(d, n + 1, Len(d))
         IN  /\ g2 \in Seq(Item) /\ d2 \in Seq(Item)
             /\ Len(g) \in Nat /\ Len(d) \in Nat /\ n \in Nat /\ n <= Len(d)
             /\ Len(g2) = Len(g) + n /\ Len(d2) = Len(d) - n
             /\ \A i \in 1..Len(g) : g2[i] = g[i]
             /\ \A i \in 1..n : g2[Len(g) + i] = d[i]
             /\ \A i \in 1..(Len(d) - n) : d2[i] = d[n + i]
<1> DEFINE p == SubSeq(d, 1, n)
           g2 == g \o p
           d2 == SubSeq(d, n + 1, Len(d))
<1>1. Len(g) \in Nat /\ Len(d) \in Nat /\ n \in Nat /\ n <= Len(d) /\ n >= 1
  BY LenProperties
<1>2. \A i \in 1..Len(d) : d[i] \in Item
  OBVIOUS
<1>3. p \in Seq(Item) /\ Len(p) = n /\ \A i \in 1..n : p[i] = d[i]
  <2>1. \A i \in 1..n : d[i] \in Item
    BY <1>1, <1>2
  <2>2. /\ p \in Seq(Item) /\ Len(p) = (IF 1 <= n THEN n - 1 + 1 ELSE 0)
        /\ \A i \in 1..(n - 1 + 1) : p[i] = d[1 + i - 1]
    BY <1>1, <2>1, SubSeqProperties
  <2> HIDE DEF p
  <2> QED BY <1>1, <2>2
<1>4. d2 \in Seq(Item) /\ Len(d2) = Len(d) - n /\ \A i \in 1..(Len(d) - n) : d2[i] = d[n + i]
  <2>1. \A i \in (n + 1)..Len(d) : d[i] \in Item
    BY <1>1, <1>2
  <2>2. /\ d2 \in Seq(Item) /\ Len(d2) = (IF n + 1 <= Len(d) THEN Len(d) - (n + 1) + 1 ELSE 0)
        /\ \A i \in 1..(Len(d) - (n + 1) + 1) : d2[i] = d[n + 1 + i - 1]
    BY <1>1, <2>1, SubSeqProperties
  <2> HIDE DEF d2
  <2> QED BY <1>1, <2>2
<1> HIDE DEF p, d2
<1>5. /\ g2 \in Seq(Item) /\ Len(g2) = Len(g) + n
      /\ \A i \in 1..(Len(g) + n) : g2[i] = IF i <= Len(g) THEN g[i] ELSE p[i - Len(g)]
  BY <1>3, ConcatProperties
<1> HIDE DEF g2
<1>6. \A i \in 1..Len(g) : g2[i] = g[i]
  BY <1>1, <1>5
<1>7. ASSUME NEW i \in 1..n
      PROVE  g2[Len(g) + i] = d[i]
  <2>1. Len(g) + i \in 1..(Len(g) + n) /\ ~(Len(g) + i <= Len(g)) /\ (Len(g) + i) - Len(g) = i
    BY <1>1
  <2> QED BY <1>3, <1>5, <2>1
<1> QED BY <1>1, <1>4, <1>5, <1>6, <1>7 DEF p, g2, d2

(* The other steps of a connection, and of a client that gets one, keep the  *)
(* types and touch that connection and its client only.                      *)
LEMMA OtherSteps ==
  ASSUME WebInv, NEW s \in Slots,
         \/ Elapse(s) \/ ReadPart(s) \/ Write(s) \/ (Load(s) /\ Handler(ptr[s]).data # <<>>)
         \/ Accept(s) \/ Evict(s)
  PROVE  /\ SlotTypes' /\ ClientTypes' /\ backlog' \in Seq(Clients) /\ UNCHANGED bounds
         /\ \E c \in Clients : Touches(s, c) /\ (c = conn[s] \/ c = conn'[s])
<1>1. /\ SlotTypes /\ ClientTypes /\ backlog \in Seq(Clients)
      /\ conn[s] \in Clients \cup {None} /\ (state[s] = "sending" => conn[s] # None)
      /\ (streams[s] => ptr[s] \in Contexts) /\ data[s] \in Seq(Item) /\ served[s] \in 0..KeepAlive
  BY DEF WebInv, TypeOK, SlotTypes, SlotInv, SlotOK
<1>2. CASE Elapse(s)
  <2>1. UNCHANGED <<backlog, conn, state, streams, closes, ptr, data, served, clientVars, bounds>>
    BY <1>2 DEF Elapse
  <2>2. late' \in [Slots -> BOOLEAN] /\ conn[s] \in Clients
    BY <1>1, <1>2 DEF Elapse, SlotTypes
  <2>3. SlotTypes' /\ ClientTypes'
    BY <1>1, <2>1, <2>2 DEF SlotTypes, ClientTypes, clientVars
  <2>4. Touches(s, conn[s])
    BY <1>1, <1>2, <2>1 DEF Elapse, Touches, SlotSame, ClientSame, SlotTypes, clientVars
  <2> QED BY <1>1, <2>1, <2>2, <2>3, <2>4
<1>3. CASE ReadPart(s)
  <2>1. /\ UNCHANGED <<backlog, conn, streams, closes, ptr, data, served, asked, rest, got, ended, gone,
                       bounds>>
        /\ conn[s] \in Clients
    BY <1>1, <1>3 DEF ReadPart
  <2>2. /\ state' = [state EXCEPT ![s] = "receiving"] /\ late' = [late EXCEPT ![s] = FALSE]
        /\ wire' = [wire EXCEPT ![conn[s]] = "none"]
    BY <1>3 DEF ReadPart
  <2>3. SlotTypes'
    BY <1>1, <2>1, <2>2 DEF SlotTypes
  <2>4. ClientTypes'
    BY <1>1, <2>1, <2>2 DEF ClientTypes
  <2>5. Touches(s, conn[s])
    BY <1>1, <2>1, <2>2 DEF Touches, SlotSame, ClientSame, SlotTypes, ClientTypes
  <2> QED BY <1>1, <2>1, <2>3, <2>4, <2>5
<1>4. CASE Write(s)
  <2>1. /\ UNCHANGED <<backlog, conn, state, streams, closes, ptr, served, asked, wire, rest, ended,
                       gone, bounds>>
        /\ conn[s] \in Clients /\ late' = [late EXCEPT ![s] = FALSE]
    BY <1>1, <1>4 DEF Write
  <2>2. PICK n \in 1..Len(data[s]) :
          /\ got' = [got EXCEPT ![conn[s]] = got[conn[s]] \o SubSeq(data[s], 1, n)]
          /\ data' = [data EXCEPT ![s] = SubSeq(data[s], n + 1, Len(data[s]))]
    BY <1>4 DEF Write
  <2> DEFINE g2 == got[conn[s]] \o SubSeq(data[s], 1, n)
             d2 == SubSeq(data[s], n + 1, Len(data[s]))
  <2>3. got[conn[s]] \in Seq(Item) /\ Len(data[s]) <= Room
    BY <1>1, <2>1 DEF SlotTypes, ClientTypes
  <2>4. g2 \in Seq(Item) /\ d2 \in Seq(Item) /\ Len(d2) <= Room
    <3>1. /\ g2 \in Seq(Item) /\ d2 \in Seq(Item) /\ Len(data[s]) \in Nat /\ n \in Nat
          /\ Len(d2) = Len(data[s]) - n
      <4>1. got[conn[s]] \in Seq(Item) /\ data[s] \in Seq(Item) /\ n \in 1..Len(data[s])
        BY <1>1, <2>3
      <4> QED BY <4>1, SentPart
    <3> HIDE DEF g2, d2
    <3> QED BY <2>3, <3>1, Sizes
  <2> HIDE DEF g2, d2
  <2>5. SlotTypes'
    BY <1>1, <2>1, <2>2, <2>4 DEF SlotTypes, d2
  <2>6. ClientTypes'
    BY <1>1, <2>1, <2>2, <2>4 DEF ClientTypes, g2
  <2>7. Touches(s, conn[s])
    BY <1>1, <2>1, <2>2 DEF Touches, SlotSame, ClientSame, SlotTypes, ClientTypes
  <2> QED BY <1>1, <2>1, <2>5, <2>6, <2>7
<1>5. CASE Load(s) /\ Handler(ptr[s]).data # <<>>
  <2> DEFINE res == Handler(ptr[s])
  <2>1. /\ UNCHANGED <<backlog, conn, state, streams, closes, served, asked, wire, rest, got, ended,
                       gone, bounds>>
        /\ conn[s] \in Clients /\ late' = [late EXCEPT ![s] = FALSE]
        /\ data' = [data EXCEPT ![s] = res.data] /\ ptr' = [ptr EXCEPT ![s] = res.ctx]
    BY <1>1, <1>5 DEF Load
  <2>2. res.ctx \in Contexts /\ res.data \in Seq(Item) /\ Len(res.data) <= Room
    BY <1>1, <1>5, HandlerTyped DEF Load
  <2> HIDE DEF res
  <2>3. SlotTypes'
    BY <1>1, <2>1, <2>2 DEF SlotTypes
  <2>4. ClientTypes'
    BY <1>1, <2>1 DEF ClientTypes
  <2>5. Touches(s, conn[s])
    BY <1>1, <2>1 DEF Touches, SlotSame, ClientSame, SlotTypes
  <2> QED BY <1>1, <2>1, <2>3, <2>4, <2>5
<1>6. CASE Accept(s)
  <2>1. /\ UNCHANGED <<ptr, served, clientVars, bounds>> /\ Fresh(s)
        /\ conn' = [conn EXCEPT ![s] = backlog[1]]
        /\ backlog # <<>> /\ backlog' = SubSeq(backlog, 2, Len(backlog))
    BY <1>6 DEF Accept
  <2>2. backlog[1] \in Clients /\ backlog' \in Seq(Clients)
    BY <1>1, <2>1, BacklogRest
  <2>3. SlotTypes'
    BY <1>1, <2>1, <2>2, NothingSent DEF SlotTypes, Fresh
  <2>4. ClientTypes'
    BY <1>1, <2>1 DEF ClientTypes, clientVars
  <2>5. Touches(s, backlog[1]) /\ conn'[s] = backlog[1]
    BY <1>1, <2>1 DEF Touches, SlotSame, ClientSame, SlotTypes, Fresh, clientVars
  <2> QED BY <2>1, <2>2, <2>3, <2>4, <2>5
<1>7. CASE Evict(s)
  <2>1. /\ UNCHANGED <<ptr, asked, got, gone, bounds>> /\ Fresh(s)
        /\ conn' = [conn EXCEPT ![s] = backlog[1]] /\ conn[s] \in Clients
        /\ backlog # <<>> /\ backlog' = SubSeq(backlog, 2, Len(backlog))
        /\ served' = [served EXCEPT ![s] = 0]
        /\ ended' = [ended EXCEPT ![conn[s]] = IF ended[conn[s]] = "no" THEN "cut" ELSE ended[conn[s]]]
        /\ wire' = [wire EXCEPT ![conn[s]] = "none"] /\ rest' = [rest EXCEPT ![conn[s]] = FALSE]
    BY <1>1, <1>7 DEF Evict
  <2>2. backlog[1] \in Clients /\ backlog' \in Seq(Clients)
    BY <1>1, <2>1, BacklogRest
  <2>3. SlotTypes'
    <3>1. 0 \in 0..KeepAlive
      BY BoundsAssumption
    <3> QED BY <1>1, <2>1, <2>2, <3>1, NothingSent DEF SlotTypes, Fresh
  <2>4. ClientTypes'
    BY <1>1, <2>1 DEF ClientTypes
  <2>5. Touches(s, conn[s])
    BY <1>1, <2>1 DEF Touches, SlotSame, ClientSame, SlotTypes, ClientTypes, Fresh
  <2> QED BY <2>1, <2>2, <2>3, <2>4, <2>5
<1> QED BY <1>2, <1>3, <1>4, <1>5, <1>6, <1>7

(* A step of one connection and its client leaves the others as they were.   *)
LEMMA SlotsKept ==
  ASSUME WebInv, NEW s \in Slots, NEW c \in Clients, Touches(s, c),
         \A t \in Slots \ {s} : conn[t] # c, SlotOK(s)'
  PROVE  SlotInv'
<1> SUFFICES ASSUME NEW t \in Slots \ {s}
             PROVE  SlotOK(t)'
  BY DEF SlotInv
<1>1. SlotOK(t) /\ SlotSame(t) /\ (conn[t] = None \/ conn[t] \in Clients \ {c})
  BY DEF WebInv, SlotInv, TypeOK, SlotTypes, Touches
<1>2. CASE conn[t] = None
  BY <1>1, <1>2 DEF SlotOK, SlotSame
<1>3. CASE conn[t] \in Clients \ {c}
  <2>1. ClientSame(conn[t])
    BY <1>3 DEF Touches
  <2>2. Answered(t, conn[t]) => Answered(t, conn[t])'
    BY <1>1, <2>1 DEF Answered, SlotSame, ClientSame
  <2> QED BY <1>1, <2>2 DEF SlotOK, SlotSame
<1> QED BY <1>1, <1>2, <1>3

(* The same of the other clients,                                            *)
LEMMA ClientsKept ==
  ASSUME WebInv, NEW s \in Slots, NEW c \in Clients, Touches(s, c), ClientOK(c)'
  PROVE  ClientInv'
BY DEF WebInv, ClientInv, ClientOK, Touches, ClientSame

(* and of the places, when the connection is kept or ends.                   *)
LEMMA PlacesKept ==
  ASSUME WebInv, NEW s \in Slots, NEW c, Touches(s, c), conn'[s] \in {conn[s], None},
         UNCHANGED backlog
  PROVE  PlaceInv'
<1>1. \A t \in Slots : conn'[t] = conn[t] \/ conn'[t] = None
  BY DEF Touches, SlotSame
<1>2. \A i \in 1..Len(backlog) : backlog[i] \in Clients /\ backlog[i] # None
  BY NoneAssumption DEF WebInv, TypeOK
<1>3. PlaceInv
  BY DEF WebInv
<1> QED BY <1>1, <1>2, <1>3 DEF PlaceInv

(* Who was waiting gets a connection.                                        *)
LEMMA PlaceGiven ==
  ASSUME WebInv, NEW s \in Slots, NEW c, Touches(s, c), backlog # <<>>, conn'[s] = backlog[1],
         backlog' = SubSeq(backlog, 2, Len(backlog))
  PROVE  PlaceInv'
<1>1. PlaceInv /\ backlog \in Seq(Clients)
  BY DEF WebInv, TypeOK
<1>2. /\ Len(backlog) \in Nat /\ Len(backlog) >= 1 /\ Len(backlog') = Len(backlog) - 1
      /\ \A i \in 1..Len(backlog') : backlog'[i] = backlog[i + 1]
  BY <1>1, BacklogRest
<1>3. \A i \in 1..Len(backlog') : i + 1 \in 1..Len(backlog) /\ i + 1 # 1 /\ 1 \in 1..Len(backlog)
  BY <1>2
<1>4. 1 \in 1..Len(backlog)
  BY <1>2
<1>5. \A t \in Slots \ {s} : conn'[t] = conn[t] /\ conn[t] # backlog[1]
  BY <1>1, <1>4 DEF Touches, SlotSame, PlaceInv
<1>6. \A t, u \in Slots : conn'[t] = conn'[u] /\ conn'[t] # None => t = u
  BY <1>1, <1>5 DEF PlaceInv
<1>7. ASSUME NEW i \in 1..Len(backlog'), NEW j \in 1..Len(backlog'), backlog'[i] = backlog'[j]
      PROVE  i = j
  <2>1. i + 1 = j + 1
    BY <1>1, <1>2, <1>3, <1>7 DEF PlaceInv
  <2> QED BY <1>2, <2>1
<1>8. ASSUME NEW i \in 1..Len(backlog'), NEW t \in Slots
      PROVE  conn'[t] # backlog'[i]
  <2>1. backlog'[i] = backlog[i + 1] /\ backlog[i + 1] # backlog[1]
    BY <1>1, <1>2, <1>3 DEF PlaceInv
  <2> QED BY <1>1, <1>3, <1>5, <2>1 DEF PlaceInv
<1> QED BY <1>6, <1>7, <1>8 DEF PlaceInv

(* Connections and clients are in order after a connection ended,            *)
LEMMA EndingsKeep ==
  ASSUME WebInv, NEW s \in Slots, conn[s] \in Clients, UNCHANGED <<backlog, bounds>>,
         NEW stream \in BOOLEAN, NEW close \in BOOLEAN, NEW how \in {"eof", "cut"},
         Ended(s, stream, close, how), Ending(s, stream, close, how)
  PROVE  WebInv'
<1>0. PICK c \in Clients : c = conn[s]
  OBVIOUS
<1>1. TypeOK'
  BY DEF WebInv, TypeOK, Ended, bounds
<1>2. KeepAlive \in Nat \ {0} /\ SlotOK(s) /\ ClientOK(c)
  BY <1>0, BoundsAssumption DEF WebInv, SlotInv, ClientInv
<1>3. \A t \in Slots \ {s} : conn[t] # c
  BY <1>0, NoneAssumption DEF WebInv, PlaceInv
<1>4. /\ Touches(s, c) /\ state'[s] = "idle" /\ ~streams'[s] /\ ~rest'[c]
      /\ wire'[c] = (IF close THEN "none" ELSE wire[c])
      /\ \/ conn'[s] = None /\ served'[s] = 0
         \/ conn'[s] = c /\ served'[s] = served[s] /\ served[s] < KeepAlive
  BY <1>0 DEF Ended
<1>5. SlotOK(s)'
  <2>1. served'[s] < KeepAlive /\ (conn'[s] = None => served'[s] = 0)
    <3>1. c # None
      BY NoneAssumption
    <3>2. 0 < KeepAlive
      BY <1>2
    <3> QED BY <1>4, <3>1, <3>2
  <2> QED BY <1>4, <2>1 DEF SlotOK
<1>6. wire'[c] # "whole"
  BY <1>0, <1>2, <1>4 DEF Ending, SlotOK, Answered
<1>7. ClientOK(c)'
  BY <1>4, <1>6 DEF ClientOK
<1>8. SlotInv' /\ ClientInv' /\ PlaceInv'
  BY <1>0, <1>3, <1>4, <1>5, <1>7, SlotsKept, ClientsKept, PlacesKept
<1> QED BY <1>1, <1>8 DEF WebInv

(* began to answer,                                                          *)
LEMMA BeginningsKeep ==
  ASSUME WebInv, NEW s \in Slots, conn[s] \in Clients, UNCHANGED <<backlog, bounds>>, Reading(s),
         asked[conn[s]] \in Requests, NEW x \in Contexts \cup {None}, NEW first \in Seq(Item),
         Begun(s, asked[conn[s]], x, first), Beginning(s, x, first)
  PROVE  WebInv'
<1> DEFINE c == conn[s]
           r == asked[c]
<1>1. TypeOK'
  BY DEF WebInv, TypeOK, Begun, bounds
<1>2. /\ SlotOK(s) /\ ClientOK(c) /\ SlotTypes /\ ClientTypes /\ c # None /\ r # None
      /\ state[s] # "sending" /\ wire[c] = "whole"
  BY NoneAssumption DEF WebInv, SlotInv, ClientInv, TypeOK, Reading
<1>3. \A t \in Slots \ {s} : conn[t] # c
  BY NoneAssumption DEF WebInv, PlaceInv
<1>4. /\ Touches(s, c) /\ state'[s] = "sending" /\ (streams'[s] <=> IsStream(r)) /\ ptr'[s] = x
      /\ conn'[s] = c /\ wire'[c] = "none" /\ asked' = asked /\ rest' = rest /\ ended' = ended
  BY DEF Begun
<1>5. ~rest[c] /\ ended[c] = "no"
  BY <1>2 DEF ClientOK
<1>6. IsStream(r) => x # None
  <2>1. ASSUME IsStream(r)
        PROVE  (IF ptr[s] = None THEN NewContext(r) ELSE ptr[s]) \in Contexts
    <3>1. NewContext(r) \in Contexts
      BY <2>1, FirstContext, Zenon
    <3> QED BY <1>2, <3>1 DEF SlotTypes
  <2>2. ASSUME IsStream(r)
        PROVE  x \in Contexts
    <3>1. r.kind \notin {"text", "page"}
      BY <2>2 DEF IsStream
    <3>2. x = Handler(IF ptr[s] = None THEN NewContext(r) ELSE ptr[s]).ctx
      BY <3>1, Zenon DEF Beginning
    <3> QED BY <2>1, <2>2, <3>2, HandlerTyped
  <2> QED BY <2>2, NoneAssumption
<1>7. SlotOK(s)'
  <2>1. ~IsStream(r) => r.kind \in {"text", "page"}
    BY DEF Beginning
  <2>2. Answered(s, c)'
    BY <1>2, <1>4, <1>5, <2>1 DEF Answered
  <2> QED BY <1>2, <1>4, <1>6, <2>2 DEF SlotOK
<1>8. ClientOK(c)'
  BY <1>4, <1>5 DEF ClientOK
<1>9. SlotInv' /\ ClientInv' /\ PlaceInv'
  BY <1>3, <1>4, <1>7, <1>8, SlotsKept, ClientsKept, PlacesKept
<1> QED BY <1>1, <1>9 DEF WebInv

(* found no answer,                                                          *)
LEMMA MissingKeeps ==
  ASSUME WebInv, NEW s \in Slots, conn[s] \in Clients, UNCHANGED <<backlog, bounds>>,
         Reading(s), NEW x \in Contexts \cup {None}, Missed(s, x)
  PROVE  WebInv'
<1>0. PICK c \in Clients : c = conn[s]
  OBVIOUS
<1>1. TypeOK'
  BY DEF WebInv, TypeOK, Missed, bounds
<1>2. KeepAlive \in Nat \ {0} /\ ClientOK(c) /\ wire[c] = "whole"
  BY <1>0, BoundsAssumption DEF WebInv, ClientInv, Reading
<1>3. \A t \in Slots \ {s} : conn[t] # c
  BY <1>0, NoneAssumption DEF WebInv, PlaceInv
<1>4. /\ Touches(s, c) /\ state'[s] = "idle" /\ ~streams'[s] /\ rest' = rest
      /\ wire'[c] = "none" /\ conn'[s] = None /\ served'[s] = 0
  BY <1>0 DEF Missed
<1>5. SlotOK(s)'
  <2>1. served'[s] < KeepAlive
    <3>1. 0 < KeepAlive
      BY <1>2
    <3> QED BY <1>4, <3>1
  <2> QED BY <1>4, <2>1 DEF SlotOK
<1>6. ClientOK(c)'
  BY <1>2, <1>4 DEF ClientOK
<1>7. SlotInv' /\ ClientInv' /\ PlaceInv'
  BY <1>0, <1>3, <1>4, <1>5, <1>6, SlotsKept, ClientsKept, PlacesKept
<1> QED BY <1>1, <1>7 DEF WebInv

(* and after each other step of one.                                         *)
LEMMA OthersKeep ==
  ASSUME WebInv, NEW s \in Slots,
         \/ Elapse(s) \/ ReadPart(s) \/ Write(s) \/ (Load(s) /\ Handler(ptr[s]).data # <<>>)
         \/ Accept(s) \/ Evict(s)
  PROVE  WebInv'
<1>1. /\ SlotTypes' /\ ClientTypes' /\ backlog' \in Seq(Clients) /\ UNCHANGED bounds
  BY OtherSteps
<1>2. PICK c \in Clients : Touches(s, c) /\ (c = conn[s] \/ c = conn'[s])
  BY OtherSteps
<1>3. TypeOK'
  BY <1>1 DEF WebInv, TypeOK, bounds
<1>4. /\ SlotOK(s) /\ ClientOK(c) /\ SlotTypes /\ ClientTypes /\ c # None
      /\ served[s] \in 0..KeepAlive /\ KeepAlive \in Nat \ {0}
  BY NoneAssumption, BoundsAssumption DEF WebInv, SlotInv, ClientInv, TypeOK, SlotTypes
<1>5. c = conn[s] => \A t \in Slots \ {s} : conn[t] # c
  BY <1>4 DEF WebInv, PlaceInv
<1>6. CASE Elapse(s)
  <2>1. /\ UNCHANGED <<backlog, conn, state, streams, ptr, served, asked, wire, rest, got, ended>>
        /\ conn[s] = c
    BY <1>2, <1>6 DEF Elapse, clientVars
  <2>2. SlotOK(s)'
    BY <1>4, <2>1 DEF SlotOK, Answered
  <2>3. ClientOK(c)'
    BY <1>4, <2>1 DEF ClientOK
  <2> QED BY <1>2, <1>3, <1>5, <2>1, <2>2, <2>3, SlotsKept, ClientsKept, PlacesKept DEF WebInv
<1>7. CASE ReadPart(s)
  <2>1. /\ UNCHANGED <<backlog, conn, streams, ptr, served, asked, rest, got, ended>>
        /\ conn[s] = c /\ state[s] # "sending" /\ state'[s] = "receiving" /\ wire'[c] = "none"
    BY <1>2, <1>4, <1>7 DEF ReadPart, SlotTypes, ClientTypes
  <2>2. SlotOK(s)'
    BY <1>4, <2>1 DEF SlotOK
  <2>3. ClientOK(c)'
    BY <1>4, <2>1 DEF ClientOK
  <2> QED BY <1>2, <1>3, <1>5, <2>1, <2>2, <2>3, SlotsKept, ClientsKept, PlacesKept DEF WebInv
<1>8. CASE Write(s)
  <2>1. /\ UNCHANGED <<backlog, conn, state, streams, ptr, served, asked, wire, rest, ended>>
        /\ conn[s] = c /\ state[s] = "sending"
    BY <1>2, <1>8 DEF Write
  <2>2. SlotOK(s)'
    BY <1>4, <2>1 DEF SlotOK, Answered
  <2>3. ClientOK(c)'
    BY <1>4, <2>1 DEF ClientOK, SlotOK, Answered
  <2> QED BY <1>2, <1>3, <1>5, <2>1, <2>2, <2>3, SlotsKept, ClientsKept, PlacesKept DEF WebInv
<1>9. CASE Load(s) /\ Handler(ptr[s]).data # <<>>
  <2>1. /\ UNCHANGED <<backlog, conn, state, streams, served, asked, wire, rest, got, ended>>
        /\ conn[s] = c /\ state[s] = "sending" /\ ptr'[s] = Handler(ptr[s]).ctx
    BY <1>2, <1>4, <1>9 DEF Load, SlotTypes
  <2>2. ptr'[s] # None
    <3>1. ptr[s] \in Contexts
      BY <1>4, <1>9 DEF Load, SlotOK, SlotTypes
    <3> QED BY <2>1, <3>1, HandlerTyped, NoneAssumption
  <2>3. SlotOK(s)'
    BY <1>4, <2>1, <2>2 DEF SlotOK, Answered
  <2>4. ClientOK(c)'
    BY <1>4, <2>1 DEF ClientOK
  <2> QED BY <1>2, <1>3, <1>5, <2>1, <2>3, <2>4, SlotsKept, ClientsKept, PlacesKept DEF WebInv
<1>10. CASE Accept(s)
  <2>1. /\ UNCHANGED <<ptr, served, asked, wire, rest, got, ended>> /\ conn[s] = None
        /\ backlog # <<>> /\ backlog' = SubSeq(backlog, 2, Len(backlog)) /\ c = backlog[1]
        /\ conn'[s] = backlog[1] /\ state'[s] = "idle" /\ ~streams'[s]
    BY <1>2, <1>4, <1>10 DEF Accept, Fresh, SlotTypes, clientVars
  <2>2. \A t \in Slots \ {s} : conn[t] # c
    <3>1. backlog \in Seq(Clients)
      BY DEF WebInv, TypeOK
    <3>2. 1 \in 1..Len(backlog)
      BY <2>1, <3>1, BacklogRest
    <3> QED BY <2>1, <3>2 DEF WebInv, PlaceInv
  <2>3. SlotOK(s)'
    <3>1. served[s] = 0 /\ 0 < KeepAlive
      BY <1>4, <2>1 DEF SlotOK
    <3> QED BY <1>4, <2>1, <3>1 DEF SlotOK
  <2>4. ClientOK(c)'
    BY <1>4, <2>1 DEF ClientOK
  <2> QED BY <1>2, <1>3, <2>1, <2>2, <2>3, <2>4, SlotsKept, ClientsKept, PlaceGiven DEF WebInv
<1>11. CASE Evict(s)
  <2>1. /\ backlog # <<>> /\ backlog' = SubSeq(backlog, 2, Len(backlog)) /\ conn[s] # None
        /\ conn'[s] = backlog[1] /\ state'[s] = "idle" /\ ~streams'[s] /\ served'[s] = 0
        /\ UNCHANGED <<asked, got>>
        /\ ended' = [ended EXCEPT ![conn[s]] = IF ended[conn[s]] = "no" THEN "cut" ELSE ended[conn[s]]]
        /\ wire' = [wire EXCEPT ![conn[s]] = "none"] /\ rest' = [rest EXCEPT ![conn[s]] = FALSE]
    BY <1>4, <1>11 DEF Evict, Fresh, SlotTypes
  <2>2. PICK d \in Clients : d = conn[s]
    BY <1>4, <2>1 DEF SlotTypes
  <2>3. Touches(s, d)
    <3>1. \A e \in Clients \ {d} : ClientSame(e)
      BY <1>4, <1>11, <2>1, <2>2 DEF Evict, ClientSame, ClientTypes
    <3> QED BY <1>2, <3>1 DEF Touches
  <2>4. \A t \in Slots \ {s} : conn[t] # d
    BY <2>1, <2>2 DEF WebInv, PlaceInv
  <2>5. SlotOK(s)'
    <3>1. 0 < KeepAlive /\ backlog[1] # None
      <4>1. backlog[1] \in Clients
        BY <2>1, BacklogRest DEF WebInv, TypeOK
      <4> QED BY <1>4, <4>1, NoneAssumption
    <3> QED BY <1>4, <2>1, <3>1 DEF SlotOK
  <2>6. ClientOK(d)'
    BY <1>4, <2>1, <2>2 DEF ClientOK, ClientTypes
  <2> QED BY <1>3, <2>1, <2>3, <2>4, <2>5, <2>6, SlotsKept, ClientsKept, PlaceGiven DEF WebInv
<1> QED BY <1>6, <1>7, <1>8, <1>9, <1>10, <1>11

(* A restart clears everything the server has.                               *)
LEMMA ResetKeeps ==
  ASSUME WebInv, NEW s \in Slots, Reset(s)
  PROVE  WebInv'
<1>1. /\ conn' = [t \in Slots |-> None] /\ state' = [t \in Slots |-> "idle"]
      /\ streams' = [t \in Slots |-> FALSE] /\ closes' = [t \in Slots |-> FALSE]
      /\ ptr' = [t \in Slots |-> None] /\ data' = [t \in Slots |-> <<>>]
      /\ late' = [t \in Slots |-> FALSE] /\ served' = [t \in Slots |-> 0]
      /\ wire' = [d \in Clients |-> "none"] /\ rest' = [d \in Clients |-> FALSE]
      /\ backlog' = <<>> /\ UNCHANGED <<asked, got, gone, bounds>>
  BY DEF Reset
<1>2. ended' = [d \in Clients |-> IF Connected(d) /\ ended[d] = "no" THEN "cut" ELSE ended[d]]
  BY DEF Reset
<1>3. KeepAlive \in Nat /\ 0 \in 0..KeepAlive /\ 0 < KeepAlive
  BY BoundsAssumption
<1>4. SlotTypes'
  BY <1>1, <1>3, NothingSent DEF SlotTypes
<1>5. ClientTypes'
  <2>1. ClientTypes
    BY DEF WebInv, TypeOK
  <2>2. ended' \in [Clients -> {"no", "eof", "cut"}]
    BY <1>2, <2>1 DEF ClientTypes
  <2> QED BY <1>1, <2>1, <2>2 DEF ClientTypes
<1>6. backlog' \in Seq(Clients) /\ Len(backlog') = 0
  BY <1>1, EmptySeq
<1>7. TypeOK'
  BY <1>1, <1>4, <1>5, <1>6 DEF WebInv, TypeOK, bounds
<1>8. SlotInv'
  BY <1>1, <1>3 DEF SlotInv, SlotOK
<1>9. PlaceInv'
  <2>1. 1..Len(backlog') = {}
    BY <1>6
  <2>2. \A t \in Slots : conn'[t] = None
    BY <1>1
  <2> QED BY <2>1, <2>2 DEF PlaceInv
<1>10. ClientInv'
  BY <1>1 DEF ClientInv, ClientOK
<1> QED BY <1>7, <1>8, <1>9, <1>10 DEF WebInv

(* A client that asks has no answer under way.                               *)
LEMMA ClientsKeep ==
  ASSUME WebInv, NEW c \in Clients,
         Connect(c) \/ SendRest(c) \/ Leave(c) \/ \E r \in Requests : Ask(c, r)
  PROVE  WebInv'
<1>0. /\ TypeOK /\ SlotTypes /\ ClientTypes /\ backlog \in Seq(Clients) /\ c # None
      /\ SlotInv /\ PlaceInv /\ ClientInv /\ ClientOK(c)
      /\ MaxRequest \in Nat /\ MaxLeave \in Nat /\ requests \in 0..MaxRequest /\ leaves \in 0..MaxLeave
  BY NoneAssumption, BoundsAssumption DEF WebInv, TypeOK, ClientInv
<1>1. CASE Connect(c)
  <2>1. /\ UNCHANGED <<slotVars, asked, wire, rest, got, ended, bounds>> /\ ~Connected(c)
        /\ backlog' = Append(backlog, c) /\ gone' = [gone EXCEPT ![c] = FALSE]
    BY <1>1 DEF Connect
  <2>2. /\ backlog' \in Seq(Clients) /\ Len(backlog') = Len(backlog) + 1 /\ Len(backlog) \in Nat
        /\ \A i \in 1..Len(backlog) : backlog'[i] = backlog[i]
        /\ backlog'[Len(backlog) + 1] = c
    BY <1>0, <2>1, AppendProperties, LenProperties
  <2>3. /\ \A t \in Slots : conn[t] # c
        /\ \A i \in 1..Len(backlog) : backlog[i] # c
    <3>1. \A i \in 1..Len(backlog) : backlog[i] \in ToSet(backlog)
      BY <1>0 DEF ToSet
    <3> QED BY <2>1, <3>1 DEF Connected
  <2>4. TypeOK'
    BY <1>0, <2>1, <2>2 DEF TypeOK, SlotTypes, ClientTypes, slotVars, bounds
  <2>5. SlotInv' /\ ClientInv'
    BY <1>0, <2>1 DEF SlotInv, SlotOK, Answered, ClientInv, ClientOK, slotVars
  <2>6. \A i \in 1..Len(backlog') : i \in 1..Len(backlog) \/ i = Len(backlog) + 1
    BY <2>2
  <2>7. conn' = conn
    BY <2>1 DEF slotVars
  <2>8. PlaceInv'
    BY <1>0, <2>2, <2>3, <2>6, <2>7 DEF PlaceInv
  <2> QED BY <2>4, <2>5, <2>8 DEF WebInv
<1>2. CASE SendRest(c)
  <2>1. /\ UNCHANGED <<backlog, slotVars, asked, got, ended, gone, bounds>> /\ rest[c]
        /\ rest' = [rest EXCEPT ![c] = FALSE] /\ wire' = [wire EXCEPT ![c] = "whole"]
    BY <1>2 DEF SendRest
  <2>2. TypeOK'
    BY <1>0, <2>1 DEF TypeOK, SlotTypes, ClientTypes, slotVars, bounds
  <2>3. ASSUME NEW t \in Slots
        PROVE  SlotOK(t)'
    <3>1. SlotOK(t) /\ UNCHANGED <<conn, state, streams, ptr, served, asked, ended>>
          /\ conn[t] \in Clients \cup {None}
      BY <1>0, <2>1 DEF SlotInv, slotVars, SlotTypes
    <3>2. state[t] = "sending" => conn[t] # c
      BY <2>1, <3>1 DEF SlotOK, Answered
    <3>3. state[t] = "sending" => /\ wire'[conn[t]] = wire[conn[t]]
                                  /\ rest'[conn[t]] = rest[conn[t]]
      BY <1>0, <2>1, <3>1, <3>2 DEF SlotOK, ClientTypes
    <3> QED BY <3>1, <3>3 DEF SlotOK, Answered
  <2>4. ClientInv'
    BY <1>0, <2>1 DEF ClientInv, ClientOK, ClientTypes
  <2>5. PlaceInv'
    BY <1>0, <2>1 DEF PlaceInv, slotVars
  <2> QED BY <2>2, <2>3, <2>4, <2>5 DEF WebInv, SlotInv
<1>3. CASE Leave(c)
  <2>1. /\ UNCHANGED <<backlog, slotVars, asked, wire, rest, got, ended, requests>>
        /\ leaves < MaxLeave /\ gone' = [gone EXCEPT ![c] = TRUE] /\ leaves' = leaves + 1
    BY <1>3 DEF Leave
  <2>2. TypeOK'
    <3>1. leaves' \in 0..MaxLeave
      BY <1>0, <2>1
    <3>2. SlotTypes' /\ ClientTypes'
      BY <1>0, <2>1 DEF SlotTypes, ClientTypes, slotVars
    <3> QED BY <1>0, <2>1, <3>1, <3>2 DEF TypeOK
  <2>3. UNCHANGED <<backlog, conn, state, streams, ptr, served, asked, wire, rest, got, ended>>
    BY <2>1 DEF slotVars
  <2>4. SlotInv' /\ ClientInv' /\ PlaceInv'
    <3>1. SlotInv'
      BY <1>0, <2>3 DEF SlotInv, SlotOK, Answered
    <3>2. ClientInv'
      BY <1>0, <2>3 DEF ClientInv, ClientOK
    <3>3. PlaceInv'
      BY <1>0, <2>3 DEF PlaceInv
    <3> QED BY <3>1, <3>2, <3>3
  <2> QED BY <2>2, <2>4 DEF WebInv
<1>4. ASSUME NEW r \in Requests, Ask(c, r)
      PROVE  WebInv'
  <2>1. PICK part \in BOOLEAN : /\ rest' = [rest EXCEPT ![c] = part]
                                /\ wire' = [wire EXCEPT ![c] = IF part THEN "part" ELSE "whole"]
    BY <1>4 DEF Ask
  <2>2. /\ UNCHANGED <<backlog, slotVars, gone, leaves>> /\ ~Waits(c)
        /\ requests < MaxRequest /\ requests' = requests + 1
        /\ asked' = [asked EXCEPT ![c] = r] /\ got' = [got EXCEPT ![c] = <<>>]
        /\ ended' = [ended EXCEPT ![c] = "no"]
    BY <1>4 DEF Ask
  <2>3. TypeOK'
    <3>1. ClientTypes'
      BY <1>0, <2>1, <2>2, NothingSent DEF ClientTypes
    <3>2. SlotTypes' /\ backlog' \in Seq(Clients) /\ leaves' \in 0..MaxLeave
      BY <1>0, <2>2 DEF SlotTypes, slotVars
    <3>3. requests' \in 0..MaxRequest
      BY <1>0, <2>2
    <3> QED BY <3>1, <3>2, <3>3 DEF TypeOK
  <2>4. ASSUME NEW t \in Slots
        PROVE  SlotOK(t)'
    <3>1. SlotOK(t) /\ UNCHANGED <<conn, state, streams, ptr, served>>
          /\ conn[t] \in Clients \cup {None}
      BY <1>0, <2>2 DEF SlotInv, slotVars, SlotTypes
    <3>2. state[t] = "sending" => conn[t] # c
      BY <2>2, <3>1 DEF SlotOK, Answered, Waits
    <3>3. state[t] = "sending" => /\ wire'[conn[t]] = wire[conn[t]] /\ rest'[conn[t]] = rest[conn[t]]
                                  /\ asked'[conn[t]] = asked[conn[t]]
                                  /\ ended'[conn[t]] = ended[conn[t]]
      BY <1>0, <2>1, <2>2, <3>1, <3>2 DEF SlotOK, ClientTypes
    <3> QED BY <3>1, <3>3 DEF SlotOK, Answered
  <2>5. ClientInv'
    <3>1. r # None
      BY NoneAssumption
    <3> QED BY <1>0, <2>1, <2>2, <3>1 DEF ClientInv, ClientOK, ClientTypes
  <2>6. PlaceInv'
    BY <1>0, <2>2 DEF PlaceInv, slotVars
  <2> QED BY <2>3, <2>4, <2>5, <2>6 DEF WebInv, SlotInv
<1> QED BY <1>1, <1>2, <1>3, <1>4

(* Nobody is connected at first.                                             *)
LEMMA InitWeb == Init => WebInv
<1> SUFFICES ASSUME Init
             PROVE  WebInv
  OBVIOUS
<1>1. KeepAlive \in Nat /\ 0 \in 0..KeepAlive /\ 0 < KeepAlive /\ MaxRequest \in Nat /\ MaxLeave \in Nat
  BY BoundsAssumption
<1>2. SlotTypes
  BY <1>1, NothingSent DEF Init, SlotTypes
<1>3. ClientTypes
  BY NothingSent DEF Init, ClientTypes
<1>4. backlog \in Seq(Clients) /\ Len(backlog) = 0
  BY EmptySeq DEF Init
<1>5. TypeOK
  <2>1. requests \in 0..MaxRequest /\ leaves \in 0..MaxLeave
    <3>1. requests = 0 /\ leaves = 0
      BY DEF Init
    <3> QED BY <1>1, <3>1
  <2> QED BY <1>2, <1>3, <1>4, <2>1 DEF TypeOK
<1>6. SlotInv /\ ClientInv
  BY <1>1 DEF Init, SlotInv, SlotOK, ClientInv, ClientOK
<1>7. PlaceInv
  <2>1. 1..Len(backlog) = {}
    BY <1>4
  <2>2. \A s \in Slots : conn[s] = None
    BY DEF Init
  <2> QED BY <2>1, <2>2 DEF PlaceInv
<1> QED BY <1>5, <1>6, <1>7 DEF WebInv

(* Nothing changes.                                                          *)
LEMMA StutterWeb ==
  ASSUME WebInv, UNCHANGED vars
  PROVE  WebInv'
<1>1. UNCHANGED <<backlog, conn, state, streams, closes, ptr, data, late, served, asked, wire, rest, got,
                  ended, gone, requests, leaves>>
  BY DEF vars, slotVars, clientVars, bounds
<1>2. TypeOK'
  BY <1>1 DEF WebInv, TypeOK, SlotTypes, ClientTypes
<1>3. SlotInv' /\ ClientInv'
  BY <1>1 DEF WebInv, SlotInv, SlotOK, Answered, ClientInv, ClientOK
<1>4. PlaceInv'
  BY <1>1 DEF WebInv, PlaceInv
<1> QED BY <1>2, <1>3, <1>4 DEF WebInv

(* Every step.                                                               *)
LEMMA NextWeb ==
  ASSUME WebInv, [Next]_vars
  PROVE  WebInv'
<1>1. ASSUME NEW s \in Slots,
             \/ Expire(s) \/ ReadEnd(s) \/ WriteFails(s) \/ WriteEnd(s)
             \/ (Load(s) /\ Handler(ptr[s]).data = <<>>)
      PROVE  WebInv'
  <2>1. UNCHANGED <<backlog, bounds>> /\ conn[s] \in Clients
    BY <1>1, Endings
  <2>2. PICK stream \in BOOLEAN, close \in BOOLEAN, how \in {"eof", "cut"} :
          Ended(s, stream, close, how) /\ Ending(s, stream, close, how)
    BY <1>1, Endings
  <2> QED BY <2>1, <2>2, EndingsKeep
<1>2. ASSUME NEW s \in Slots, ReadStream(s) \/ ReadOther(s)
      PROVE  WebInv'
  <2>1. /\ UNCHANGED <<backlog, bounds>> /\ conn[s] \in Clients /\ Reading(s)
        /\ asked[conn[s]] \in Requests
    BY <1>2, Beginnings
  <2>2. ASSUME NEW x \in Contexts \cup {None}, NEW first \in Seq(Item),
               Begun(s, asked[conn[s]], x, first), Beginning(s, x, first)
        PROVE  WebInv'
    BY <2>1, <2>2, BeginningsKeep
  <2>3. ASSUME NEW x \in Contexts \cup {None}, Missed(s, x)
        PROVE  WebInv'
    BY <2>1, <2>3, MissingKeeps
  <2> QED BY <1>2, <2>2, <2>3, Beginnings
<1>3. ASSUME NEW s \in Slots,
             \/ Elapse(s) \/ ReadPart(s) \/ Write(s) \/ (Load(s) /\ Handler(ptr[s]).data # <<>>)
             \/ Accept(s) \/ Evict(s)
      PROVE  WebInv'
  BY <1>3, OthersKeep
<1>4. ASSUME NEW s \in Slots, Reset(s)
      PROVE  WebInv'
  BY <1>4, ResetKeeps
<1>5. ASSUME NEW c \in Clients,
             Connect(c) \/ SendRest(c) \/ Leave(c) \/ \E r \in Requests : Ask(c, r)
      PROVE  WebInv'
  BY <1>5, ClientsKeep
<1>6. CASE UNCHANGED vars
  BY <1>6, StutterWeb
<1>7. CASE Next
  <2>1. ASSUME NEW s \in Slots, Elapse(s) \/ Serve(s)
        PROVE  WebInv'
    <3>1. CASE Load(s)
      BY <1>1, <1>3, <3>1, Zenon
    <3>2. CASE Expire(s) \/ ReadEnd(s) \/ WriteFails(s) \/ WriteEnd(s)
      BY <1>1, <3>2, Zenon
    <3>3. CASE ReadStream(s) \/ ReadOther(s)
      BY <1>2, <3>3
    <3>4. CASE Reset(s)
      BY <1>4, <3>4
    <3>5. CASE Elapse(s) \/ ReadPart(s) \/ Write(s)
      BY <1>3, <3>5, Zenon
    <3> QED BY <2>1, <3>1, <3>2, <3>3, <3>4, <3>5 DEF Serve
  <2>2. ASSUME Take
        PROVE  WebInv'
    BY <1>3, <2>2 DEF Take
  <2> QED BY <1>5, <1>7, <2>1, <2>2 DEF Next
<1> QED BY <1>6, <1>7

(* The server keeps its bounds, whoever asks for what and leaves when.       *)
THEOREM TypeCorrect == Spec => []TypeOK
<1>1. WebInv /\ [Next]_vars => WebInv'
  BY NextWeb
<1>2. WebInv => TypeOK
  BY DEF WebInv
<1> QED BY InitWeb, <1>1, <1>2, PTL DEF Spec

-----------------------------------------------------------------------------
(* Open files. *)

(* No connection expires while an answer is sent.                            *)
NoStall == "sending" \notin Stalls

(* Only a download that is running has a file.                               *)
FileOK(s) ==
  /\ ptr[s] # None => conn[s] # None /\ streams[s]
  /\ late[s] => state[s] # "sending"
FileInv == \A s \in Slots : FileOK(s)

(* The other connections are as they were.                                   *)
LEMMA FilesKept ==
  ASSUME FileInv, NEW s \in Slots, NEW c, Touches(s, c), FileOK(s)'
  PROVE  FileInv'
<1>1. ASSUME NEW t \in Slots \ {s}
      PROVE  FileOK(t)'
  <2>1. FileOK(t) /\ SlotSame(t)
    BY DEF FileInv, Touches
  <2> QED BY <2>1 DEF FileOK, SlotSame
<1> QED BY <1>1 DEF FileInv

(* Every end of a connection leaves no file, as a download is no more there  *)
(* when its connection expires.                                              *)
LEMMA EndingsClose ==
  ASSUME WebInv, FileInv, NEW s \in Slots, conn[s] \in Clients,
         NEW stream \in BOOLEAN, NEW close \in BOOLEAN, NEW how \in {"eof", "cut"},
         Ended(s, stream, close, how), Ending(s, stream, close, how)
  PROVE  FileInv'
<1>1. FileOK(s) /\ SlotOK(s)
  BY DEF WebInv, SlotInv, FileInv
<1>2. stream \/ ptr[s] = None
  <2>1. late[s] => ~streams[s]
    BY <1>1 DEF FileOK, SlotOK
  <2>2. stream \/ ~streams[s]
    BY <2>1 DEF Ending
  <2> QED BY <1>1, <2>2 DEF FileOK
<1>3. FileOK(s)'
  BY <1>2 DEF FileOK, Ended
<1> QED BY <1>3, FilesKept DEF Ended

(* What a connection answers is a download when it has a file,               *)
LEMMA BeginningsOpen ==
  ASSUME WebInv, FileInv, NEW s \in Slots, Reading(s), conn[s] \in Clients,
         NEW x \in Contexts \cup {None}, NEW first \in Seq(Item),
         Begun(s, asked[conn[s]], x, first), Beginning(s, x, first)
  PROVE  FileInv'
<1>1. FileOK(s) /\ SlotOK(s)
  BY DEF WebInv, SlotInv, FileInv
<1>2. ptr[s] = None /\ conn[s] # None
  BY <1>1 DEF Reading, FileOK, SlotOK
<1>3. x # None => IsStream(asked[conn[s]])
  BY <1>2 DEF Beginning
<1>4. FileOK(s)'
  BY <1>2, <1>3 DEF FileOK, Begun
<1> QED BY <1>4, FilesKept DEF Begun

(* and a request without an answer has opened none.                          *)
LEMMA MissingCloses ==
  ASSUME WebInv, FileInv, FilesGiven, NEW s \in Slots, conn[s] \in Clients, Reading(s),
         asked[conn[s]] \in Requests,
         NEW x \in Contexts \cup {None}, Missed(s, x), Missing(s, x)
  PROVE  FileInv'
<1>1. FileOK(s) /\ SlotOK(s)
  BY DEF WebInv, SlotInv, FileInv
<1>2. ptr[s] = None
  BY <1>1 DEF Reading, FileOK, SlotOK
<1>3. x = None
  <2>1. IsStream(asked[conn[s]]) => Handler(NewContext(asked[conn[s]])).data # <<>>
    BY FirstPiece
  <2> QED BY <1>2, <2>1 DEF Missing
<1>4. FileOK(s)'
  BY <1>3 DEF FileOK, Missed
<1> QED BY <1>4, FilesKept DEF Missed

(* The other steps of a connection leave its file with it.                   *)
LEMMA OthersHold ==
  ASSUME WebInv, FileInv, NoStall, NEW s \in Slots,
         \/ Elapse(s) \/ ReadPart(s) \/ Write(s) \/ (Load(s) /\ Handler(ptr[s]).data # <<>>)
         \/ Accept(s) \/ Evict(s)
  PROVE  FileInv'
<1>1. FileOK(s) /\ SlotOK(s) /\ SlotTypes
  BY DEF WebInv, SlotInv, FileInv, TypeOK
<1>2. PICK c \in Clients : Touches(s, c)
  BY OtherSteps
<1>3. FileOK(s)'
  <2>1. CASE Elapse(s)
    BY <1>1, <2>1 DEF Elapse, FileOK, NoStall, SlotTypes
  <2>2. CASE ReadPart(s)
    BY <1>1, <2>2 DEF ReadPart, FileOK, SlotTypes
  <2>3. CASE Write(s)
    BY <1>1, <2>3 DEF Write, FileOK, SlotTypes
  <2>4. CASE Load(s) /\ Handler(ptr[s]).data # <<>>
    BY <1>1, <2>4 DEF Load, FileOK, SlotOK, SlotTypes
  <2>5. CASE Accept(s)
    BY <1>1, <2>5 DEF Accept, Fresh, FileOK, SlotTypes
  <2>6. CASE Evict(s)
    <3>1. ptr[s] = None
      BY <1>1, <2>6 DEF Evict, FileOK, SlotOK
    <3> QED BY <1>1, <2>6, <3>1 DEF Evict, Fresh, FileOK, SlotTypes
  <2> QED BY <2>1, <2>2, <2>3, <2>4, <2>5, <2>6
<1> QED BY <1>2, <1>3, FilesKept

(* Clients touch no file.                                                    *)
LEMMA ClientsHold ==
  ASSUME FileInv, UNCHANGED slotVars
  PROVE  FileInv'
BY DEF FileInv, FileOK, slotVars

(* Every step.                                                               *)
LEMMA NextFiles ==
  ASSUME WebInv, FileInv, FilesGiven, NoStall, [Next]_vars
  PROVE  FileInv'
<1>1. ASSUME NEW s \in Slots,
             \/ Expire(s) \/ ReadEnd(s) \/ WriteFails(s) \/ WriteEnd(s)
             \/ (Load(s) /\ Handler(ptr[s]).data = <<>>)
      PROVE  FileInv'
  <2>1. conn[s] \in Clients
    BY <1>1, Endings
  <2>2. PICK stream \in BOOLEAN, close \in BOOLEAN, how \in {"eof", "cut"} :
          Ended(s, stream, close, how) /\ Ending(s, stream, close, how)
    BY <1>1, Endings
  <2> QED BY <2>1, <2>2, EndingsClose
<1>2. ASSUME NEW s \in Slots, ReadStream(s) \/ ReadOther(s)
      PROVE  FileInv'
  <2>1. conn[s] \in Clients /\ Reading(s) /\ asked[conn[s]] \in Requests
    BY <1>2, Beginnings
  <2>2. ASSUME NEW x \in Contexts \cup {None}, NEW first \in Seq(Item),
               Begun(s, asked[conn[s]], x, first), Beginning(s, x, first)
        PROVE  FileInv'
    BY <2>1, <2>2, BeginningsOpen
  <2>3. ASSUME NEW x \in Contexts \cup {None}, Missed(s, x), Missing(s, x)
        PROVE  FileInv'
    BY <2>1, <2>3, MissingCloses
  <2> QED BY <1>2, <2>2, <2>3, Beginnings
<1>3. ASSUME NEW s \in Slots,
             \/ Elapse(s) \/ ReadPart(s) \/ Write(s) \/ (Load(s) /\ Handler(ptr[s]).data # <<>>)
             \/ Accept(s) \/ Evict(s)
      PROVE  FileInv'
  BY <1>3, OthersHold
<1>4. ASSUME NEW s \in Slots, Reset(s)
      PROVE  FileInv'
  BY <1>4 DEF Reset, FileInv, FileOK
<1>5. ASSUME NEW c \in Clients,
             Connect(c) \/ SendRest(c) \/ Leave(c) \/ \E r \in Requests : Ask(c, r)
      PROVE  FileInv'
  <2>1. UNCHANGED slotVars
    BY <1>5 DEF Connect, SendRest, Leave, Ask
  <2> QED BY <2>1, ClientsHold
<1>6. CASE UNCHANGED vars
  BY <1>6, ClientsHold DEF vars
<1>7. CASE Next
  <2>1. ASSUME NEW s \in Slots, Elapse(s) \/ Serve(s)
        PROVE  FileInv'
    <3>1. CASE Load(s)
      BY <1>1, <1>3, <3>1, Zenon
    <3>2. CASE Expire(s) \/ ReadEnd(s) \/ WriteFails(s) \/ WriteEnd(s)
      BY <1>1, <3>2, Zenon
    <3>3. CASE ReadStream(s) \/ ReadOther(s)
      BY <1>2, <3>3
    <3>4. CASE Reset(s)
      BY <1>4, <3>4
    <3>5. CASE Elapse(s) \/ ReadPart(s) \/ Write(s)
      BY <1>3, <3>5, Zenon
    <3> QED BY <2>1, <3>1, <3>2, <3>3, <3>4, <3>5 DEF Serve
  <2>2. ASSUME Take
        PROVE  FileInv'
    BY <1>3, <2>2 DEF Take
  <2> QED BY <1>5, <1>7, <2>1, <2>2 DEF Next
<1> QED BY <1>6, <1>7

(* Every way a connection ends closes its file, if no download is given up   *)
(* as too slow and every file has something: those two are the ways to       *)
(* leave a file open that the code has.                                      *)
THEOREM FilesAreClosed == FilesGiven /\ NoStall => (Spec => []FilesClosed)
<1> SUFFICES ASSUME FilesGiven, NoStall
             PROVE  Spec => []FilesClosed
  OBVIOUS
<1>1. Init => WebInv /\ FileInv
  BY InitWeb DEF Init, FileInv, FileOK
<1>2. WebInv /\ FileInv /\ [Next]_vars => (WebInv /\ FileInv)'
  BY NextWeb, NextFiles
<1>3. FileInv => FilesClosed
  BY DEF FileInv, FileOK, FilesClosed
<1> QED BY <1>1, <1>2, <1>3, PTL DEF Spec

-----------------------------------------------------------------------------
(* What the clients receive. *)

(* The items g are the beginning of the answer to r, the items d go on.      *)
Starts(g, r) ==
  Len(g) <= BodyLen(r) /\ \A i \in 1..Len(g) : g[i] = Part(r, i)
Follows(g, d, r) ==
  Len(g) + Len(d) <= BodyLen(r) /\ \A i \in 1..Len(d) : d[i] = Part(r, Len(g) + i)

(* A client has the beginning of its answer, or all of it; what is still to  *)
(* be sent to it comes next, and the context of the download stands where    *)
(* that ends.                                                                *)
GotOK(c) ==
  asked[c] # None => /\ Starts(got[c], asked[c])
                     /\ ended[c] = "eof" => Len(got[c]) = BodyLen(asked[c])
Reaches(s, c) ==
  LET n == Len(got[c]) + Len(data[s])
  IN  /\ Follows(got[c], data[s], asked[c])
      /\ streams[s] => Good(ptr[s], asked[c]) /\ Off(ptr[s]) = n
      /\ ~streams[s] => n = BodyLen(asked[c])
SentOK(s) == state[s] = "sending" => Reaches(s, conn[s])
AnswerInv == (\A c \in Clients : GotOK(c)) /\ (\A s \in Slots : SentOK(s))

(* An answer has a length.                                                   *)
LEMMA BodyLenTyped ==
  ASSUME NEW r \in Requests
  PROVE  BodyLen(r) \in Nat /\ (~IsStream(r) => BodyLen(r) = 1 /\ \A i : Part(r, i) = Text)
<1>1. CASE r.kind = "log"
  BY <1>1, Sizes DEF BodyLen, IsStream
<1>2. CASE r.kind = "data"
  <2>1. r.to \in 1..Blocks /\ Blocks \in Nat
    BY <1>2, RequestIs, Sizes DEF IsStream
  <2>2. BodyLen(r) = r.to + 2
    BY <1>2 DEF BodyLen
  <2> QED BY <1>2, <2>1, <2>2 DEF IsStream
<1>3. CASE r.kind = "sniff"
  <2>1. r.to \in 1..Blocks /\ Blocks \in Nat
    BY <1>3, RequestIs, Sizes DEF IsStream
  <2>2. BodyLen(r) = r.to + 1 - (IF r.from = 0 THEN 0 ELSE 1)
    BY <1>3 DEF BodyLen
  <2> QED BY <1>3, <2>1, <2>2 DEF IsStream
<1>4. CASE ~IsStream(r)
  BY <1>4 DEF BodyLen, Part, IsStream
<1> QED BY <1>1, <1>2, <1>3, <1>4 DEF IsStream

(* A step of one connection and its client leaves the others as they were.   *)
LEMMA AnswersKept ==
  ASSUME WebInv, AnswerInv, NEW s \in Slots, NEW c \in Clients, Touches(s, c),
         \A t \in Slots \ {s} : conn[t] # c, SentOK(s)', GotOK(c)'
  PROVE  AnswerInv'
<1>1. ASSUME NEW d \in Clients \ {c}
      PROVE  GotOK(d)'
  <2>1. GotOK(d) /\ ClientSame(d)
    BY DEF AnswerInv, Touches
  <2> QED BY <2>1 DEF GotOK, ClientSame
<1>2. ASSUME NEW t \in Slots \ {s}
      PROVE  SentOK(t)'
  <2>1. SentOK(t) /\ SlotSame(t) /\ SlotOK(t) /\ conn[t] # c
    BY DEF AnswerInv, WebInv, SlotInv, Touches
  <2>2. CASE state[t] # "sending"
    BY <2>1, <2>2 DEF SentOK, SlotSame
  <2>3. CASE state[t] = "sending"
    <3>1. PICK d \in Clients : d = conn[t]
      BY <2>1, <2>3 DEF SlotOK, WebInv, TypeOK, SlotTypes
    <3>2. ClientSame(d)
      BY <2>1, <3>1 DEF Touches
    <3>3. Reaches(t, d)
      BY <2>1, <2>3, <3>1 DEF SentOK
    <3>4. Reaches(t, d)'
      BY <2>1, <3>2, <3>3 DEF Reaches, SlotSame, ClientSame
    <3> QED BY <2>1, <3>1, <3>4 DEF SentOK, SlotSame
  <2> QED BY <2>2, <2>3
<1> QED BY <1>1, <1>2 DEF AnswerInv

(* No other connection has the same client.                                  *)
LEMMA OwnClient ==
  ASSUME WebInv, NEW s \in Slots, conn[s] # None
  PROVE  \A t \in Slots \ {s} : conn[t] # conn[s]
BY DEF WebInv, PlaceInv

(* A client whose answer came to its end has all of it.                      *)
LEMMA EndingsAnswer ==
  ASSUME WebInv, AnswerInv, FilesGiven, WindowsFit, NEW s \in Slots, conn[s] \in Clients,
         NEW stream \in BOOLEAN, NEW close \in BOOLEAN, NEW how \in {"eof", "cut"},
         Ended(s, stream, close, how), Ending(s, stream, close, how)
  PROVE  AnswerInv'
<1>1. PICK c \in Clients : c = conn[s]
  OBVIOUS
<1>2. GotOK(c) /\ SentOK(s) /\ SlotOK(s) /\ ClientTypes /\ SlotTypes /\ c # None
  BY NoneAssumption DEF AnswerInv, WebInv, SlotInv, TypeOK
<1>3. /\ Touches(s, c) /\ UNCHANGED <<asked, got>> /\ state'[s] = "idle"
      /\ ended'[c] = IF ended[c] = "no" THEN how ELSE ended[c]
  BY <1>1 DEF Ended
<1>4. SentOK(s)'
  BY <1>3 DEF SentOK
<1>5. asked[c] # None /\ how = "eof" => Len(got[c]) = BodyLen(asked[c])
  <2> SUFFICES ASSUME asked[c] # None, how = "eof"
               PROVE  Len(got[c]) = BodyLen(asked[c])
    OBVIOUS
  <2>1. state[s] = "sending" /\ data[s] = <<>> /\ Reaches(s, c) /\ Answered(s, c)
    BY <1>1, <1>2 DEF Ending, SentOK, SlotOK
  <2>2. asked[c] \in Requests /\ Len(got[c]) \in Nat
    BY <1>2, LenProperties DEF ClientTypes
  <2>3. Len(got[c]) + Len(data[s]) = Len(got[c])
    BY <2>1, <2>2
  <2>4. CASE streams[s]
    <3>1. Handler(ptr[s]).data = <<>> /\ IsStream(asked[c])
      BY <2>1, <2>4 DEF Ending, Answered
    <3>2. Good(ptr[s], asked[c]) /\ Off(ptr[s]) = Len(got[c])
      BY <2>1, <2>3, <2>4 DEF Reaches
    <3>3. NextPiece(ptr[s], asked[c], Handler(ptr[s]))
      BY <2>2, <3>1, <3>2, HandlerPiece
    <3> QED BY <3>1, <3>2, <3>3 DEF NextPiece
  <2>5. CASE ~streams[s]
    BY <2>1, <2>3, <2>5 DEF Reaches
  <2> QED BY <2>4, <2>5
<1>6. GotOK(c)'
  BY <1>2, <1>3, <1>5 DEF GotOK
<1> QED BY <1>1, <1>2, <1>3, <1>4, <1>6, OwnClient, AnswersKept

(* A request that is read has no answer yet, and what begins is its answer.  *)
LEMMA BeginningsAnswer ==
  ASSUME WebInv, FileInv, AnswerInv, FilesGiven, WindowsFit, NEW s \in Slots, Reading(s),
         conn[s] \in Clients, asked[conn[s]] \in Requests,
         NEW x \in Contexts \cup {None}, NEW first \in Seq(Item),
         Begun(s, asked[conn[s]], x, first), Beginning(s, x, first)
  PROVE  AnswerInv'
<1>1. PICK c \in Clients : c = conn[s]
  OBVIOUS
<1>2. PICK r \in Requests : r = asked[c]
  BY <1>1
<1>3. GotOK(c) /\ FileOK(s) /\ SlotOK(s) /\ ClientOK(c) /\ c # None
  BY NoneAssumption DEF AnswerInv, FileInv, WebInv, SlotInv, ClientInv
<1>4. ptr[s] = None /\ got[c] = <<>>
  BY <1>1, <1>3 DEF Reading, FileOK, SlotOK, ClientOK
<1>5. /\ Touches(s, c) /\ UNCHANGED <<asked, got, ended>> /\ state'[s] = "sending"
      /\ streams'[s] <=> IsStream(r)
      /\ ptr'[s] = x /\ data'[s] = first /\ conn'[s] = c
  BY <1>1, <1>2 DEF Begun
<1>6. /\ Follows(<<>>, first, r)
      /\ IsStream(r) => Good(x, r) /\ Off(x) = Len(first)
      /\ ~IsStream(r) => Len(first) = BodyLen(r)
  <2>1. CASE IsStream(r)
    <3> DEFINE y == NewContext(r)
    <3>1. x = Handler(y).ctx /\ first = Handler(y).data
      BY <1>1, <1>2, <1>4, <2>1 DEF Beginning, IsStream
    <3>2. Good(y, r) /\ Off(y) = 0
      BY <2>1, FirstGood
    <3> HIDE DEF y
    <3>3. NextPiece(y, r, Handler(y))
      BY <2>1, <3>2, HandlerPiece
    <3>4. /\ Good(x, r) /\ Off(x) = 0 + Len(first) /\ Off(x) <= BodyLen(r)
          /\ \A i \in 1..Len(first) : first[i] = Part(r, 0 + i)
      BY <3>1, <3>2, <3>3 DEF NextPiece
    <3>5. Len(first) \in Nat /\ 0 + Len(first) = Len(first) /\ Len(<<>>) = 0
      BY LenProperties
    <3> QED BY <2>1, <3>4, <3>5 DEF Follows
  <2>2. CASE ~IsStream(r)
    <3>1. first = <<Text>>
      BY <1>1, <1>2, <2>2 DEF Beginning
    <3>2. Len(first) = 1 /\ first[1] = Text /\ Len(<<>>) = 0
      BY <3>1
    <3>3. BodyLen(r) = 1 /\ \A i : Part(r, i) = Text
      BY <2>2, BodyLenTyped
    <3> QED BY <2>2, <3>2, <3>3 DEF Follows
  <2> QED BY <2>1, <2>2
<1>7. Reaches(s, c)'
  <2>1. asked'[c] = r /\ got'[c] = <<>> /\ data'[s] = first /\ Len(<<>>) = 0 /\ Len(first) \in Nat
    BY <1>2, <1>4, <1>5, LenProperties
  <2>2. Len(got'[c]) + Len(data'[s]) = Len(first)
    BY <2>1
  <2> QED BY <1>5, <1>6, <2>1, <2>2 DEF Reaches
<1>8. SentOK(s)'
  BY <1>5, <1>7 DEF SentOK
<1>9. GotOK(c)'
  BY <1>3, <1>5 DEF GotOK
<1> QED BY <1>1, <1>3, <1>5, <1>8, <1>9, OwnClient, AnswersKept

(* A request that has no answer is cut.                                      *)
LEMMA MissingAnswers ==
  ASSUME WebInv, AnswerInv, NEW s \in Slots, conn[s] \in Clients,
         NEW x \in Contexts \cup {None}, Missed(s, x)
  PROVE  AnswerInv'
<1>1. PICK c \in Clients : c = conn[s]
  OBVIOUS
<1>2. GotOK(c) /\ c # None
  BY NoneAssumption DEF AnswerInv
<1>3. /\ Touches(s, c) /\ UNCHANGED <<asked, got>> /\ state'[s] = "idle" /\ ended'[c] = "cut"
  BY <1>1 DEF Missed
<1>4. SentOK(s)' /\ GotOK(c)'
  BY <1>2, <1>3 DEF SentOK, GotOK
<1> QED BY <1>1, <1>2, <1>3, <1>4, OwnClient, AnswersKept

(* Each other step of a connection sends no more than the next of the answer *)
(* and reads no more than the next of the file.                              *)
LEMMA OthersAnswer ==
  ASSUME WebInv, AnswerInv, FilesGiven, WindowsFit, NEW s \in Slots, NEW c \in Clients,
         Touches(s, c), c = conn[s], SlotTypes', ClientTypes',
         Elapse(s) \/ ReadPart(s) \/ Write(s) \/ (Load(s) /\ Handler(ptr[s]).data # <<>>)
  PROVE  AnswerInv'
<1>1. /\ GotOK(c) /\ SentOK(s) /\ SlotOK(s) /\ ClientTypes /\ SlotTypes /\ c # None
  BY NoneAssumption DEF AnswerInv, WebInv, SlotInv, TypeOK
<1>2. SentOK(s)' /\ GotOK(c)'
  <2>1. CASE Elapse(s)
    <3>1. UNCHANGED <<conn, state, streams, ptr, data, asked, got, ended>>
      BY <2>1 DEF Elapse, clientVars
    <3> QED BY <1>1, <3>1 DEF SentOK, Reaches, GotOK
  <2>2. CASE ReadPart(s)
    <3>1. UNCHANGED <<asked, got, ended>> /\ state'[s] = "receiving"
      BY <1>1, <2>2 DEF ReadPart, SlotTypes
    <3> QED BY <1>1, <3>1 DEF SentOK, GotOK
  <2>3. CASE Write(s)
    <3>1. /\ UNCHANGED <<conn, state, streams, ptr, asked, ended>>
          /\ state[s] = "sending"
      BY <2>3 DEF Write
    <3>2. PICK n \in 1..Len(data[s]) :
            /\ got' = [got EXCEPT ![c] = got[c] \o SubSeq(data[s], 1, n)]
            /\ data' = [data EXCEPT ![s] = SubSeq(data[s], n + 1, Len(data[s]))]
      BY <2>3 DEF Write
    <3> DEFINE g == got[c]
               d == data[s]
               r == asked[c]
    <3>3. /\ Reaches(s, c) /\ Answered(s, c) /\ asked[c] # None
      BY <1>1, <3>1 DEF SentOK, SlotOK, Answered
    <3>4. g \in Seq(Item) /\ d \in Seq(Item) /\ r \in Requests
      BY <1>1, <3>3 DEF SlotTypes, ClientTypes
    <3>5. got'[c] = g \o SubSeq(d, 1, n) /\ data'[s] = SubSeq(d, n + 1, Len(d))
      BY <1>1, <3>2 DEF SlotTypes, ClientTypes
    <3> DEFINE g2 == got'[c]
               d2 == data'[s]
    <3>6. /\ Len(g) \in Nat /\ Len(d) \in Nat /\ n \in Nat /\ n <= Len(d)
          /\ Len(g2) = Len(g) + n /\ Len(d2) = Len(d) - n
          /\ \A i \in 1..Len(g) : g2[i] = g[i]
          /\ \A i \in 1..n : g2[Len(g) + i] = d[i]
          /\ \A i \in 1..(Len(d) - n) : d2[i] = d[n + i]
      BY <3>4, <3>5, SentPart
    <3>7. /\ Starts(g, r) /\ Follows(g, d, r) /\ BodyLen(r) \in Nat
          /\ streams[s] => Good(ptr[s], r) /\ Off(ptr[s]) = Len(g) + Len(d)
          /\ ~streams[s] => Len(g) + Len(d) = BodyLen(r)
          /\ ended[c] = "no"
      BY <1>1, <3>3, <3>4, BodyLenTyped DEF GotOK, Reaches, Answered
    <3>8. asked'[c] = r /\ UNCHANGED <<conn, state, streams, ptr, ended>>
      BY <3>1
    <3> HIDE DEF g, d, r, g2, d2
    <3>9. Len(g2) + Len(d2) = Len(g) + Len(d)
      BY <3>6
    <3>10. Starts(g2, r)
      <4>1. Len(g2) <= BodyLen(r)
        BY <3>6, <3>7 DEF Follows
      <4>2. ASSUME NEW i \in 1..Len(g2)
            PROVE  g2[i] = Part(r, i)
        <5>1. CASE i <= Len(g)
          <6>1. i \in 1..Len(g)
            BY <3>6, <5>1
          <6> QED BY <3>6, <3>7, <6>1 DEF Starts
        <5>2. CASE i > Len(g)
          <6>1. PICK j \in 1..n : i = Len(g) + j
            <7>1. i - Len(g) \in 1..n /\ i = Len(g) + (i - Len(g))
              BY <3>6, <5>2
            <7> QED BY <7>1
          <6>2. j \in 1..Len(d)
            BY <3>6, <6>1
          <6> QED BY <3>6, <3>7, <6>1, <6>2 DEF Follows
        <5> QED BY <3>6, <5>1, <5>2
      <4> QED BY <4>1, <4>2 DEF Starts
    <3>11. Follows(g2, d2, r)
      <4>1. Len(g2) + Len(d2) <= BodyLen(r)
        BY <3>7, <3>9 DEF Follows
      <4>2. ASSUME NEW i \in 1..Len(d2)
            PROVE  d2[i] = Part(r, Len(g2) + i)
        <5>1. n + i \in 1..Len(d) /\ Len(g) + (n + i) = Len(g2) + i /\ i \in 1..(Len(d) - n)
          BY <3>6
        <5>2. d[n + i] = Part(r, Len(g) + (n + i))
          BY <3>7, <5>1 DEF Follows
        <5> QED BY <3>6, <5>1, <5>2
      <4> QED BY <4>1, <4>2 DEF Follows
    <3>12. GotOK(c)'
      <4>1. Starts(got'[c], asked'[c]) /\ ended'[c] # "eof"
        BY <3>7, <3>8, <3>10 DEF g2
      <4> QED BY <4>1 DEF GotOK
    <3>13. Reaches(s, c)'
      <4>1. /\ Follows(g2, d2, asked'[c])
            /\ streams'[s] => Good(ptr'[s], asked'[c]) /\ Off(ptr'[s]) = Len(g2) + Len(d2)
            /\ ~streams'[s] => Len(g2) + Len(d2) = BodyLen(asked'[c])
        BY <3>7, <3>8, <3>9, <3>11
      <4> QED BY <4>1 DEF Reaches, g2, d2
    <3>14. conn'[s] = c
      BY <3>1
    <3> QED BY <3>12, <3>13, <3>14 DEF SentOK
  <2>4. CASE Load(s) /\ Handler(ptr[s]).data # <<>>
    <3>1. /\ UNCHANGED <<conn, state, streams, asked, got, ended>>
          /\ state[s] = "sending" /\ data[s] = <<>> /\ streams[s]
          /\ data'[s] = Handler(ptr[s]).data /\ ptr'[s] = Handler(ptr[s]).ctx
      BY <1>1, <2>4 DEF Load, SlotTypes
    <3>2. Reaches(s, c) /\ Answered(s, c)
      BY <1>1, <3>1 DEF SentOK, SlotOK
    <3>3. asked[c] \in Requests /\ IsStream(asked[c]) /\ Len(got[c]) \in Nat
      BY <1>1, <3>1, <3>2, LenProperties DEF Answered, ClientTypes
    <3>4. Len(got[c]) + Len(data[s]) = Len(got[c])
      BY <3>1, <3>3
    <3>5. Good(ptr[s], asked[c]) /\ Off(ptr[s]) = Len(got[c])
      BY <3>1, <3>2, <3>4 DEF Reaches
    <3>6. NextPiece(ptr[s], asked[c], Handler(ptr[s]))
      BY <3>3, <3>5, HandlerPiece
    <3>7. Reaches(s, c)'
      <4>1. /\ Follows(got[c], data'[s], asked[c])
            /\ Good(ptr'[s], asked[c]) /\ Off(ptr'[s]) = Len(got[c]) + Len(data'[s])
        BY <3>1, <3>5, <3>6 DEF NextPiece, Follows
      <4> QED BY <3>1, <4>1 DEF Reaches
    <3>8. GotOK(c)'
      BY <1>1, <3>1 DEF GotOK
    <3>9. conn'[s] = c
      BY <3>1
    <3> QED BY <3>7, <3>8, <3>9 DEF SentOK
  <2> QED BY <2>1, <2>2, <2>3, <2>4
<1> QED BY <1>1, <1>2, OwnClient, AnswersKept

(* A client that gets a connection has no answer under way, and no answer is *)
(* under way on the one that is taken for it.                                *)
LEMMA TakesAnswer ==
  ASSUME WebInv, AnswerInv, NEW s \in Slots, Accept(s) \/ Evict(s)
  PROVE  AnswerInv'
<1>1. SlotTypes /\ ClientTypes
  BY DEF WebInv, TypeOK
<1>2. ASSUME NEW d \in Clients
      PROVE  GotOK(d)'
  <2>1. GotOK(d)
    BY DEF AnswerInv
  <2>2. UNCHANGED <<asked, got>> /\ (ended'[d] = ended[d] \/ ended'[d] = "cut")
    BY <1>1 DEF Accept, Evict, ClientTypes, clientVars
  <2> QED BY <2>1, <2>2 DEF GotOK
<1>3. ASSUME NEW t \in Slots
      PROVE  SentOK(t)'
  <2>1. CASE t = s
    BY <1>1, <2>1 DEF Accept, Evict, Fresh, SlotTypes, SentOK
  <2>2. CASE t # s
    <3>1. SentOK(t)
      BY DEF AnswerInv
    <3>2. /\ conn'[t] = conn[t] /\ state'[t] = state[t] /\ streams'[t] = streams[t]
          /\ ptr'[t] = ptr[t] /\ data'[t] = data[t] /\ UNCHANGED <<asked, got>>
      BY <1>1, <2>2 DEF Accept, Evict, Fresh, SlotTypes, clientVars
    <3> QED BY <3>1, <3>2 DEF SentOK, Reaches
  <2> QED BY <2>1, <2>2
<1> QED BY <1>2, <1>3 DEF AnswerInv

(* A restart cuts what is under way.                                         *)
LEMMA ResetAnswers ==
  ASSUME WebInv, AnswerInv, NEW s \in Slots, Reset(s)
  PROVE  AnswerInv'
<1>1. ASSUME NEW d \in Clients
      PROVE  GotOK(d)'
  <2>1. GotOK(d)
    BY DEF AnswerInv
  <2>2. UNCHANGED <<asked, got>> /\ (ended'[d] = ended[d] \/ ended'[d] = "cut")
    BY DEF Reset
  <2> QED BY <2>1, <2>2 DEF GotOK
<1>2. ASSUME NEW t \in Slots
      PROVE  SentOK(t)'
  <2>1. state'[t] = "idle"
    BY DEF Reset
  <2> QED BY <2>1 DEF SentOK
<1> QED BY <1>1, <1>2 DEF AnswerInv

(* A client asks when no answer to it is under way.                          *)
LEMMA ClientsAnswer ==
  ASSUME WebInv, AnswerInv, NEW c \in Clients,
         Connect(c) \/ SendRest(c) \/ Leave(c) \/ \E r \in Requests : Ask(c, r)
  PROVE  AnswerInv'
<1>1. CASE Connect(c) \/ SendRest(c) \/ Leave(c)
  <2>1. UNCHANGED <<conn, state, streams, ptr, data, asked, got, ended>>
    BY <1>1 DEF Connect, SendRest, Leave, slotVars
  <2> QED BY <2>1 DEF AnswerInv, GotOK, SentOK, Reaches
<1>2. ASSUME NEW r \in Requests, Ask(c, r)
      PROVE  AnswerInv'
  <2>1. /\ UNCHANGED <<conn, state, streams, ptr, data>> /\ ~Waits(c)
        /\ asked' = [asked EXCEPT ![c] = r] /\ got' = [got EXCEPT ![c] = <<>>]
        /\ ended' = [ended EXCEPT ![c] = "no"] /\ ClientTypes /\ SlotTypes
    BY <1>2 DEF Ask, slotVars, WebInv, TypeOK
  <2>2. ASSUME NEW d \in Clients
        PROVE  GotOK(d)'
    <3>1. GotOK(d) /\ BodyLen(r) \in Nat
      BY BodyLenTyped DEF AnswerInv
    <3>2. CASE d = c
      <4>1. asked'[d] = r /\ got'[d] = <<>> /\ ended'[d] = "no"
        BY <2>1, <3>2 DEF ClientTypes
      <4>2. Starts(<<>>, r)
        <5>1. Len(<<>>) = 0 /\ 1..0 = {}
          OBVIOUS
        <5> QED BY <3>1, <5>1 DEF Starts
      <4> QED BY <4>1, <4>2 DEF GotOK
    <3>3. CASE d # c
      <4>1. asked'[d] = asked[d] /\ got'[d] = got[d] /\ ended'[d] = ended[d]
        BY <2>1, <3>3 DEF ClientTypes
      <4> QED BY <3>1, <4>1 DEF GotOK
    <3> QED BY <3>2, <3>3
  <2>3. ASSUME NEW t \in Slots
        PROVE  SentOK(t)'
    <3>1. SentOK(t) /\ SlotOK(t)
      BY DEF AnswerInv, WebInv, SlotInv
    <3>2. CASE state[t] # "sending"
      BY <2>1, <3>2 DEF SentOK
    <3>3. CASE state[t] = "sending"
      <4>1. PICK d \in Clients : d = conn[t]
        BY <2>1, <3>1, <3>3 DEF SlotOK, SlotTypes
      <4>2. d # c /\ Reaches(t, d)
        BY <2>1, <3>1, <3>3, <4>1 DEF SlotOK, Answered, Waits, SentOK
      <4>3. asked'[d] = asked[d] /\ got'[d] = got[d]
        BY <2>1, <4>2 DEF ClientTypes
      <4>4. Reaches(t, d)'
        BY <2>1, <4>2, <4>3 DEF Reaches
      <4> QED BY <2>1, <4>1, <4>4 DEF SentOK
    <3> QED BY <3>2, <3>3
  <2> QED BY <2>2, <2>3 DEF AnswerInv
<1> QED BY <1>1, <1>2

(* Every step.                                                               *)
LEMMA NextAnswers ==
  ASSUME WebInv, FileInv, AnswerInv, FilesGiven, WindowsFit, [Next]_vars
  PROVE  AnswerInv'
<1>1. ASSUME NEW s \in Slots,
             \/ Expire(s) \/ ReadEnd(s) \/ WriteFails(s) \/ WriteEnd(s)
             \/ (Load(s) /\ Handler(ptr[s]).data = <<>>)
      PROVE  AnswerInv'
  <2>1. conn[s] \in Clients
    BY <1>1, Endings
  <2>2. PICK stream \in BOOLEAN, close \in BOOLEAN, how \in {"eof", "cut"} :
          Ended(s, stream, close, how) /\ Ending(s, stream, close, how)
    BY <1>1, Endings
  <2> QED BY <2>1, <2>2, EndingsAnswer
<1>2. ASSUME NEW s \in Slots, ReadStream(s) \/ ReadOther(s)
      PROVE  AnswerInv'
  <2>1. conn[s] \in Clients /\ Reading(s) /\ asked[conn[s]] \in Requests
    BY <1>2, Beginnings
  <2>2. ASSUME NEW x \in Contexts \cup {None}, NEW first \in Seq(Item),
               Begun(s, asked[conn[s]], x, first), Beginning(s, x, first)
        PROVE  AnswerInv'
    BY <2>1, <2>2, BeginningsAnswer
  <2>3. ASSUME NEW x \in Contexts \cup {None}, Missed(s, x)
        PROVE  AnswerInv'
    BY <2>1, <2>3, MissingAnswers
  <2> QED BY <1>2, <2>2, <2>3, Beginnings
<1>3. ASSUME NEW s \in Slots,
             Elapse(s) \/ ReadPart(s) \/ Write(s) \/ (Load(s) /\ Handler(ptr[s]).data # <<>>)
      PROVE  AnswerInv'
  <2>1. SlotTypes' /\ ClientTypes'
    BY <1>3, OtherSteps
  <2>2. PICK c \in Clients : Touches(s, c) /\ (c = conn[s] \/ c = conn'[s])
    BY <1>3, OtherSteps
  <2>3. conn' = conn
    BY <1>3 DEF Elapse, ReadPart, Write, Load
  <2> QED BY <1>3, <2>1, <2>2, <2>3, OthersAnswer
<1>4. ASSUME NEW s \in Slots, Reset(s)
      PROVE  AnswerInv'
  BY <1>4, ResetAnswers
<1>5. ASSUME NEW c \in Clients,
             Connect(c) \/ SendRest(c) \/ Leave(c) \/ \E r \in Requests : Ask(c, r)
      PROVE  AnswerInv'
  BY <1>5, ClientsAnswer
<1>6. CASE UNCHANGED vars
  <2>1. UNCHANGED <<conn, state, streams, ptr, data, asked, got, ended>>
    BY <1>6 DEF vars, slotVars, clientVars
  <2> QED BY <2>1 DEF AnswerInv, GotOK, SentOK, Reaches
<1>7. CASE Next
  <2>1. ASSUME NEW s \in Slots, Elapse(s) \/ Serve(s)
        PROVE  AnswerInv'
    <3>1. CASE Load(s)
      BY <1>1, <1>3, <3>1, Zenon
    <3>2. CASE Expire(s) \/ ReadEnd(s) \/ WriteFails(s) \/ WriteEnd(s)
      BY <1>1, <3>2, Zenon
    <3>3. CASE ReadStream(s) \/ ReadOther(s)
      BY <1>2, <3>3
    <3>4. CASE Reset(s)
      BY <1>4, <3>4
    <3>5. CASE Elapse(s) \/ ReadPart(s) \/ Write(s)
      BY <1>3, <3>5, Zenon
    <3> QED BY <2>1, <3>1, <3>2, <3>3, <3>4, <3>5 DEF Serve
  <2>2. ASSUME Take
        PROVE  AnswerInv'
    BY <2>2, TakesAnswer DEF Take
  <2> QED BY <1>5, <1>7, <2>1, <2>2 DEF Next
<1> QED BY <1>6, <1>7

(* What a client has is the beginning of its answer.                         *)
LEMMA AnswerIsBody ==
  ASSUME FilesGiven, ClientTypes, NEW c \in Clients, GotOK(c), asked[c] # None
  PROVE  /\ IsPrefix(got[c], Body(asked[c]))
         /\ ended[c] = "eof" => got[c] = Body(asked[c])
<1> DEFINE g == got[c]
           b == Body(asked[c])
<1>1. asked[c] \in Requests /\ g \in Seq(Item) /\ Len(g) \in Nat
  BY LenProperties DEF ClientTypes
<1>2. b \in Seq(Item) /\ Len(b) = BodyLen(asked[c]) /\ BodyLen(asked[c]) \in Nat
      /\ \A i \in 1..BodyLen(asked[c]) : b[i] = Part(asked[c], i)
  BY <1>1, BodyIs, BodyLenTyped
<1>3. Len(g) <= Len(b) /\ (\A i \in 1..Len(g) : g[i] = Part(asked[c], i))
      /\ (ended[c] = "eof" => Len(g) = Len(b))
  BY <1>2 DEF GotOK, Starts
<1> HIDE DEF g, b
<1>4. \A i \in 1..Len(g) : b[i] \in Item /\ g[i] = b[i]
  <2>1. \A i \in 1..Len(g) : i \in 1..Len(b)
    BY <1>1, <1>2, <1>3
  <2> QED BY <1>2, <1>3, <2>1, ElementOfSeq
<1>5. SubSeq(g, 1, Len(g)) = SubSeq(b, 1, Len(g))
  <2>1. /\ SubSeq(b, 1, Len(g)) \in Seq(Item)
        /\ Len(SubSeq(b, 1, Len(g))) = IF 1 <= Len(g) THEN Len(g) - 1 + 1 ELSE 0
        /\ \A i \in 1..(Len(g) - 1 + 1) : SubSeq(b, 1, Len(g))[i] = b[1 + i - 1]
    BY <1>1, <1>4, SubSeqProperties
  <2>2. Len(SubSeq(b, 1, Len(g))) = Len(g)
    BY <1>1, <2>1
  <2>3. \A i \in 1..Len(g) : g[i] = SubSeq(b, 1, Len(g))[i]
    <3>1. \A i \in 1..Len(g) : i \in 1..(Len(g) - 1 + 1) /\ 1 + i - 1 = i
      BY <1>1
    <3> QED BY <1>4, <2>1, <3>1
  <2>4. g = SubSeq(b, 1, Len(g))
    BY <1>1, <2>1, <2>2, <2>3, SeqEqual
  <2> QED BY <1>1, <2>4, SubSeqFull
<1>6. ended[c] = "eof" => g = b
  BY <1>1, <1>2, <1>3, <1>4, SeqEqual
<1>7. IsPrefix(g, b)
  BY <1>3, <1>5 DEF IsPrefix
<1> QED BY <1>6, <1>7 DEF g, b

(* A client gets what its request names, in order, and all of it when the    *)
(* answer came to its end, for files, buffers and windows of any size and    *)
(* answers sent in any pieces.  The windows are those whose values and       *)
(* brackets are no whole number of buffers: for the others the code leaves   *)
(* the closing bracket out.                                                  *)
THEOREM AnswersRight == FilesGiven /\ WindowsFit /\ NoStall => (Spec => []AnswersMatch)
<1> SUFFICES ASSUME FilesGiven, WindowsFit, NoStall
             PROVE  Spec => []AnswersMatch
  OBVIOUS
<1> DEFINE Inv == WebInv /\ FileInv /\ AnswerInv
<1>1. Init => Inv
  <2>1. Init => WebInv
    BY InitWeb
  <2>2. Init => FileInv
    BY DEF Init, FileInv, FileOK
  <2>3. Init => AnswerInv
    BY DEF Init, AnswerInv, GotOK, SentOK
  <2> QED BY <2>1, <2>2, <2>3
<1>2. Inv /\ [Next]_vars => Inv'
  BY NextWeb, NextFiles, NextAnswers
<1>3. Inv => AnswersMatch
  <2> SUFFICES ASSUME Inv, NEW c \in Clients, asked[c] # None
               PROVE  /\ IsPrefix(got[c], Body(asked[c]))
                      /\ ended[c] = "eof" => got[c] = Body(asked[c])
    BY DEF AnswersMatch
  <2>1. GotOK(c) /\ ClientTypes
    BY DEF AnswerInv, WebInv, TypeOK
  <2> QED BY <2>1, AnswerIsBody
<1> QED BY <1>1, <1>2, <1>3, PTL DEF Spec

=============================================================================
