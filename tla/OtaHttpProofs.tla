---------------------------- MODULE OtaHttpProofs ----------------------------
(***************************************************************************)
(* A request gets its own answer, and the image on the card is the image:  *)
(* for every length of the answers, every size of the buffers and every    *)
(* set of faults.                                                          *)
(***************************************************************************)
EXTENDS OtaHttp, SequenceTheorems, TLAPS

(* A byte of an answer, or the block of headers before it.                   *)
Top  == ImageLen + LocLen + MetaLen
Byte == Tags \X (Refusal..Top)

Steps == {"idle", "init", "open", "send", "receive", "refused", "headers", "body", "close", "stop",
          "done"}
Kinds == {"loc", "meta", "image", "confirm"}
Job   == [pc : Steps, via : Transport, what : Kinds, tag : Tags, from : Nat, seen : Nat,
          head : Refusal..Top, got : Seq(Byte)]
Conn  == [open : BOOLEAN, way : Seq(Byte), in : Seq(Byte), fin : BOOLEAN, late : BOOLEAN]

ConnTypes  == conn \in [Transport -> Conn] /\ left \in Seq(Byte)
StateTypes ==
  /\ st \in [Transport -> {"disconnected", "connected", "sent", "error"}] /\ started \in BOOLEAN
  /\ done \in BOOLEAN /\ syncs \in 0..MaxSync /\ faults \in 0..MaxFault

WifiStream == conn["wifi"].in \o conn["wifi"].way
CellStream == conn["cell"].in \o conn["cell"].way

(* Which requests come to which place, and when nothing of the answer has    *)
(* been read yet.                                                            *)
Place(j) ==
  /\ j.pc \in {"receive", "refused"} => j.via = "wifi" /\ j.what \in {"loc", "meta"}
  /\ j.pc = "headers" /\ j.via = "wifi" => j.what \notin {"loc", "meta"}
  /\ j.what = "loc" => j.via = "wifi"
  /\ j.pc = "body" => j.what = "image" \/ (j.via = "cell" /\ j.what = "meta")
  /\ j.pc \notin {"receive", "body", "close", "stop", "done"} => j.head = Refusal
  /\ j.pc \notin {"body", "close", "stop", "done"} /\ j.head = Refusal => j.got = <<>>

(* What came of the answer so far, and the file.                             *)
Got(j, f) ==
  /\ \A i \in 1..Len(j.got) : j.got[i] = <<j.tag, j.from + i>>
  /\ j.from + Len(j.got) <= Length(j.what)
  /\ j.what = "image" => Len(f) = j.from + Len(j.got)
Filed(f) == (\A i \in 1..Len(f) : f[i] = i) /\ Len(f) <= ImageLen

(* Bytes s to be read: without headers; with an answer's headers and nothing *)
(* but its body behind them; the rest of its body.                           *)
Clean(s) == \A k \in 1..Len(s) : ~IsHead(s[k])
Opens(j, s) ==
  \A i \in 1..Len(s) : IsHead(s[i]) =>
    /\ \A k \in 1..Len(s) : i < k => s[k] = <<j.tag, j.from + (k - i)>>
    /\ j.from + (Len(s) - i) <= Length(j.what)
Rest(j, s) ==
  /\ \A k \in 1..Len(s) : s[k] = <<j.tag, j.from + Len(j.got) + k>>
  /\ j.from + Len(j.got) + Len(s) <= Length(j.what)

HeadDue(j) == j.pc = "headers" \/ (j.pc = "receive" /\ j.head = Refusal)
RestDue(j) == j.pc = "body" \/ (j.pc = "receive" /\ j.head # Refusal)

(* A session of WiFi is used again: what an earlier answer left in it has no *)
(* headers, so a later request drops it on the way to its own.               *)
WifiIn(j, s) ==
  /\ j.via # "wifi" \/ j.pc \in {"idle", "init", "open", "send", "refused", "stop", "done"}
       => Clean(s)
  /\ j.via = "wifi" /\ HeadDue(j) => Opens(j, s)
  /\ j.via = "wifi" /\ RestDue(j) => Rest(j, s)

(* A session of the modem is new for each request, even if an earlier boot   *)
(* left one: its first byte is the headers.                                  *)
CellIn(j, s, l) ==
  j.via = "cell" =>
    /\ j.pc = "send" => s = <<>>
    /\ j.pc = "headers" => Opens(j, s) /\ (s # <<>> => IsHead(s[1]))
    /\ j.pc = "body" => Rest(j, l \o s)

Good(j, f, w, s, l) == Place(j) /\ Got(j, f) /\ Filed(f) /\ WifiIn(j, w) /\ CellIn(j, s, l)

Core    == /\ ConnTypes /\ job \in Job /\ file \in Seq(1..ImageLen)
           /\ Good(job, file, WifiStream, CellStream, left)
HttpInv == StateTypes /\ Core

-----------------------------------------------------------------------------
(* Pieces of a stream of bytes. *)

(* u is in s, behind the first n of its bytes.                               *)
Piece(u, s, n) == Len(u) + n <= Len(s) /\ \A k \in 1..Len(u) : u[k] = s[n + k]

(* The lengths are numbers, none of an answer is beyond Top, and the image   *)
(* has ImageLen bytes (Length()).                                            *)
LEMMA Lengths ==
  /\ ImageLen \in Nat \ {0} /\ LocLen \in Nat \ {0} /\ MetaLen \in Nat \ {0} /\ Chunk \in Nat \ {0}
  /\ MetaRoom \in Nat \ {0} /\ MaxSync \in Nat /\ MaxFault \in Nat
  /\ Top \in Nat /\ Top >= 3
  /\ \A w \in Kinds : Length(w) \in Nat /\ 1 <= Length(w) /\ Length(w) <= Top
  /\ Length("image") = ImageLen
<1>1. /\ ImageLen \in Nat \ {0} /\ LocLen \in Nat \ {0} /\ MetaLen \in Nat \ {0} /\ Chunk \in Nat \ {0}
      /\ MetaRoom \in Nat \ {0} /\ MaxSync \in Nat /\ MaxFault \in Nat
  BY OtaHttpAssumption
<1>2. Top \in Nat /\ Top >= 3
  BY <1>1 DEF Top
<1>3. /\ Length("loc") = LocLen /\ Length("meta") = MetaLen /\ Length("image") = ImageLen
      /\ Length("confirm") = 1
  BY DEF Length
<1>4. ASSUME NEW w \in Kinds PROVE Length(w) \in Nat /\ 1 <= Length(w) /\ Length(w) <= Top
  BY <1>1, <1>3 DEF Kinds, Top
<1> QED BY <1>1, <1>2, <1>3, <1>4

(* What a read takes off the cache, and what it leaves in the stream.        *)
LEMMA Read ==
  ASSUME NEW in \in Seq(Byte), NEW way \in Seq(Byte), NEW n \in 0..Len(in)
  PROVE  /\ SubSeq(in, n + 1, Len(in)) \in Seq(Byte)
         /\ Piece(SubSeq(in, n + 1, Len(in)) \o way, in \o way, n)
         /\ SubSeq(in, 1, n) \in Seq(Byte) /\ Len(SubSeq(in, 1, n)) = n
         /\ Piece(SubSeq(in, 1, n), in \o way, 0)
         /\ \A k \in 1..n : SubSeq(in, 1, n)[k] = in[k]
<1> DEFINE rest == SubSeq(in, n + 1, Len(in))
<1>1. Len(in) \in Nat /\ n \in Int /\ Len(way) \in Nat /\ \A k \in 1..Len(in) : in[k] \in Byte
  BY LenProperties, ElementOfSeq
<1>2. /\ rest \in Seq(Byte) /\ Len(rest) = Len(in) - n
      /\ \A k \in 1..(Len(in) - n) : rest[k] = in[n + k]
  <2>1. \A k \in (n + 1)..Len(in) : in[k] \in Byte
    BY <1>1
  <2>2. /\ rest \in Seq(Byte) /\ Len(rest) = IF n + 1 <= Len(in) THEN Len(in) - (n + 1) + 1 ELSE 0
        /\ \A k \in 1..(Len(in) - (n + 1) + 1) : rest[k] = in[(n + 1) + k - 1]
    BY <1>1, <2>1, SubSeqProperties
  <2> QED BY <1>1, <2>2
<1>3. /\ SubSeq(in, 1, n) \in Seq(Byte) /\ Len(SubSeq(in, 1, n)) = n
      /\ \A k \in 1..n : SubSeq(in, 1, n)[k] = in[k]
  <2>1. \A k \in 1..n : in[k] \in Byte
    BY <1>1
  <2>2. /\ SubSeq(in, 1, n) \in Seq(Byte) /\ Len(SubSeq(in, 1, n)) = IF 1 <= n THEN n - 1 + 1 ELSE 0
        /\ \A k \in 1..(n - 1 + 1) : SubSeq(in, 1, n)[k] = in[1 + k - 1]
    BY <1>1, <2>1, SubSeqProperties
  <2> QED BY <1>1, <2>2
<1>4. /\ Len(in \o way) = Len(in) + Len(way)
      /\ \A k \in 1..(Len(in) + Len(way)) :
           (in \o way)[k] = IF k <= Len(in) THEN in[k] ELSE way[k - Len(in)]
  BY ConcatProperties
<1>5. /\ Len(rest \o way) = Len(rest) + Len(way)
      /\ \A k \in 1..(Len(rest) + Len(way)) :
           (rest \o way)[k] = IF k <= Len(rest) THEN rest[k] ELSE way[k - Len(rest)]
  BY <1>2, ConcatProperties
<1>6. Piece(rest \o way, in \o way, n)
  <2> HIDE DEF rest
  <2>1. Len(rest \o way) + n = Len(in \o way)
    BY <1>1, <1>2, <1>4, <1>5
  <2>2. ASSUME NEW k \in 1..Len(rest \o way) PROVE (rest \o way)[k] = (in \o way)[n + k]
    <3>1. k \in 1..(Len(in) - n + Len(way)) /\ n + k \in 1..(Len(in) + Len(way))
      BY <1>1, <1>2, <1>5, <2>2
    <3>2. CASE k <= Len(rest)
      BY <1>1, <1>2, <1>4, <1>5, <3>1, <3>2
    <3>3. CASE ~(k <= Len(rest))
      BY <1>1, <1>2, <1>4, <1>5, <3>1, <3>3
    <3> QED BY <3>2, <3>3
  <2> QED BY <1>1, <1>2, <1>4, <1>5, <2>1, <2>2 DEF Piece
<1>7. Piece(SubSeq(in, 1, n), in \o way, 0)
  BY <1>1, <1>3, <1>4 DEF Piece
<1> QED BY <1>2, <1>3, <1>6, <1>7

(* A byte that arrives is still to be read, in the same place.               *)
LEMMA Arriving ==
  ASSUME NEW in \in Seq(Byte), NEW way \in Seq(Byte), way # <<>>
  PROVE  /\ Append(in, way[1]) \in Seq(Byte) /\ Tail(way) \in Seq(Byte)
         /\ Piece(Append(in, way[1]) \o Tail(way), in \o way, 0)
         /\ Append(in, way[1]) \o Tail(way) # <<>> => in \o way # <<>>
<1> DEFINE more == Append(in, way[1])
<1>1. Len(in) \in Nat /\ Len(way) \in Nat /\ 1 <= Len(way) /\ way[1] \in Byte
  BY LenProperties, EmptySeq, ElementOfSeq
<1>2. /\ more \in Seq(Byte) /\ Len(more) = Len(in) + 1 /\ \A k \in 1..Len(in) : more[k] = in[k]
      /\ more[Len(in) + 1] = way[1]
  BY <1>1, AppendProperties
<1>3. /\ Tail(way) \in Seq(Byte) /\ Len(Tail(way)) = Len(way) - 1
      /\ \A k \in 1..(Len(way) - 1) : Tail(way)[k] = way[k + 1]
  BY <1>1, HeadTailProperties
<1>4. /\ Len(in \o way) = Len(in) + Len(way)
      /\ \A k \in 1..(Len(in) + Len(way)) :
           (in \o way)[k] = IF k <= Len(in) THEN in[k] ELSE way[k - Len(in)]
  BY ConcatProperties
<1> HIDE DEF more
<1>5. /\ Len(more \o Tail(way)) = Len(more) + Len(Tail(way))
      /\ \A k \in 1..(Len(more) + Len(Tail(way))) :
           (more \o Tail(way))[k] = IF k <= Len(more) THEN more[k] ELSE Tail(way)[k - Len(more)]
  BY <1>2, <1>3, ConcatProperties
<1>6. ASSUME NEW k \in 1..Len(more \o Tail(way)) PROVE (more \o Tail(way))[k] = (in \o way)[0 + k]
  <2>1. k \in 1..(Len(in) + Len(way))
    BY <1>1, <1>2, <1>3, <1>5
  <2>2. CASE k <= Len(in)
    BY <1>1, <1>2, <1>3, <1>4, <1>5, <2>1, <2>2
  <2>3. CASE k = Len(in) + 1
    BY <1>1, <1>2, <1>3, <1>4, <1>5, <2>1, <2>3
  <2>4. CASE k > Len(in) + 1
    BY <1>1, <1>2, <1>3, <1>4, <1>5, <2>1, <2>4
  <2> QED BY <1>1, <2>1, <2>2, <2>3, <2>4
<1>7. Len(more \o Tail(way)) = Len(in \o way) /\ Len(in \o way) > 0
  BY <1>1, <1>2, <1>3, <1>4, <1>5
<1>8. in \o way # <<>>
  BY <1>7
<1> QED BY <1>2, <1>3, <1>6, <1>7, <1>8 DEF Piece, more

(* What is read of a stream keeps what the stream had: no headers; headers   *)
(* with nothing but their body behind them; the body, further on.            *)
LEMMA PieceOf ==
  ASSUME NEW j \in Job, NEW u \in Seq(Byte), NEW s \in Seq(Byte), NEW n \in Nat, Piece(u, s, n)
  PROVE  /\ Clean(s) => Clean(u)
         /\ Opens(j, s) => Opens(j, u)
         /\ Rest(j, s) => /\ \A k \in 1..Len(u) : u[k] = <<j.tag, j.from + Len(j.got) + (n + k)>>
                          /\ j.from + Len(j.got) + (n + Len(u)) <= Length(j.what)
         /\ \A h \in 1..Len(s) : Opens(j, s) /\ IsHead(s[h]) /\ n = h =>
              /\ \A k \in 1..Len(u) : u[k] = <<j.tag, j.from + k>>
              /\ j.from + Len(u) <= Length(j.what)
<1>1. Len(u) \in Nat /\ Len(s) \in Nat /\ Len(u) + n <= Len(s) /\ \A k \in 1..Len(u) : u[k] = s[n + k]
  BY LenProperties DEF Piece
<1>2. /\ j.from \in Nat /\ Len(j.got) \in Nat /\ Length(j.what) \in Nat
  <2>1. j.got \in Seq(Byte) /\ j.what \in Kinds /\ j.from \in Nat
    BY DEF Job
  <2> QED BY <2>1, Lengths, LenProperties
<1>3. \A k \in 1..Len(u) : n + k \in 1..Len(s)
  BY <1>1
<1>4. ASSUME Clean(s) PROVE Clean(u)
  BY <1>1, <1>3, <1>4 DEF Clean
<1>5. ASSUME Opens(j, s) PROVE Opens(j, u)
  <2> SUFFICES ASSUME NEW i \in 1..Len(u), IsHead(u[i])
               PROVE  /\ \A k \in 1..Len(u) : i < k => u[k] = <<j.tag, j.from + (k - i)>>
                      /\ j.from + (Len(u) - i) <= Length(j.what)
    BY DEF Opens
  <2>1. n + i \in 1..Len(s) /\ IsHead(s[n + i])
    BY <1>1, <1>3
  <2>2. /\ \A k \in 1..Len(s) : n + i < k => s[k] = <<j.tag, j.from + (k - (n + i))>>
        /\ j.from + (Len(s) - (n + i)) <= Length(j.what)
    BY <1>5, <2>1 DEF Opens
  <2>3. ASSUME NEW k \in 1..Len(u), i < k PROVE u[k] = <<j.tag, j.from + (k - i)>>
    <3>1. n + k \in 1..Len(s) /\ n + i < n + k /\ (n + k) - (n + i) = k - i
      BY <1>1, <1>3, <2>3
    <3>2. s[n + k] = <<j.tag, j.from + ((n + k) - (n + i))>>
      BY <2>2, <3>1
    <3> QED BY <1>1, <2>3, <3>1, <3>2
  <2>4. j.from + (Len(u) - i) <= Length(j.what)
    BY <1>1, <1>2, <2>2
  <2> QED BY <2>3, <2>4
<1>6. ASSUME Rest(j, s)
      PROVE  /\ \A k \in 1..Len(u) : u[k] = <<j.tag, j.from + Len(j.got) + (n + k)>>
             /\ j.from + Len(j.got) + (n + Len(u)) <= Length(j.what)
  <2>1. /\ \A k \in 1..Len(s) : s[k] = <<j.tag, j.from + Len(j.got) + k>>
        /\ j.from + Len(j.got) + Len(s) <= Length(j.what)
    BY <1>6 DEF Rest
  <2>2. j.from + Len(j.got) + (n + Len(u)) <= Length(j.what)
    BY <1>1, <1>2, <2>1
  <2> QED BY <1>1, <1>3, <2>1, <2>2
<1>7. ASSUME NEW h \in 1..Len(s), Opens(j, s), IsHead(s[h]), n = h
      PROVE  /\ \A k \in 1..Len(u) : u[k] = <<j.tag, j.from + k>>
             /\ j.from + Len(u) <= Length(j.what)
  <2>1. /\ \A k \in 1..Len(s) : h < k => s[k] = <<j.tag, j.from + (k - h)>>
        /\ j.from + (Len(s) - h) <= Length(j.what)
    BY <1>7 DEF Opens
  <2>2. ASSUME NEW k \in 1..Len(u) PROVE u[k] = <<j.tag, j.from + k>>
    <3>1. n + k \in 1..Len(s) /\ h < n + k /\ (n + k) - h = k
      BY <1>1, <1>3, <1>7, <2>2
    <3>2. s[n + k] = <<j.tag, j.from + ((n + k) - h)>>
      BY <2>1, <3>1
    <3> QED BY <1>1, <2>2, <3>1, <3>2
  <2> QED BY <1>1, <1>2, <1>7, <2>1, <2>2
<1> QED BY <1>4, <1>5, <1>6, <1>7

(* The body of an answer has no headers.                                     *)
LEMMA RestIsClean ==
  ASSUME NEW j \in Job, NEW s \in Seq(Byte), Rest(j, s)
  PROVE  Clean(s)
<1>1. j.from \in Nat /\ Len(j.got) \in Nat
  BY LenProperties DEF Job
<1>2. ASSUME NEW k \in 1..Len(s) PROVE ~IsHead(s[k])
  <2>1. s[k] = <<j.tag, j.from + Len(j.got) + k>> /\ k \in Nat /\ k >= 1
    BY LenProperties DEF Rest
  <2> QED BY <1>1, <2>1 DEF IsHead
<1> QED BY <1>2 DEF Clean

(* The answer to request j, as Answer(head) has it.                          *)
Body(j, head) ==
  IF head = Refusal THEN <<>> ELSE [k \in 1..(Length(j.what) - j.from) |-> <<j.tag, j.from + k>>]
Reply(j, head) == <<<<j.tag, head>>>> \o Body(j, head)

(* An answer behind bytes without headers.                                   *)
LEMMA Answered ==
  ASSUME NEW j \in Job, NEW s \in Seq(Byte), Clean(s), NEW head \in {KeepAlive, Close, Refusal},
         j.from <= Length(j.what), NEW a, a = Reply(j, head)
  PROVE  a \in Seq(Byte) /\ Opens(j, s \o a) /\ a # <<>> /\ IsHead(a[1])
<1>1. /\ j.from \in Nat /\ Length(j.what) \in Nat /\ Length(j.what) <= Top /\ j.tag \in Tags
      /\ Top \in Nat /\ Len(s) \in Nat
  BY Lengths, LenProperties DEF Job
<1>2. PICK w \in Nat : w = Length(j.what) - j.from
  BY <1>1
<1>3. PICK first \in Seq(Byte) : /\ first = <<<<j.tag, head>>>> /\ Len(first) = 1
                                /\ first[1] = <<j.tag, head>>
  <2>1. <<j.tag, head>> \in Byte
    BY <1>1 DEF Byte, KeepAlive, Close, Refusal
  <2>2. <<<<j.tag, head>>>> \in Seq(Byte)
    BY <2>1
  <2> QED BY <2>2
<1>4. PICK tail \in Seq(Byte) : /\ tail = Body(j, head) /\ Len(tail) \in 0..w
                               /\ \A k \in 1..Len(tail) : tail[k] = <<j.tag, j.from + k>>
  <2>1. CASE head = Refusal
    <3>1. Body(j, head) = <<>>
      BY <2>1 DEF Body
    <3>2. <<>> \in Seq(Byte) /\ Len(<<>>) = 0
      BY EmptySeq
    <3>3. \A k \in 1..Len(Body(j, head)) : Body(j, head)[k] = <<j.tag, j.from + k>>
      BY <3>1, <3>2
    <3>4. Body(j, head) \in Seq(Byte) /\ Len(Body(j, head)) \in 0..w
      BY <1>2, <3>1, <3>2
    <3> QED BY <3>3, <3>4
  <2>2. CASE head # Refusal
    <3>1. Body(j, head) = [k \in 1..w |-> <<j.tag, j.from + k>>]
      BY <1>2, <2>2 DEF Body
    <3>2. \A k \in 1..w : <<j.tag, j.from + k>> \in Byte
      BY <1>1, <1>2 DEF Byte, Refusal
    <3>3. Body(j, head) \in [1..w -> Byte] /\ \A k \in 1..w : Body(j, head)[k] = <<j.tag, j.from + k>>
      BY <3>1, <3>2
    <3>4. Body(j, head) \in Seq(Byte) /\ DOMAIN Body(j, head) = 1..w
      BY <1>2, <3>3, SeqDef
    <3>5. Len(Body(j, head)) = w
      BY <1>2, <3>4, LenProperties
    <3> QED BY <1>2, <3>3, <3>4, <3>5
  <2> QED BY <2>1, <2>2
<1>6. a = first \o tail
  BY <1>3, <1>4 DEF Reply
<1>7. /\ a \in Seq(Byte) /\ Len(a) = 1 + Len(tail) /\ a[1] = <<j.tag, head>>
      /\ \A k \in 2..Len(a) : a[k] = <<j.tag, j.from + (k - 1)>>
  <2>1. /\ a \in Seq(Byte) /\ Len(a) = 1 + Len(tail)
        /\ \A k \in 1..(1 + Len(tail)) : a[k] = IF k <= 1 THEN first[k] ELSE tail[k - 1]
    <3>1. /\ first \o tail \in Seq(Byte) /\ Len(first \o tail) = Len(first) + Len(tail)
          /\ \A k \in 1..(Len(first) + Len(tail)) :
               (first \o tail)[k] = IF k <= Len(first) THEN first[k] ELSE tail[k - Len(first)]
      BY ConcatProperties
    <3> QED BY <1>3, <1>6, <3>1
  <2>2. Len(tail) \in Nat
    BY <1>2, <1>4
  <2>3. a[1] = <<j.tag, head>>
    BY <1>3, <2>1, <2>2
  <2>4. ASSUME NEW k \in 2..Len(a) PROVE a[k] = <<j.tag, j.from + (k - 1)>>
    BY <1>4, <2>1, <2>2, <2>4
  <2> QED BY <2>1, <2>3, <2>4
<1>8. a # <<>> /\ IsHead(a[1])
  <2>1. Len(a) # 0
    BY <1>2, <1>4, <1>7
  <2> QED BY <1>7, <2>1 DEF IsHead, KeepAlive, Close, Refusal
<1>9. /\ Len(s \o a) = Len(s) + Len(a)
      /\ \A k \in 1..(Len(s) + Len(a)) : (s \o a)[k] = IF k <= Len(s) THEN s[k] ELSE a[k - Len(s)]
  <2>1. a \in Seq(Byte)
    BY <1>7
  <2> QED BY <2>1, ConcatProperties
<1>10. \A k \in 1..Len(s \o a) :
         /\ k <= Len(s) => ~IsHead((s \o a)[k])
         /\ k > Len(s) + 1 => (s \o a)[k] = <<j.tag, j.from + (k - (Len(s) + 1))>>
  <2> SUFFICES ASSUME NEW k \in 1..Len(s \o a)
               PROVE  /\ k <= Len(s) => ~IsHead((s \o a)[k])
                      /\ k > Len(s) + 1 => (s \o a)[k] = <<j.tag, j.from + (k - (Len(s) + 1))>>
    OBVIOUS
  <2>0. Len(tail) \in Nat /\ Len(a) \in Nat
    BY <1>2, <1>4, <1>7
  <2>1. CASE k <= Len(s)
    BY <1>1, <1>9, <2>0, <2>1 DEF Clean
  <2>2. CASE k > Len(s) + 1
    <3>1. k - Len(s) \in 2..Len(a) /\ (k - Len(s)) - 1 = k - (Len(s) + 1) /\ ~(k <= Len(s))
          /\ k \in 1..(Len(s) + Len(a))
      BY <1>1, <1>9, <2>0, <2>2
    <3>2. (s \o a)[k] = a[k - Len(s)]
      BY <1>9, <3>1
    <3> QED BY <1>7, <3>1, <3>2
  <2> QED BY <1>1, <2>1, <2>2
<1>11. Opens(j, s \o a)
  <2> SUFFICES ASSUME NEW i \in 1..Len(s \o a), IsHead((s \o a)[i])
               PROVE  /\ \A k \in 1..Len(s \o a) : i < k => (s \o a)[k] = <<j.tag, j.from + (k - i)>>
                      /\ j.from + (Len(s \o a) - i) <= Length(j.what)
    BY DEF Opens
  <2>1. i = Len(s) + 1
    <3>1. i >= Len(s) + 1 /\ i \in Nat
      <4>1. ~(i <= Len(s))
        BY <1>10
      <4>2. i \in Int /\ 1 <= i /\ Len(s) \in Int
        BY <1>1
      <4> QED BY <4>1, <4>2
    <3>2. ASSUME i > Len(s) + 1 PROVE FALSE
      <4>1. (s \o a)[i] = <<j.tag, j.from + (i - (Len(s) + 1))>> /\ i - (Len(s) + 1) >= 1
        <5>1. (s \o a)[i] = <<j.tag, j.from + (i - (Len(s) + 1))>>
          BY <1>10, <3>2
        <5>2. i - (Len(s) + 1) >= 1
          BY <1>1, <3>1, <3>2
        <5> QED BY <5>1, <5>2
      <4> QED BY <1>1, <4>1, <3>1 DEF IsHead
    <3>3. ~(i > Len(s) + 1)
      BY <3>2
    <3>4. i \in Int /\ Len(s) \in Int /\ i >= Len(s) + 1 /\ ~(i > Len(s) + 1)
      BY <1>1, <3>1, <3>3
    <3> QED BY <3>4
  <2>2. Len(s \o a) - i <= w
    BY <1>1, <1>2, <1>4, <1>7, <1>9, <2>1
  <2>3. w = Length(j.what) - j.from
    BY <1>2
  <2>4. Len(s \o a) \in Nat
    BY <1>1, <1>2, <1>4, <1>7, <1>9
  <2>5. \A k \in 1..Len(s \o a) : i < k => (s \o a)[k] = <<j.tag, j.from + (k - i)>>
    BY <1>1, <1>10, <2>1
  <2>6. j.from + (Len(s \o a) - i) <= Length(j.what)
    BY <1>1, <1>2, <2>1, <2>2, <2>3, <2>4
  <2> QED BY <2>5, <2>6
<1> QED BY <1>7, <1>8, <1>11

-----------------------------------------------------------------------------
(* Steps of a request. *)

(* Request j2 is request j, perhaps at another step.                         *)
Same(j2, j) ==
  /\ j2.via = j.via /\ j2.what = j.what /\ j2.tag = j.tag /\ j2.from = j.from /\ j2.head = j.head
  /\ j2.got = j.got

(* Going to another step is all Go() does, and Stop forgets the request.     *)
LEMMA Going ==
  ASSUME NEW j \in Job
  PROVE  /\ \A p \in Steps : [j EXCEPT !.pc = p] \in Job /\ Same([j EXCEPT !.pc = p], j)
                               /\ [j EXCEPT !.pc = p].pc = p
         /\ \A t \in Tags : /\ Idle(t) \in Job /\ Idle(t).pc = "idle" /\ Idle(t).via = "wifi"
                            /\ Idle(t).what = "meta" /\ Idle(t).from = 0 /\ Idle(t).head = Refusal
                            /\ Idle(t).got = <<>>
<1>1. ASSUME NEW p \in Steps
      PROVE  [j EXCEPT !.pc = p] \in Job /\ Same([j EXCEPT !.pc = p], j) /\ [j EXCEPT !.pc = p].pc = p
  BY DEF Job, Same
<1>2. ASSUME NEW t \in Tags
      PROVE  /\ Idle(t) \in Job /\ Idle(t).pc = "idle" /\ Idle(t).via = "wifi"
             /\ Idle(t).what = "meta" /\ Idle(t).from = 0 /\ Idle(t).head = Refusal
             /\ Idle(t).got = <<>>
  <2>1. Refusal \in Refusal..Top /\ <<>> \in Seq(Byte)
    BY Lengths, EmptySeq DEF Refusal
  <2> QED BY <2>1 DEF Idle, Job, Steps, Kinds, Transport
<1> QED BY <1>1, <1>2

(* A request before it is sent: only the WiFi session must be clean.         *)
LEMMA StartGood ==
  ASSUME NEW j \in Job, NEW f, NEW w, NEW c, NEW l, Clean(w), Filed(f),
         j.pc \in {"idle", "init", "open"}, j.got = <<>>, j.head = Refusal,
         j.what = "loc" => j.via = "wifi", j.from <= Length(j.what), j.what = "image" => Len(f) = j.from
  PROVE  Good(j, f, w, c, l)
<1>1. Len(j.got) = 0 /\ j.from \in Nat /\ j.what \in Kinds /\ Length(j.what) \in Nat
  BY Lengths, EmptySeq DEF Job
<1>2. Place(j)
  BY DEF Place
<1>3. Got(j, f)
  BY <1>1 DEF Got
<1>4. WifiIn(j, w)
  BY DEF WifiIn, HeadDue, RestDue
<1>5. CellIn(j, c, l)
  BY DEF CellIn
<1> QED BY <1>2, <1>3, <1>4, <1>5 DEF Good

(* On with the same request, nothing sent or read: to the next step, or to   *)
(* its end.                                                                  *)
LEMMA PassGood ==
  ASSUME NEW j \in Job, NEW j2 \in Job, Same(j2, j), NEW f, NEW w, NEW c, NEW l,
         NEW w2, NEW c2, NEW l2, Good(j, f, w, c, l),
         \/ j2.pc = "close" /\ (j.via # "wifi" => Clean(w2))
         \/ /\ Clean(w2)
            /\ \/ j2.pc \in {"stop", "done"}
               \/ j2.pc = "open" /\ j.pc = "init"
               \/ j2.pc = "send" /\ j.pc = "open" /\ (j.via = "cell" => c2 = <<>>)
  PROVE  Good(j2, f, w2, c2, l2)
<1>1. Place(j2)
  BY DEF Good, Place, Same
<1>2. Got(j2, f) /\ Filed(f)
  BY DEF Good, Got, Same
<1>3. WifiIn(j2, w2)
  BY DEF WifiIn, HeadDue, RestDue, Same
<1>4. CellIn(j2, c2, l2)
  BY DEF CellIn, Same
<1> QED BY <1>1, <1>2, <1>3, <1>4 DEF Good

(* The request is sent: what comes on its session opens with the headers.    *)
LEMMA SentGood ==
  ASSUME NEW j \in Job, NEW j2 \in Job, Same(j2, j), NEW f, NEW w, NEW c, NEW l,
         NEW w2, NEW c2, Good(j, f, w, c, l), j.pc = "send",
         j2.pc = IF j.via = "wifi" /\ j.what \in {"loc", "meta"} THEN "receive" ELSE "headers",
         j.via = "wifi" => Opens(j, w2),
         j.via = "cell" => Clean(w2) /\ Opens(j, c2) /\ (c2 # <<>> => IsHead(c2[1]))
  PROVE  Good(j2, f, w2, c2, l)
<1>0. j.via \in {"wifi", "cell"} /\ j.head = Refusal /\ j.got = <<>>
  BY DEF Good, Place, Job, Transport
<1>1. Place(j2)
  BY <1>0 DEF Good, Place, Same
<1>2. Got(j2, f) /\ Filed(f)
  BY DEF Good, Got, Same
<1>3. \A s : Opens(j, s) => Opens(j2, s)
  BY DEF Opens, Same
<1>4. WifiIn(j2, w2)
  BY <1>0, <1>3 DEF WifiIn, HeadDue, RestDue, Same
<1>5. CellIn(j2, c2, l)
  BY <1>0, <1>3 DEF CellIn, Same
<1> QED BY <1>1, <1>2, <1>4, <1>5 DEF Good

(* Bytes come, are lost or are dropped before the headers: what is left to   *)
(* be read is a piece of what was.                                           *)
LEMMA StayGood ==
  ASSUME NEW j \in Job, NEW j2 \in Job, Same(j2, j), j2.pc = j.pc, NEW f, NEW l \in Seq(Byte),
         NEW w \in Seq(Byte), NEW c \in Seq(Byte), NEW w2 \in Seq(Byte), NEW c2 \in Seq(Byte),
         Good(j, f, w, c, l), NEW n \in Nat, Piece(w2, w, n), n = 0 \/ ~RestDue(j), Piece(c2, c, 0)
  PROVE  Good(j2, f, w2, c2, l)
<1>0. /\ Len(w) \in Nat /\ Len(c) \in Nat /\ Len(w2) \in Nat /\ Len(c2) \in Nat /\ Len(l) \in Nat
      /\ j.from \in Nat /\ Len(j.got) \in Nat
  BY LenProperties DEF Job
<1>1. Place(j2)
  BY DEF Good, Place, Same
<1>2. Got(j2, f) /\ Filed(f)
  BY DEF Good, Got, Same
<1>3. \A s : (Opens(j, s) => Opens(j2, s)) /\ (Rest(j, s) => Rest(j2, s))
  BY DEF Opens, Rest, Same
<1>4. (Clean(w) => Clean(w2)) /\ (Opens(j, w) => Opens(j, w2))
  BY PieceOf
<1>5. ASSUME n = 0, Rest(j, w) PROVE Rest(j, w2)
  <2>1. /\ \A k \in 1..Len(w2) : w2[k] = <<j.tag, j.from + Len(j.got) + (0 + k)>>
        /\ j.from + Len(j.got) + (0 + Len(w2)) <= Length(j.what)
    BY <1>5, PieceOf
  <2> QED BY <1>0, <2>1 DEF Rest
<1>6. WifiIn(j2, w2)
  <2>1. WifiIn(j, w)
    BY DEF Good
  <2> QED BY <1>3, <1>4, <1>5, <2>1 DEF WifiIn, HeadDue, RestDue, Same
<1>7. Opens(j, c) => Opens(j, c2)
  BY PieceOf
<1>8. /\ c = <<>> => c2 = <<>>
      /\ c2 # <<>> => c # <<>> /\ c2[1] = c[1]
  <2>1. (c = <<>> <=> Len(c) = 0) /\ (c2 = <<>> <=> Len(c2) = 0)
    BY EmptySeq
  <2>2. Len(c2) <= Len(c) /\ \A k \in 1..Len(c2) : c2[k] = c[0 + k]
    BY <1>0 DEF Piece
  <2>3. ASSUME c2 # <<>> PROVE c # <<>> /\ c2[1] = c[1]
    <3>1. Len(c2) # 0 /\ 1 \in 1..Len(c2) /\ 0 + 1 = 1
      BY <1>0, <2>1, <2>3
    <3>2. c2[1] = c[1] /\ Len(c) # 0
      BY <1>0, <2>2, <3>1
    <3> QED BY <2>1, <3>2
  <2> QED BY <2>3
<1>9. Rest(j, l \o c) => Rest(j, l \o c2)
  <2>1. /\ l \o c2 \in Seq(Byte) /\ Len(l \o c2) = Len(l) + Len(c2)
        /\ \A k \in 1..(Len(l) + Len(c2)) : (l \o c2)[k] = IF k <= Len(l) THEN l[k] ELSE c2[k - Len(l)]
    BY ConcatProperties
  <2>9. /\ l \o c \in Seq(Byte) /\ Len(l \o c) = Len(l) + Len(c)
        /\ \A k \in 1..(Len(l) + Len(c)) : (l \o c)[k] = IF k <= Len(l) THEN l[k] ELSE c[k - Len(l)]
    BY ConcatProperties
  <2>2. Len(c2) <= Len(c) /\ \A k \in 1..Len(c2) : c2[k] = c[k]
    BY <1>0 DEF Piece
  <2>3. ASSUME NEW k \in 1..Len(l \o c2) PROVE (l \o c2)[k] = (l \o c)[k]
    <3>1. k \in 1..(Len(l) + Len(c2)) /\ k \in 1..(Len(l) + Len(c)) /\ k \in Nat
      BY <1>0, <2>1, <2>9, <2>2
    <3>2. CASE k <= Len(l)
      BY <2>1, <2>9, <3>1, <3>2
    <3>3. CASE ~(k <= Len(l))
      <4>1. k - Len(l) \in 1..Len(c2)
        BY <1>0, <3>1, <3>3
      <4> QED BY <2>1, <2>9, <2>2, <3>1, <3>3, <4>1
    <3> QED BY <3>2, <3>3
  <2>4. Len(l \o c2) <= Len(l \o c)
    BY <1>0, <2>1, <2>9, <2>2
  <2>5. Piece(l \o c2, l \o c, 0)
    BY <1>0, <2>1, <2>9, <2>3, <2>4 DEF Piece
  <2>6. ASSUME Rest(j, l \o c) PROVE Rest(j, l \o c2)
    <3>0. 0 \in Nat /\ l \o c \in Seq(Byte) /\ l \o c2 \in Seq(Byte)
      BY <2>1, <2>9
    <3>1. /\ \A k \in 1..Len(l \o c2) : (l \o c2)[k] = <<j.tag, j.from + Len(j.got) + (0 + k)>>
          /\ j.from + Len(j.got) + (0 + Len(l \o c2)) <= Length(j.what)
      BY <2>5, <2>6, <3>0, PieceOf
    <3>2. Len(l \o c2) \in Nat
      BY <1>0, <2>1, <2>9
    <3>3. \A k \in 1..Len(l \o c2) : (l \o c2)[k] = <<j.tag, j.from + Len(j.got) + k>>
      <4>1. \A k \in 1..Len(l \o c2) : 0 + k = k
        BY <3>2
      <4> QED BY <3>1, <4>1
    <3>4. j.from + Len(j.got) + Len(l \o c2) <= Length(j.what)
      BY <1>0, <3>1, <3>2
    <3> QED BY <3>3, <3>4 DEF Rest
  <2> QED BY <2>6
<1>10. CellIn(j2, c2, l)
  <2>1. CellIn(j, c, l)
    BY DEF Good
  <2>2. j.via = "cell" /\ j.pc = "send" => c2 = <<>>
    BY <1>8, <2>1 DEF CellIn
  <2>3. j.via = "cell" /\ j.pc = "headers" => Opens(j, c2) /\ (c2 # <<>> => IsHead(c2[1]))
    BY <1>7, <1>8, <2>1 DEF CellIn
  <2>4. j.via = "cell" /\ j.pc = "body" => Rest(j, l \o c2)
    BY <1>9, <2>1 DEF CellIn
  <2> QED BY <1>3, <2>2, <2>3, <2>4 DEF CellIn, Same
<1> QED BY <1>1, <1>2, <1>6, <1>10 DEF Good

(* Where in the image bytes belong.                                          *)
Places(bytes) == [i \in DOMAIN bytes |-> bytes[i][2]]

(* A read of the body: the request and the file go on where they were.       *)
LEMMA BodyRead ==
  ASSUME NEW j \in Job, NEW j2 \in Job, NEW f \in Seq(1..ImageLen), NEW s \in Seq(Byte),
         NEW s2 \in Seq(Byte), NEW bytes \in Seq(Byte), Got(j, f), Filed(f), Rest(j, s),
         Piece(bytes, s, 0), Piece(s2, s, Len(bytes)),
         j2.what = j.what, j2.tag = j.tag, j2.from = j.from, j2.got = j.got \o bytes,
         NEW f2, j.what = "image" => f2 = f \o Places(bytes), j.what # "image" => f2 = f
  PROVE  Got(j2, f2) /\ Filed(f2) /\ f2 \in Seq(1..ImageLen) /\ Rest(j2, s2)
<1> DEFINE g == Len(j.got)
           b == Len(bytes)
<1>1. /\ j.from \in Nat /\ g \in Nat /\ b \in Nat /\ Len(f) \in Nat /\ Len(s2) \in Nat
      /\ Length(j.what) \in Nat /\ ImageLen \in Nat /\ j.got \in Seq(Byte) /\ Len(s) \in Nat
  BY Lengths, LenProperties DEF Job
<1>2. /\ Len(j2.got) = g + b
      /\ \A k \in 1..(g + b) : j2.got[k] = IF k <= g THEN j.got[k] ELSE bytes[k - g]
  BY <1>1, ConcatProperties
<1>3. /\ \A k \in 1..b : bytes[k] = <<j.tag, j.from + g + (0 + k)>>
      /\ j.from + g + (0 + b) <= Length(j.what)
  <2>1. 0 \in Nat
    OBVIOUS
  <2> QED BY <2>1, PieceOf
<1>4. /\ \A k \in 1..Len(s2) : s2[k] = <<j.tag, j.from + g + (b + k)>>
      /\ j.from + g + (b + Len(s2)) <= Length(j.what)
  BY <1>1, PieceOf
<1> HIDE DEF g, b
<1>5. Rest(j2, s2)
  <2>1. ASSUME NEW k \in 1..Len(s2) PROVE s2[k] = <<j2.tag, j2.from + Len(j2.got) + k>>
    <3>1. j2.from + Len(j2.got) + k = j.from + g + (b + k)
      BY <1>1, <1>2
    <3> QED BY <1>4, <3>1
  <2>2. j2.from + Len(j2.got) + Len(s2) <= Length(j2.what)
    BY <1>1, <1>2, <1>4
  <2> QED BY <2>1, <2>2 DEF Rest
<1>6. /\ \A i \in 1..Len(j2.got) : j2.got[i] = <<j2.tag, j2.from + i>>
      /\ j2.from + Len(j2.got) <= Length(j2.what)
  <2>1. ASSUME NEW i \in 1..Len(j2.got) PROVE j2.got[i] = <<j2.tag, j2.from + i>>
    <3>0. i \in 1..(g + b)
      BY <1>2
    <3>1. CASE i <= g
      <4>1. i \in 1..Len(j.got)
        BY <1>1, <3>0, <3>1 DEF g
      <4> QED BY <1>2, <3>0, <3>1, <4>1 DEF Got
    <3>2. CASE ~(i <= g)
      <4>1. i - g \in 1..b /\ j.from + g + (0 + (i - g)) = j.from + i
        BY <1>1, <3>0, <3>2
      <4>2. bytes[i - g] = <<j.tag, j.from + g + (0 + (i - g))>>
        BY <1>3, <4>1
      <4> QED BY <1>2, <3>0, <3>2, <4>1, <4>2
    <3> QED BY <3>1, <3>2
  <2>2. j2.from + Len(j2.got) <= Length(j2.what)
    BY <1>1, <1>2, <1>3
  <2> QED BY <2>1, <2>2
<1>7. CASE j.what # "image"
  BY <1>5, <1>6, <1>7 DEF Got
<1>8. CASE j.what = "image"
  <2>1. PICK places : places = Places(bytes)
    OBVIOUS
  <2>0. places = [i \in DOMAIN bytes |-> bytes[i][2]]
    BY <2>1 DEF Places
  <2>2. Len(f) = j.from + g /\ Length(j.what) = ImageLen
    BY <1>8, Lengths DEF Got, g
  <2>3. DOMAIN bytes = 1..b
    BY LenProperties DEF b
  <2>4. ASSUME NEW i \in 1..b PROVE places[i] = Len(f) + i /\ places[i] \in 1..ImageLen
    <3>1. bytes[i][2] = j.from + g + (0 + i)
      BY <1>3
    <3>2. places[i] = j.from + g + (0 + i)
      BY <2>0, <2>3, <3>1
    <3>3. j.from + g + (0 + i) = Len(f) + i /\ Len(f) + i \in 1..ImageLen
      <4>1. j.from + g + b <= ImageLen
        BY <1>1, <1>3, <2>2
      <4>2. i \in Nat /\ 1 <= i /\ i <= b
        BY <1>1, <2>4
      <4>0. PICK at \in Nat : at = j.from + g
        BY <1>1
      <4>5. b \in Nat /\ ImageLen \in Nat /\ at + b <= ImageLen
        BY <1>1, <4>0, <4>1
      <4>6. at + (0 + i) = at + i /\ at + i <= ImageLen /\ 1 <= at + i
        BY <4>2, <4>5
      <4>3. j.from + g + (0 + i) = j.from + g + i /\ j.from + g + i <= ImageLen /\ 1 <= j.from + g + i
        BY <4>0, <4>6
      <4> QED BY <1>1, <2>2, <4>2, <4>3
    <3> QED BY <3>2, <3>3
  <2>5. places \in [1..b -> 1..ImageLen]
    BY <2>0, <2>3, <2>4
  <2>6. places \in Seq(1..ImageLen) /\ DOMAIN places = 1..b
    BY <1>1, <2>5, SeqDef
  <2>7. Len(places) = b
    BY <1>1, <2>6, LenProperties
  <2>8. /\ f2 = f \o places /\ f2 \in Seq(1..ImageLen) /\ Len(f2) = Len(f) + b
        /\ \A k \in 1..(Len(f) + b) : f2[k] = IF k <= Len(f) THEN f[k] ELSE places[k - Len(f)]
    <3>1. f2 = f \o places
      BY <1>8, <2>1
    <3>2. /\ f \o places \in Seq(1..ImageLen) /\ Len(f \o places) = Len(f) + Len(places)
          /\ \A k \in 1..(Len(f) + Len(places)) :
               (f \o places)[k] = IF k <= Len(f) THEN f[k] ELSE places[k - Len(f)]
      BY <2>6, ConcatProperties
    <3> QED BY <2>7, <3>1, <3>2
  <2>9. ASSUME NEW k \in 1..Len(f2) PROVE f2[k] = k
    <3>0. k \in 1..(Len(f) + b)
      BY <2>8
    <3>1. CASE k <= Len(f)
      <4>1. k \in 1..Len(f)
        BY <1>1, <3>0, <3>1
      <4> QED BY <2>8, <3>0, <3>1, <4>1 DEF Filed
    <3>2. CASE ~(k <= Len(f))
      <4>1. k - Len(f) \in 1..b /\ Len(f) + (k - Len(f)) = k
        BY <1>1, <3>0, <3>2
      <4>2. places[k - Len(f)] = Len(f) + (k - Len(f))
        BY <2>4, <4>1
      <4> QED BY <2>8, <3>0, <3>2, <4>1, <4>2
    <3> QED BY <3>1, <3>2
  <2>10. Len(f2) <= ImageLen /\ Len(f2) = j2.from + Len(j2.got)
    BY <1>1, <1>2, <1>3, <2>2, <2>8
  <2> QED BY <1>5, <1>6, <2>8, <2>9, <2>10 DEF Got, Filed
<1> QED BY <1>5, <1>7, <1>8

-----------------------------------------------------------------------------
(* What the actions are made of. *)

(* The bytes of a connection are bytes.                                      *)
LEMMA Bytes ==
  ASSUME ConnTypes
  PROVE  /\ \A t \in Transport : conn[t] \in Conn /\ conn[t].in \in Seq(Byte) /\ conn[t].way \in Seq(Byte)
         /\ WifiStream \in Seq(Byte) /\ CellStream \in Seq(Byte)
<1>1. \A t \in Transport : conn[t] \in Conn
  BY DEF ConnTypes
<1>2. \A c \in Conn : c.in \in Seq(Byte) /\ c.way \in Seq(Byte)
  BY DEF Conn
<1>3. \A t \in Transport : conn[t].in \o conn[t].way \in Seq(Byte)
  BY <1>1, <1>2, ConcatProperties
<1>4. WifiStream \in Seq(Byte) /\ CellStream \in Seq(Byte)
  BY <1>3 DEF WifiStream, CellStream, Transport
<1> QED BY <1>1, <1>2, <1>4

(* A change of one connection leaves the other alone.                        *)
LEMMA SetConn ==
  ASSUME ConnTypes, NEW t \in Transport, NEW c \in Conn, conn' = [conn EXCEPT ![t] = c]
  PROVE  /\ conn' \in [Transport -> Conn]
         /\ t = "wifi" => WifiStream' = c.in \o c.way /\ CellStream' = CellStream
         /\ t = "cell" => CellStream' = c.in \o c.way /\ WifiStream' = WifiStream
<1>1. conn' \in [Transport -> Conn]
  BY DEF ConnTypes
<1>2. conn'[t] = c /\ \A u \in Transport : u # t => conn'[u] = conn[u]
  BY DEF ConnTypes
<1>3. ASSUME t = "wifi" PROVE conn'["wifi"] = c /\ conn'["cell"] = conn["cell"]
  BY <1>2, <1>3 DEF Transport
<1>4. ASSUME t = "cell" PROVE conn'["cell"] = c /\ conn'["wifi"] = conn["wifi"]
  BY <1>2, <1>4 DEF Transport
<1> QED BY <1>1, <1>3, <1>4 DEF WifiStream, CellStream

(* A session that is closed, or new, has no bytes.                           *)
LEMMA Emptied ==
  ASSUME Core, NEW c \in {NoConn, Fresh, Late}, Set(c)
  PROVE  /\ conn' \in [Transport -> Conn]
         /\ job.via = "wifi" => WifiStream' = <<>> /\ CellStream' = CellStream
         /\ job.via = "cell" => CellStream' = <<>> /\ WifiStream' = WifiStream
<1>1. c \in Conn /\ c.in = <<>> /\ c.way = <<>>
  <2>1. <<>> \in Seq(Byte)
    BY EmptySeq
  <2>2. NoConn \in Conn /\ NoConn.in = <<>> /\ NoConn.way = <<>>
    BY <2>1 DEF NoConn, Conn
  <2>3. Fresh \in Conn /\ Fresh.in = <<>> /\ Fresh.way = <<>>
    BY <2>2 DEF Fresh, Conn
  <2>4. Late \in Conn /\ Late.in = <<>> /\ Late.way = <<>>
    BY <2>3 DEF Late, Conn
  <2> QED BY <2>2, <2>3, <2>4
<1>2. <<>> \o <<>> = <<>>
  <2>1. <<>> \in Seq(Byte)
    BY EmptySeq
  <2> QED BY <2>1, ConcatEmptySeq
<1>3. job.via \in Transport /\ conn' = [conn EXCEPT ![job.via] = c] /\ ConnTypes
  BY DEF Core, Job, Set, via
<1> QED BY <1>1, <1>2, <1>3, SetConn

(* A session without bytes is clean, and so is one that is not being used.   *)
LEMMA NoBytes == \A j : Clean(<<>>) /\ Opens(j, <<>>) /\ <<>> \in Seq(Byte)
<1>1. Len(<<>>) = 0 /\ <<>> \in Seq(Byte)
  BY EmptySeq
<1> QED BY <1>1 DEF Clean, Opens

(* Before a request reads its answer, the session of WiFi has no headers.    *)
LEMMA CleanNow ==
  ASSUME Core,
         \/ job.via # "wifi"
         \/ job.pc \in {"idle", "init", "open", "send", "refused", "stop", "done"}
  PROVE  Clean(WifiStream)
BY DEF Core, Good, WifiIn

(* A read of the connection in use.                                          *)
LEMMA Taken ==
  ASSUME Core, NEW n \in 0..Len(Here.in), TakeIn(n)
  PROVE  /\ conn' \in [Transport -> Conn] /\ WifiStream' \in Seq(Byte) /\ CellStream' \in Seq(Byte)
         /\ Prefix(n) \in Seq(Byte) /\ Len(Prefix(n)) = n
         /\ \A k \in 1..n : Prefix(n)[k] = Here.in[k]
         /\ job.via = "wifi" => /\ Piece(WifiStream', WifiStream, n) /\ Piece(Prefix(n), WifiStream, 0)
                                /\ CellStream' = CellStream
         /\ job.via = "cell" => /\ Piece(CellStream', CellStream, n) /\ Piece(Prefix(n), CellStream, 0)
                                /\ WifiStream' = WifiStream
<1>1. job.via \in Transport /\ ConnTypes
  BY DEF Core, Job
<1>2. Here \in Conn /\ Here.in \in Seq(Byte) /\ Here.way \in Seq(Byte)
  BY <1>1, Bytes DEF Here, via
<1> DEFINE rest == SubSeq(Here.in, n + 1, Len(Here.in))
           c    == [Here EXCEPT !.in = rest]
<1>3. /\ rest \in Seq(Byte) /\ Piece(rest \o Here.way, Here.in \o Here.way, n)
      /\ Prefix(n) \in Seq(Byte) /\ Len(Prefix(n)) = n /\ Piece(Prefix(n), Here.in \o Here.way, 0)
      /\ \A k \in 1..n : Prefix(n)[k] = Here.in[k]
  BY <1>2, Read DEF Prefix
<1>4. conn' = [conn EXCEPT ![job.via] = c]
  BY DEF TakeIn, Set, via
<1>5. c \in Conn /\ c.in = rest /\ c.way = Here.way
  <2> HIDE DEF rest
  <2> QED BY <1>2, <1>3 DEF Conn
<1>6. /\ conn' \in [Transport -> Conn]
      /\ job.via = "wifi" => WifiStream' = rest \o Here.way /\ CellStream' = CellStream
      /\ job.via = "cell" => CellStream' = rest \o Here.way /\ WifiStream' = WifiStream
  <2> HIDE DEF rest, c
  <2>1. /\ conn' \in [Transport -> Conn]
        /\ job.via = "wifi" => WifiStream' = c.in \o c.way /\ CellStream' = CellStream
        /\ job.via = "cell" => CellStream' = c.in \o c.way /\ WifiStream' = WifiStream
    BY <1>1, <1>4, <1>5, SetConn
  <2> QED BY <1>5, <2>1
<1>7. /\ job.via = "wifi" => WifiStream = Here.in \o Here.way
      /\ job.via = "cell" => CellStream = Here.in \o Here.way
  BY DEF WifiStream, CellStream, Here, via
<1>8. rest \o Here.way \in Seq(Byte) /\ WifiStream \in Seq(Byte) /\ CellStream \in Seq(Byte)
  <2> HIDE DEF rest
  <2> QED BY <1>1, <1>2, <1>3, Bytes, ConcatProperties
<1>9. WifiStream' \in Seq(Byte) /\ CellStream' \in Seq(Byte)
  <2> HIDE DEF rest
  <2>1. job.via = "wifi" \/ job.via = "cell"
    BY <1>1 DEF Transport
  <2> QED BY <1>6, <1>8, <2>1
<1> QED
  <2> HIDE DEF rest, c
  <2> QED BY <1>3, <1>6, <1>7, <1>9

(* The new requests: Ask() and AskImage.                                     *)
LEMMA Asked ==
  ASSUME Core, NEW what \in Kinds, NEW t \in Transport
  PROVE  /\ Ask(what, t) \in Job /\ Ask(what, t).what = what /\ Ask(what, t).via = t
         /\ Ask(what, t).from = 0 /\ Ask(what, t).head = Refusal /\ Ask(what, t).got = <<>>
         /\ Ask(what, t).pc \in {"init", "open"}
<1>1. job.tag \in 0..2
  BY DEF Core, Job, Tags
<1>2. (job.tag + 1) % 3 \in Tags
  BY <1>1 DEF Tags
<1>3. PICK i : i = Idle((job.tag + 1) % 3)
  OBVIOUS
<1>4. i \in Job /\ i.from = 0 /\ i.head = Refusal /\ i.got = <<>>
  BY <1>2, <1>3, Going DEF Core
<1>5. PICK p \in {"init", "open"} : p = IF t = "cell" /\ what = "meta" THEN "init" ELSE "open"
  OBVIOUS
<1>6. Ask(what, t) = [i EXCEPT !.what = what, !.via = t, !.pc = p]
  BY <1>3, <1>5 DEF Ask
<1> QED BY <1>4, <1>5, <1>6 DEF Job, Steps

(* On with the request.                                                      *)
LEMMA GoesOn ==
  ASSUME Core, NEW p \in Steps, Go(p), UNCHANGED file, ConnTypes',
         \/ p = "close" /\ (job.via # "wifi" => Clean(WifiStream'))
         \/ /\ Clean(WifiStream')
            /\ \/ p \in {"stop", "done"}
               \/ p = "open" /\ job.pc = "init"
               \/ p = "send" /\ job.pc = "open" /\ (job.via = "cell" => CellStream' = <<>>)
  PROVE  Core'
<1>1. job' \in Job /\ Same(job', job) /\ job'.pc = p
  BY Going DEF Go, Core
<1>2. Good(job, file, WifiStream, CellStream, left) /\ job \in Job
  BY DEF Core
<1>3. Good(job', file, WifiStream', CellStream', left')
  BY <1>1, <1>2, PassGood
<1> QED BY <1>1, <1>3 DEF Core

(* Its end.                                                                  *)
LEMMA Stops ==
  ASSUME Core, Stop, UNCHANGED file, ConnTypes', Clean(WifiStream')
  PROVE  Core'
<1>1. job.tag \in Tags
  BY DEF Core, Job
<1>2. /\ job' \in Job /\ job'.pc = "idle" /\ job'.via = "wifi"
      /\ job'.what = "meta" /\ job'.from = 0 /\ job'.head = Refusal /\ job'.got = <<>>
  BY <1>1, Going DEF Stop, Core
<1>3. Filed(file)
  BY DEF Core, Good
<1>4. 0 <= Length("meta")
  BY Lengths DEF Kinds
<1>5. Good(job', file, WifiStream', CellStream', left')
  BY <1>2, <1>3, <1>4, StartGood
<1> QED BY <1>2, <1>5 DEF Core

(* A new one.                                                                *)
LEMMA Asks ==
  ASSUME Core, UNCHANGED file, ConnTypes', Clean(WifiStream'), NEW what \in Kinds, NEW t \in Transport,
         job' = Ask(what, t), what # "image", what = "loc" => t = "wifi"
  PROVE  Core'
<1>1. /\ job' \in Job /\ job'.what = what /\ job'.via = t /\ job'.from = 0 /\ job'.head = Refusal
      /\ job'.got = <<>> /\ job'.pc \in {"init", "open"}
  BY Asked
<1>2. Filed(file)
  BY DEF Core, Good
<1>3. 0 <= Length(what)
  BY Lengths
<1>4. Good(job', file, WifiStream', CellStream', left')
  BY <1>1, <1>2, <1>3, StartGood
<1> QED BY <1>1, <1>4 DEF Core

(* The image from where the partial file ends.                               *)
LEMMA AsksImage ==
  ASSUME Core, AskImage, ConnTypes', Clean(WifiStream')
  PROVE  Core'
<1>0. job.via \in Transport /\ "image" \in Kinds /\ file \in Seq(1..ImageLen) /\ Len(file) \in Nat
  BY LenProperties DEF Core, Job, Kinds
<1>1. PICK a \in Job : /\ a = Ask("image", job.via) /\ a.what = "image" /\ a.from = 0
                       /\ a.head = Refusal /\ a.got = <<>> /\ a.pc \in {"init", "open"}
  BY <1>0, Asked
<1>2. PICK from \in Nat : from = (IF Len(file) < ImageLen THEN Len(file) ELSE 0) /\ from <= ImageLen
  BY <1>0, Lengths
<1>3. job' = [a EXCEPT !.from = from]
  BY <1>1, <1>2 DEF AskImage, via
<1>4. /\ job' \in Job /\ job'.what = "image" /\ job'.from = from /\ job'.head = Refusal
      /\ job'.got = <<>> /\ job'.pc \in {"init", "open"}
  BY <1>1, <1>3 DEF Job
<1>5. Filed(file') /\ file' \in Seq(1..ImageLen) /\ Len(file') = from
  <2>1. Filed(file)
    BY DEF Core, Good
  <2>2. CASE Len(file) < ImageLen
    BY <1>0, <1>2, <2>1, <2>2 DEF AskImage
  <2>3. CASE ~(Len(file) < ImageLen)
    <3>1. file' = <<>> /\ from = 0
      BY <1>2, <2>3 DEF AskImage
    <3>2. <<>> \in Seq(1..ImageLen) /\ Len(<<>>) = 0
      BY EmptySeq
    <3>3. Filed(<<>>)
      BY <3>2, Lengths DEF Filed
    <3> QED BY <3>1, <3>2, <3>3
  <2> QED BY <2>2, <2>3
<1>6. from <= Length("image")
  BY <1>2, Lengths
<1>7. Good(job', file', WifiStream', CellStream', left')
  BY <1>4, <1>5, <1>6, StartGood
<1> QED BY <1>4, <1>5, <1>7 DEF Core

-----------------------------------------------------------------------------
(* The states of the clients, and the counters. *)

(* A fault is counted to the bound, a wait that ends may be one.             *)
LEMMA Counted ==
  ASSUME faults \in 0..MaxFault
  PROVE  /\ NoFault => faults' \in 0..MaxFault
         /\ \A f : Fault(f) => faults' \in 0..MaxFault
         /\ TimeIsUp => faults' \in 0..MaxFault
         /\ \A n : CellRead(n) => faults' \in 0..MaxFault
         /\ \A n : CellReadFails(n) => faults' \in 0..MaxFault
         /\ Answers => faults' \in 0..MaxFault
<1>1. NoFault => faults' \in 0..MaxFault
  BY DEF NoFault
<1>2. \A f : Fault(f) => faults' \in 0..MaxFault
  BY Lengths DEF Fault
<1> QED BY <1>1, <1>2 DEF TimeIsUp, CellRead, CellReadFails, Answers

(* A client goes from one of its states to another.                          *)
LEMMA StateSet ==
  ASSUME st \in [Transport -> {"disconnected", "connected", "sent", "error"}],
         NEW s \in {"disconnected", "connected", "sent", "error"}, State(s)
  PROVE  st' \in [Transport -> {"disconnected", "connected", "sent", "error"}]
BY DEF State

(* Every action keeps the states of the clients and the counters.            *)
LEMMA NextStates ==
  ASSUME HttpInv, Next
  PROVE  StateTypes'
<1>0. /\ st \in [Transport -> {"disconnected", "connected", "sent", "error"}] /\ started \in BOOLEAN
      /\ done \in BOOLEAN /\ syncs \in 0..MaxSync /\ faults \in 0..MaxFault
  BY DEF HttpInv, StateTypes
<1>1. CASE Check
  BY <1>0, <1>1 DEF Check, StateTypes
<1>2. CASE Sync
  BY <1>0, <1>2, Lengths DEF Sync, StateTypes
<1>3. CASE WifiOpen
  <2>1. st' \in [Transport -> {"disconnected", "connected", "sent", "error"}]
    BY <1>0, <1>3, StateSet DEF WifiOpen
  <2>2. faults' \in 0..MaxFault
    BY <1>0, <1>3, Counted DEF WifiOpen
  <2> QED BY <1>0, <1>3, <2>1, <2>2 DEF WifiOpen, wifiRest, StateTypes
<1>4. CASE WifiSend
  <2>1. st' \in [Transport -> {"disconnected", "connected", "sent", "error"}]
    BY <1>0, <1>4, StateSet DEF WifiSend, WifiClosed
  <2>2. faults' \in 0..MaxFault
    BY <1>0, <1>4, Counted DEF WifiSend
  <2> QED BY <1>0, <1>4, <2>1, <2>2 DEF WifiSend, wifiRest, StateTypes
<1>5. CASE WifiReceive
  BY <1>0, <1>5 DEF WifiReceive, wifiRest, StateTypes
<1>6. CASE WifiReceived
  <2>1. st' \in [Transport -> {"disconnected", "connected", "sent", "error"}]
    BY <1>0, <1>6, StateSet DEF WifiReceived, WifiClosed
  <2>2. faults' \in 0..MaxFault
    BY <1>0, <1>6, Counted DEF WifiReceived
  <2> QED BY <1>0, <1>6, <2>1, <2>2 DEF WifiReceived, wifiRest, StateTypes
<1>7. CASE WifiRefused
  <2>1. st' \in [Transport -> {"disconnected", "connected", "sent", "error"}]
    BY <1>0, <1>7, StateSet DEF WifiRefused, WifiClosed
  <2> QED BY <1>0, <1>7, <2>1 DEF WifiRefused, wifiRest, StateTypes
<1>8. CASE WifiHeaders
  <2>1. st' \in [Transport -> {"disconnected", "connected", "sent", "error"}]
    BY <1>0, <1>8, StateSet DEF WifiHeaders
  <2>2. faults' \in 0..MaxFault
    BY <1>0, <1>8, Counted DEF WifiHeaders
  <2> QED BY <1>0, <1>8, <2>1, <2>2 DEF WifiHeaders, wifiRest, StateTypes
<1>9. CASE WifiBody
  <2>1. UNCHANGED st
    BY <1>9 DEF WifiBody
  <2>2. faults' \in 0..MaxFault
    BY <1>0, <1>9, Counted DEF WifiBody
  <2> QED BY <1>0, <1>9, <2>1, <2>2 DEF WifiBody, wifiRest, StateTypes
<1>10. CASE CellInit
  <2>1. st' \in [Transport -> {"disconnected", "connected", "sent", "error"}]
    BY <1>0, <1>10, StateSet DEF CellInit
  <2>2. faults' \in 0..MaxFault
    BY <1>0, <1>10, Counted DEF CellInit
  <2>3. started' \in BOOLEAN
    BY <1>0, <1>10 DEF CellInit
  <2> QED BY <1>0, <1>10, <2>1, <2>2, <2>3 DEF CellInit, StateTypes
<1>11. CASE CellOpen
  <2>1. st' \in [Transport -> {"disconnected", "connected", "sent", "error"}]
    BY <1>0, <1>11, StateSet DEF CellOpen
  <2>2. faults' \in 0..MaxFault
    BY <1>0, <1>11, Counted DEF CellOpen
  <2> QED BY <1>0, <1>11, <2>1, <2>2 DEF CellOpen, StateTypes
<1>12. CASE CellSend
  <2>1. st' \in [Transport -> {"disconnected", "connected", "sent", "error"}]
    BY <1>0, <1>12, StateSet DEF CellSend
  <2>2. faults' \in 0..MaxFault
    BY <1>0, <1>12, Counted DEF CellSend
  <2> QED BY <1>0, <1>12, <2>1, <2>2 DEF CellSend, StateTypes
<1>13. CASE CellHeaders
  <2>1. st' \in [Transport -> {"disconnected", "connected", "sent", "error"}]
    BY <1>0, <1>13, StateSet DEF CellHeaders, AfterHeaders
  <2>2. faults' \in 0..MaxFault
    BY <1>0, <1>13, Counted DEF CellHeaders
  <2> QED BY <1>0, <1>13, <2>1, <2>2 DEF CellHeaders, StateTypes
<1>14. CASE CellBody
  <2>1. UNCHANGED st
    BY <1>14 DEF CellBody
  <2>2. faults' \in 0..MaxFault
    BY <1>0, <1>14, Counted DEF CellBody
  <2> QED BY <1>0, <1>14, <2>1, <2>2 DEF CellBody, StateTypes
<1>15. CASE CloseSession
  <2>1. st' \in [Transport -> {"disconnected", "connected", "sent", "error"}]
    BY <1>0, <1>15, StateSet DEF CloseSession
  <2> QED BY <1>0, <1>15, <2>1 DEF CloseSession, StateTypes
<1>16. CASE Finish \/ Complete
  BY <1>0, <1>16 DEF Finish, Complete, StateTypes
<1>17. CASE Reset
  <2>1. faults' \in 0..MaxFault
    BY <1>0, <1>17, Counted DEF Reset
  <2> QED BY <1>0, <1>17, <2>1 DEF Reset, StateTypes
<1>18. ASSUME NEW t \in Transport, Arrive(t) PROVE StateTypes'
  BY <1>0, <1>18 DEF Arrive, StateTypes
<1>19. ASSUME NEW t \in Transport, ServerCloses(t) PROVE StateTypes'
  <2>1. faults' \in 0..MaxFault
    BY <1>0, <1>19, Counted DEF ServerCloses
  <2> QED BY <1>0, <1>19, <2>1 DEF ServerCloses, StateTypes
<1> QED
  BY <1>1, <1>2, <1>3, <1>4, <1>5, <1>6, <1>7, <1>8, <1>9, <1>10, <1>11, <1>12, <1>13, <1>14, <1>15,
     <1>16, <1>17, <1>18, <1>19 DEF Next, Task, Wifi, Cell

-----------------------------------------------------------------------------
(* The server, the network and the ends of a request. *)

(* A connection that stays keeps its bytes.                                  *)
LEMMA Kept ==
  ASSUME Core, UNCHANGED conn
  PROVE  conn' \in [Transport -> Conn] /\ WifiStream' = WifiStream /\ CellStream' = CellStream
BY DEF Core, ConnTypes, WifiStream, CellStream

(* What came is the beginning of what was to come.                           *)
LEMMA Cut ==
  ASSUME NEW in \in Seq(Byte), NEW way \in Seq(Byte)
  PROVE  Piece(in, in \o way, 0)
<1>1. /\ Len(in \o way) = Len(in) + Len(way)
      /\ \A k \in 1..(Len(in) + Len(way)) : (in \o way)[k] = IF k <= Len(in) THEN in[k] ELSE way[k - Len(in)]
  BY ConcatProperties
<1>2. Len(in) \in Nat /\ Len(way) \in Nat
  BY LenProperties
<1> QED BY <1>1, <1>2 DEF Piece

(* Bytes arrive or are lost: the request goes on.                            *)
LEMMA NetworkCore ==
  ASSUME Core, NEW t \in Transport, Arrive(t) \/ ServerCloses(t)
  PROVE  Core'
<1>0. /\ ConnTypes /\ conn[t] \in Conn /\ conn[t].in \in Seq(Byte) /\ conn[t].way \in Seq(Byte)
      /\ WifiStream \in Seq(Byte) /\ CellStream \in Seq(Byte) /\ job \in Job /\ left \in Seq(Byte)
      /\ file \in Seq(1..ImageLen)
  BY Bytes DEF Core, ConnTypes
<1>1. PICK c \in Conn : /\ conn' = [conn EXCEPT ![t] = c]
                        /\ c.in \o c.way \in Seq(Byte)
                        /\ Piece(c.in \o c.way, conn[t].in \o conn[t].way, 0)
  <2>1. CASE Arrive(t)
    <3>1. PICK in \in Seq(Byte) : in = Append(conn[t].in, conn[t].way[1])
      BY <1>0, <2>1, Arriving DEF Arrive
    <3>2. PICK way \in Seq(Byte) : way = Tail(conn[t].way)
      BY <1>0, <2>1, Arriving DEF Arrive
    <3>3. PICK c : c = [conn[t] EXCEPT !.in = in, !.way = way]
      OBVIOUS
    <3>4. c \in Conn /\ c.in = in /\ c.way = way
      BY <1>0, <3>3 DEF Conn
    <3>5. conn' = [conn EXCEPT ![t] = c]
      BY <1>0, <2>1, <3>1, <3>2, <3>3 DEF Arrive, ConnTypes
    <3>6. Piece(in \o way, conn[t].in \o conn[t].way, 0)
      BY <1>0, <2>1, <3>1, <3>2, Arriving DEF Arrive
    <3>7. in \o way \in Seq(Byte)
      BY ConcatProperties
    <3> QED BY <3>4, <3>5, <3>6, <3>7
  <2>2. CASE ServerCloses(t)
    <3>1. PICK c : c = [conn[t] EXCEPT !.way = <<>>, !.fin = TRUE]
      OBVIOUS
    <3>2. c \in Conn /\ c.in = conn[t].in /\ c.way = <<>>
      <4>1. <<>> \in Seq(Byte)
        BY EmptySeq
      <4> QED BY <1>0, <3>1, <4>1 DEF Conn
    <3>3. conn' = [conn EXCEPT ![t] = c]
      BY <1>0, <2>2, <3>1 DEF ServerCloses, ConnTypes
    <3>4. c.in \o c.way = conn[t].in
      BY <1>0, <3>2, ConcatEmptySeq
    <3>5. Piece(conn[t].in, conn[t].in \o conn[t].way, 0)
      BY <1>0, Cut
    <3> QED BY <1>0, <3>2, <3>3, <3>4, <3>5
  <2> QED BY <2>1, <2>2
<1>2. UNCHANGED <<left, job, file>>
  BY DEF Arrive, ServerCloses
<1>3. /\ conn' \in [Transport -> Conn]
      /\ t = "wifi" => WifiStream' = c.in \o c.way /\ CellStream' = CellStream
      /\ t = "cell" => CellStream' = c.in \o c.way /\ WifiStream' = WifiStream
  BY <1>0, <1>1, SetConn
<1>4. \A s \in Seq(Byte) : Piece(s, s, 0)
  <2>1. \A s \in Seq(Byte) : Len(s) \in Nat
    BY LenProperties
  <2> QED BY <2>1 DEF Piece
<1>5. /\ WifiStream' \in Seq(Byte) /\ CellStream' \in Seq(Byte)
      /\ Piece(WifiStream', WifiStream, 0) /\ Piece(CellStream', CellStream, 0)
  <2>1. CASE t = "wifi"
    BY <1>0, <1>1, <1>3, <1>4, <2>1 DEF WifiStream
  <2>2. CASE t = "cell"
    BY <1>0, <1>1, <1>3, <1>4, <2>2 DEF CellStream
  <2> QED BY <2>1, <2>2 DEF Transport
<1>6. Good(job, file, WifiStream, CellStream, left) /\ Same(job, job) /\ 0 \in Nat
  BY DEF Core, Same
<1>7. Good(job, file, WifiStream', CellStream', left)
  BY <1>0, <1>5, <1>6, StayGood
<1> QED BY <1>0, <1>2, <1>3, <1>7 DEF Core, ConnTypes

(* The answer to the request just sent.                                      *)
LEMMA AnswersCome ==
  ASSUME Core, job.pc = "send", Answers
  PROVE  /\ conn' \in [Transport -> Conn]
         /\ job.via = "wifi" => Opens(job, WifiStream') /\ CellStream' = CellStream
         /\ job.via = "cell" => /\ WifiStream' = WifiStream /\ Opens(job, CellStream')
                                /\ CellStream' # <<>> => IsHead(CellStream'[1])
<1>0. /\ ConnTypes /\ job \in Job /\ job.via \in Transport /\ Here \in Conn /\ Here.in \in Seq(Byte)
      /\ Here.way \in Seq(Byte)
  BY Bytes DEF Core, Job, Here, via
<1>1. job.from <= Length(job.what)
  <2>1. Got(job, file) /\ Place(job)
    BY DEF Core, Good
  <2>2. job.got = <<>> /\ job.from \in Nat
    BY <1>0, <2>1 DEF Place, Job
  <2>3. Len(job.got) = 0
    BY <2>2, EmptySeq
  <2> QED BY <2>1, <2>2, <2>3 DEF Got
<1>2. PICK h \in {KeepAlive, Close, Refusal} : Set([Here EXCEPT !.way = @ \o Answer(h)])
  BY DEF Answers
<1>3. PICK a : a = Answer(h)
  OBVIOUS
<1>4. a = Reply(job, h)
  BY <1>3 DEF Answer, Reply, Body, Wanted
<1>5. Clean(WifiStream) /\ (job.via = "cell" => CellStream = <<>>)
  <2>1. CellIn(job, CellStream, left)
    BY DEF Core, Good
  <2> QED BY <2>1, CleanNow DEF CellIn
<1>6. a \in Seq(Byte) /\ a # <<>> /\ IsHead(a[1])
  BY <1>0, <1>1, <1>4, NoBytes, Answered
<1>7. PICK c : c = [Here EXCEPT !.way = @ \o a]
  OBVIOUS
<1>8. c \in Conn /\ c.in = Here.in /\ c.way = Here.way \o a
  <2>1. Here.way \o a \in Seq(Byte)
    BY <1>0, <1>6, ConcatProperties
  <2> QED BY <1>0, <1>7, <2>1 DEF Conn
<1>9. /\ conn' \in [Transport -> Conn]
      /\ job.via = "wifi" => WifiStream' = c.in \o c.way /\ CellStream' = CellStream
      /\ job.via = "cell" => CellStream' = c.in \o c.way /\ WifiStream' = WifiStream
  <2>1. conn' = [conn EXCEPT ![job.via] = c]
    BY <1>2, <1>3, <1>7 DEF Set, via
  <2> QED BY <1>0, <1>8, <2>1, SetConn
<1>10. c.in \o c.way = (Here.in \o Here.way) \o a
  <2>1. (Here.in \o Here.way) \o a = Here.in \o (Here.way \o a)
    <3>1. PICK in \in Seq(Byte) : in = Here.in
      BY <1>0
    <3>2. PICK way \in Seq(Byte) : way = Here.way
      BY <1>0
    <3>3. a \in Seq(Byte)
      BY <1>6
    <3>4. (in \o way) \o a = in \o (way \o a)
      BY <3>3, ConcatAssociative
    <3> QED BY <3>1, <3>2, <3>4
  <2> QED BY <1>8, <2>1
<1>11. ASSUME job.via = "wifi" PROVE Opens(job, WifiStream')
  <2>1. WifiStream' = WifiStream \o a
    BY <1>9, <1>10, <1>11 DEF WifiStream, Here, via
  <2>2. WifiStream \in Seq(Byte)
    BY <1>0, Bytes
  <2> QED BY <1>0, <1>1, <1>4, <1>5, <2>1, <2>2, Answered
<1>12. ASSUME job.via = "cell" PROVE CellStream' = a /\ Opens(job, a)
  <2>1. CellStream' = CellStream \o a
    BY <1>9, <1>10, <1>12 DEF CellStream, Here, via
  <2>2. CellStream = <<>>
    BY <1>5, <1>12
  <2>3. <<>> \o a = a
    BY <1>6, ConcatEmptySeq
  <2>4. Opens(job, <<>> \o a)
    BY <1>0, <1>1, <1>4, NoBytes, Answered
  <2> QED BY <2>1, <2>2, <2>3, <2>4
<1> QED BY <1>6, <1>9, <1>11, <1>12

(* The start of a request, its end and a reset.                              *)
LEMMA CheckCore ==
  ASSUME Core, Check \/ Sync
  PROVE  Core'
<1>1. UNCHANGED <<conn, left, file>> /\ job.pc = "idle"
  BY DEF Check, Sync
<1>2. ConnTypes' /\ Clean(WifiStream')
  BY <1>1, Kept, CleanNow DEF Core, ConnTypes
<1>3. CASE Check
  <2>1. PICK t \in Transport : job' = Ask("meta", t)
    BY <1>3 DEF Check
  <2> QED BY <1>1, <1>2, <2>1, Asks DEF Kinds
<1>4. CASE Sync
  <2>1. job' = Ask("loc", "wifi")
    BY <1>4 DEF Sync
  <2> QED BY <1>1, <1>2, <2>1, Asks DEF Kinds, Transport
<1> QED BY <1>3, <1>4

(* close() leaves no bytes.                                                  *)
LEMMA CloseCore ==
  ASSUME Core, CloseSession
  PROVE  Core'
<1>1. Set(NoConn) /\ UNCHANGED <<left, file>> /\ job.via \in Transport
  BY DEF CloseSession, Core, Job
<1>2. conn' \in [Transport -> Conn] /\ Clean(WifiStream')
  <2>1. CASE job.via = "wifi"
    BY <1>1, <2>1, Emptied, NoBytes
  <2>2. CASE job.via = "cell"
    BY <1>1, <2>2, Emptied, CleanNow
  <2> QED BY <1>1, <2>1, <2>2 DEF Transport
<1>3. ConnTypes'
  BY <1>1, <1>2 DEF Core, ConnTypes
<1>4. PICK p \in {"stop", "done"} : Go(p)
  BY DEF CloseSession
<1> QED BY <1>1, <1>2, <1>3, <1>4, GoesOn DEF Steps

(* What the answer leads to is a request that starts.                        *)
LEMMA FinishCore ==
  ASSUME Core, Finish \/ Complete
  PROVE  Core'
<1>1. UNCHANGED <<conn, left>> /\ job.pc \in {"stop", "done"} /\ job.via \in Transport
  BY DEF Finish, Complete, Core, Job
<1>2. ConnTypes' /\ Clean(WifiStream')
  BY <1>1, Kept, CleanNow DEF Core, ConnTypes
<1>3. CASE Stop /\ UNCHANGED file
  BY <1>2, <1>3, Stops
<1>4. CASE AskImage
  BY <1>2, <1>4, AsksImage
<1>5. CASE job' = Ask("confirm", via) /\ UNCHANGED file
  <2>1. job' = Ask("confirm", job.via)
    BY <1>5 DEF via
  <2> QED BY <1>1, <1>2, <1>5, <2>1, Asks DEF Kinds
<1> QED BY <1>3, <1>4, <1>5 DEF Finish, Complete

(* After a reset there is no request and no session of WiFi.                 *)
LEMMA ResetCore ==
  ASSUME Core, Reset
  PROVE  Core'
<1>1. conn' = [conn EXCEPT !["wifi"] = NoConn] /\ left' = <<>> /\ Stop /\ UNCHANGED file
  BY DEF Reset
<1>2. NoConn \in Conn /\ NoConn.in = <<>> /\ NoConn.way = <<>>
  BY NoBytes DEF NoConn, Conn
<1>3. conn' \in [Transport -> Conn] /\ WifiStream' = NoConn.in \o NoConn.way
  BY <1>1, <1>2, SetConn DEF Core, Transport
<1>4. WifiStream' = <<>>
  <2>1. <<>> \o <<>> = <<>>
    BY NoBytes, ConcatEmptySeq
  <2> QED BY <1>2, <1>3, <2>1
<1>5. ConnTypes' /\ Clean(WifiStream')
  BY <1>1, <1>3, <1>4, NoBytes DEF ConnTypes
<1> QED BY <1>1, <1>5, Stops

-----------------------------------------------------------------------------
(* WifiHTTP *)

(* The request in work, and what is known of its session.                    *)
LEMMA Working ==
  ASSUME Core
  PROVE  /\ job \in Job /\ job.via \in Transport /\ job.what \in Kinds /\ job.from \in Nat
         /\ job.got \in Seq(Byte) /\ Len(job.got) \in Nat /\ file \in Seq(1..ImageLen)
         /\ left \in Seq(Byte) /\ Here.in \in Seq(Byte) /\ Len(Here.in) \in Nat
         /\ (Here.in # <<>> => Len(Here.in) >= 1)
         /\ WifiStream \in Seq(Byte) /\ CellStream \in Seq(Byte)
         /\ Place(job) /\ Got(job, file) /\ Filed(file) /\ WifiIn(job, WifiStream)
         /\ CellIn(job, CellStream, left) /\ ConnTypes
<1>1. /\ job \in Job /\ job.via \in Transport /\ job.what \in Kinds /\ job.from \in Nat
      /\ job.got \in Seq(Byte) /\ file \in Seq(1..ImageLen) /\ ConnTypes /\ left \in Seq(Byte)
  BY DEF Core, Job, ConnTypes
<1>2. WifiStream \in Seq(Byte) /\ CellStream \in Seq(Byte) /\ Here.in \in Seq(Byte)
  BY <1>1, Bytes DEF Here, via
<1>3. Len(job.got) \in Nat /\ Len(Here.in) \in Nat /\ (Here.in # <<>> => Len(Here.in) >= 1)
  BY <1>1, <1>2, LenProperties, EmptySeq
<1> QED BY <1>1, <1>2, <1>3 DEF Core, Good

(* Behind the headers there is nothing but the body.                         *)
LEMMA HeadFound ==
  ASSUME NEW j \in Job, NEW j2 \in Job, NEW s \in Seq(Byte), NEW s2 \in Seq(Byte), Opens(j, s),
         1 <= Len(s), IsHead(s[1]), Piece(s2, s, 1), j2.got = <<>>,
         j2.what = j.what, j2.tag = j.tag, j2.from = j.from
  PROVE  Rest(j2, s2)
<1>1. Len(s) \in Nat /\ Len(s2) \in Nat /\ 1 \in 1..Len(s) /\ 1 \in Nat /\ j.from \in Nat
  BY LenProperties DEF Job
<1>2. /\ \A k \in 1..Len(s2) : s2[k] = <<j.tag, j.from + k>>
      /\ j.from + Len(s2) <= Length(j.what)
  BY <1>1, PieceOf
<1>3. Len(j2.got) = 0
  BY EmptySeq
<1>4. j2.from + Len(j2.got) = j2.from
  BY <1>1, <1>3
<1> QED BY <1>2, <1>4 DEF Rest

(* The first byte read is the first of the stream.                           *)
LEMMA FirstByte ==
  ASSUME Core, Here.in # <<>>
  PROVE  /\ 1 \in 0..Len(Here.in) /\ Here.in[1] \in Byte
         /\ job.via = "wifi" => WifiStream[1] = Here.in[1] /\ Len(WifiStream) >= 1
         /\ job.via = "cell" => CellStream[1] = Here.in[1] /\ Len(CellStream) >= 1
<1>1. Here.in \in Seq(Byte) /\ Len(Here.in) \in Nat /\ Len(Here.in) >= 1 /\ job.via \in Transport
  BY Working
<1>2. Here.way \in Seq(Byte)
  BY <1>1, Bytes DEF Core, Here, via
<1>3. Here.in[1] \in Byte
  BY <1>1, ElementOfSeq
<1>4. Piece(Here.in, Here.in \o Here.way, 0)
  BY <1>1, <1>2, Cut
<1>5. PICK all : all = Here.in \o Here.way
  OBVIOUS
<1>6. all \in Seq(Byte)
  BY <1>1, <1>2, <1>5, ConcatProperties
<1>7. all[1] = Here.in[1] /\ Len(all) >= 1
  <2>1. Len(Here.in) + 0 <= Len(all) /\ \A k \in 1..Len(Here.in) : Here.in[k] = all[0 + k]
    BY <1>4, <1>5 DEF Piece
  <2>2. 1 \in 1..Len(Here.in) /\ 0 + 1 = 1 /\ Len(all) \in Nat
    BY <1>1, <1>6, LenProperties
  <2>3. Here.in[1] = all[0 + 1]
    BY <2>1, <2>2
  <2> QED BY <1>1, <2>1, <2>2, <2>3
<1>8. /\ job.via = "wifi" => WifiStream = all
      /\ job.via = "cell" => CellStream = all
  BY <1>5 DEF WifiStream, CellStream, Here, via
<1> QED BY <1>1, <1>3, <1>7, <1>8

(* open(): the session is clean, used again or new.                          *)
LEMMA WifiOpenCore ==
  ASSUME Core, WifiOpen
  PROVE  Core'
<1>1. job.via = "wifi" /\ job.pc = "open" /\ UNCHANGED <<left, file>>
  BY DEF WifiOpen, OnWifi, via, wifiRest
<1>2. CASE Go("send") /\ (UNCHANGED conn \/ Set(Fresh))
  <2>1. conn' \in [Transport -> Conn] /\ Clean(WifiStream')
    BY <1>1, <1>2, Kept, Emptied, CleanNow, NoBytes
  <2>2. ConnTypes'
    BY <1>1, <2>1 DEF Core, ConnTypes
  <2> QED BY <1>1, <1>2, <2>1, <2>2, GoesOn DEF Steps
<1>3. CASE Set(NoConn) /\ Go(IF job.what = "confirm" THEN "close" ELSE "stop")
  <2>1. conn' \in [Transport -> Conn] /\ Clean(WifiStream')
    BY <1>1, <1>3, Emptied, NoBytes
  <2>2. ConnTypes'
    BY <1>1, <2>1 DEF Core, ConnTypes
  <2>3. PICK p \in {"close", "stop"} : Go(p)
    BY <1>3
  <2> QED BY <1>1, <2>1, <2>2, <2>3, GoesOn DEF Steps
<1> QED BY <1>2, <1>3 DEF WifiOpen

(* send(): the answer comes behind what is left in the session.              *)
LEMMA WifiSendCore ==
  ASSUME Core, WifiSend
  PROVE  Core'
<1>1. job.via = "wifi" /\ job.pc = "send" /\ UNCHANGED <<left, file>> /\ Clean(WifiStream)
  BY CleanNow DEF WifiSend, OnWifi, via, wifiRest
<1>2. CASE /\ Answers \/ UNCHANGED conn
           /\ Go(IF job.what \in {"loc", "meta"} THEN "receive" ELSE "headers")
  <2>1. conn' \in [Transport -> Conn] /\ Opens(job, WifiStream')
    <3>1. CASE Answers
      BY <1>1, <3>1, AnswersCome
    <3>2. CASE UNCHANGED conn
      <4>1. conn' \in [Transport -> Conn] /\ WifiStream' = WifiStream
        BY <3>2, Kept
      <4>2. Opens(job, WifiStream)
        BY <1>1 DEF Clean, Opens
      <4> QED BY <4>1, <4>2
    <3> QED BY <1>2, <3>1, <3>2
  <2>2. ConnTypes'
    BY <1>1, <2>1 DEF Core, ConnTypes
  <2>3. PICK p \in Steps : p = (IF job.what \in {"loc", "meta"} THEN "receive" ELSE "headers") /\ Go(p)
    BY <1>2 DEF Steps
  <2>4. job' \in Job /\ Same(job', job) /\ job'.pc = p
    BY <2>3, Going DEF Go, Core
  <2>5. Good(job, file, WifiStream, CellStream, left) /\ job \in Job
    BY DEF Core
  <2>6. p = IF job.via = "wifi" /\ job.what \in {"loc", "meta"} THEN "receive" ELSE "headers"
    BY <1>1, <2>3
  <2>7. Good(job', file, WifiStream', CellStream', left)
    BY <1>1, <2>1, <2>4, <2>5, <2>6, SentGood
  <2> QED BY <1>1, <2>2, <2>4, <2>7 DEF Core
<1>3. CASE (UNCHANGED conn \/ Set(NoConn)) /\ Go(IF job.what = "confirm" THEN "done" ELSE "stop")
  <2>1. conn' \in [Transport -> Conn] /\ Clean(WifiStream')
    BY <1>1, <1>3, Kept, Emptied, NoBytes
  <2>2. ConnTypes'
    BY <1>1, <2>1 DEF Core, ConnTypes
  <2>3. PICK p \in {"done", "stop"} : Go(p)
    BY <1>3
  <2> QED BY <1>1, <2>1, <2>2, <2>3, GoesOn DEF Steps
<1> QED BY <1>2, <1>3 DEF WifiSend, WifiClosed

(* receive(): what an earlier answer left is dropped, then comes the body.   *)
LEMMA WifiReceiveCore ==
  ASSUME Core, WifiReceive
  PROVE  Core'
<1> DEFINE b == Here.in[1]
           j == [job EXCEPT !.seen = @ + 1]
<1>0. /\ job.via = "wifi" /\ job.pc = "receive" /\ UNCHANGED <<left, file>> /\ Here.in # <<>>
      /\ TakeIn(1)
  BY DEF WifiReceive, OnWifi, via, wifiRest
<1>1. /\ 1 \in 0..Len(Here.in) /\ b \in Byte /\ WifiStream[1] = b /\ Len(WifiStream) >= 1
  BY <1>0, FirstByte
<1>2. /\ conn' \in [Transport -> Conn] /\ WifiStream' \in Seq(Byte) /\ CellStream' = CellStream
      /\ Piece(WifiStream', WifiStream, 1)
  BY <1>0, <1>1, Taken
<1>3. ConnTypes'
  BY <1>0, <1>2 DEF Core, ConnTypes
<1>4. /\ job \in Job /\ WifiStream \in Seq(Byte) /\ CellStream \in Seq(Byte) /\ left \in Seq(Byte)
      /\ Place(job) /\ Got(job, file) /\ Filed(file) /\ WifiIn(job, WifiStream)
      /\ job.what \in {"loc", "meta"} /\ job.got \in Seq(Byte) /\ file \in Seq(1..ImageLen)
      /\ Good(job, file, WifiStream, CellStream, left)
  <2>1. Place(job)
    BY Working
  <2>2. job.what \in {"loc", "meta"}
    BY <1>0, <2>1 DEF Place
  <2> QED BY <2>2, Working DEF Core
<1>5. j \in Job /\ Same(j, job) /\ j.pc = job.pc
  <2>1. job \in Job
    BY <1>4
  <2>2. PICK n \in Nat : n = job.seen + 1
    BY <2>1 DEF Job
  <2>3. j = [job EXCEPT !.seen = n]
    BY <2>2
  <2> HIDE DEF j
  <2> QED BY <2>1, <2>3 DEF Job, Same
<1>6. b[2] \in Refusal..Top
  BY <1>1 DEF Byte
<1> HIDE DEF b, j
<1>7. /\ job.head # Refusal => job' = [j EXCEPT !.got = Append(@, b)]
      /\ job.head = Refusal /\ b[2] = Refusal => job' = [j EXCEPT !.pc = "refused"]
      /\ job.head = Refusal /\ b[2] # Refusal /\ IsHead(b) => job' = [j EXCEPT !.head = b[2]]
      /\ job.head = Refusal /\ b[2] # Refusal /\ ~IsHead(b) => job' = j
  BY DEF WifiReceive, b, j
<1>8. CASE job.head # Refusal
  <2>1. job' = [j EXCEPT !.got = Append(@, b)]
    BY <1>7, <1>8
  <2>2. Append(job.got, b) = job.got \o <<b>> /\ Append(job.got, b) \in Seq(Byte)
    BY <1>1, <1>4, AppendIsConcat, AppendProperties
  <2>3. /\ job' \in Job /\ job'.got = job.got \o <<b>> /\ job'.pc = job.pc /\ job'.via = job.via
        /\ job'.what = job.what /\ job'.tag = job.tag /\ job'.from = job.from /\ job'.head = job.head
    <3>1. j.got = job.got /\ Append(j.got, b) \in Seq(Byte)
      BY <1>5, <2>2 DEF Same
    <3>2. PICK g \in Seq(Byte) : g = Append(j.got, b)
      BY <3>1
    <3>3. job' = [j EXCEPT !.got = g]
      BY <2>1, <3>2
    <3> QED BY <1>5, <2>2, <3>1, <3>2, <3>3 DEF Job, Same
  <2>4. Rest(job, WifiStream)
    BY <1>0, <1>4, <1>8 DEF WifiIn, RestDue
  <2>5. PICK bytes \in Seq(Byte) : bytes = <<b>> /\ Len(bytes) = 1 /\ bytes[1] = b
    <3>1. b \in Byte
      BY <1>1
    <3>2. <<b>> \in Seq(Byte) /\ Len(<<b>>) = 1 /\ <<b>>[1] = b
      BY <3>1
    <3> QED BY <3>2
  <2>6. Piece(bytes, WifiStream, 0)
    <3>1. ASSUME NEW k \in 1..Len(bytes) PROVE bytes[k] = WifiStream[0 + k]
      <4>1. k = 1
        BY <2>5, <3>1
      <4> QED BY <1>1, <2>5, <4>1
    <3>2. Len(WifiStream) \in Nat
      BY <1>4, LenProperties
    <3> QED BY <1>1, <2>5, <3>1, <3>2 DEF Piece
  <2>7. Got(job', file) /\ Rest(job', WifiStream')
    <3>1. job'.got = job.got \o bytes
      BY <2>3, <2>5
    <3>2. Piece(WifiStream', WifiStream, Len(bytes))
      BY <1>2, <2>5
    <3>3. job.what # "image"
      BY <1>4
    <3> QED BY <1>2, <1>4, <2>3, <2>4, <2>6, <3>1, <3>2, <3>3, BodyRead
  <2>8. Place(job') /\ WifiIn(job', WifiStream') /\ CellIn(job', CellStream', left)
    BY <1>0, <1>4, <1>8, <2>3, <2>7 DEF Place, WifiIn, CellIn, HeadDue, RestDue
  <2> QED BY <1>0, <1>3, <1>4, <2>3, <2>7, <2>8 DEF Core, Good
<1>9. CASE job.head = Refusal /\ ~IsHead(b) /\ b[2] # Refusal
  <2>1. job' = j /\ ~RestDue(job)
    BY <1>0, <1>7, <1>9 DEF RestDue
  <2>2. Piece(CellStream', CellStream, 0)
    <3>1. Len(CellStream) \in Nat
      BY <1>4, LenProperties
    <3> QED BY <1>2, <3>1 DEF Piece
  <2>3. Good(job', file, WifiStream', CellStream', left)
    BY <1>2, <1>4, <1>5, <2>1, <2>2, StayGood
  <2> QED BY <1>0, <1>3, <1>4, <1>5, <2>1, <2>3 DEF Core
<1>10. CASE job.head = Refusal /\ IsHead(b)
  <2>1. Opens(job, WifiStream) /\ job.got = <<>>
    BY <1>0, <1>4, <1>10 DEF WifiIn, HeadDue, Place
  <2>0. PICK h \in Refusal..Top : h = b[2]
    BY <1>6
  <2>2. PICK p \in {"receive", "refused"} : p = (IF h = Refusal THEN "refused" ELSE "receive")
    OBVIOUS
  <2>3. /\ job' \in Job /\ job'.pc = p /\ job'.via = job.via /\ job'.what = job.what
        /\ job'.tag = job.tag /\ job'.from = job.from /\ job'.head = h /\ job'.got = <<>>
    <3>1. CASE b[2] = Refusal
      BY <1>5, <1>7, <1>10, <2>0, <2>1, <2>2, <3>1 DEF Job, Same, Steps
    <3>2. CASE b[2] # Refusal
      BY <1>0, <1>5, <1>7, <1>10, <2>0, <2>1, <2>2, <3>2 DEF Job, Same
    <3> QED BY <3>1, <3>2
  <2>4. Rest(job', WifiStream')
    <3>1. 1 <= Len(WifiStream) /\ IsHead(WifiStream[1])
      BY <1>1, <1>10
    <3> QED BY <1>2, <1>4, <2>1, <2>3, <3>1, HeadFound
  <2>5. Clean(WifiStream')
    BY <1>2, <2>3, <2>4, RestIsClean
  <2>6. Got(job', file)
    BY <1>4, <2>1, <2>3 DEF Got
  <2>7. Place(job') /\ WifiIn(job', WifiStream') /\ CellIn(job', CellStream', left)
    BY <1>0, <1>4, <2>2, <2>3, <2>4, <2>5 DEF Place, WifiIn, CellIn, HeadDue, RestDue
  <2> QED BY <1>0, <1>3, <1>4, <2>3, <2>6, <2>7 DEF Core, Good
<1>11. IsHead(b) \/ b[2] # Refusal
  BY <1>6 DEF IsHead, Refusal
<1> QED BY <1>8, <1>9, <1>10, <1>11

(* Its end: what is left in the session has no headers.                      *)
LEMMA WifiReceivedCore ==
  ASSUME Core, WifiReceived \/ WifiRefused
  PROVE  Core'
<1>0. /\ job.via = "wifi" /\ job.pc \in {"receive", "refused"} /\ UNCHANGED left
  BY DEF WifiReceived, WifiRefused, OnWifi, via, wifiRest
<1>1. CASE WifiClosed /\ Stop /\ UNCHANGED file
  <2>1. conn' \in [Transport -> Conn] /\ Clean(WifiStream')
    BY <1>0, <1>1, Emptied, NoBytes DEF WifiClosed
  <2>2. ConnTypes'
    BY <1>0, <2>1 DEF Core, ConnTypes
  <2> QED BY <1>1, <2>1, <2>2, Stops
<1>2. CASE /\ UNCHANGED conn /\ (job.pc = "refused" \/ job.head # Refusal)
           /\ AskImage \/ (Stop /\ UNCHANGED file)
  <2>1. conn' \in [Transport -> Conn] /\ WifiStream' = WifiStream
    BY <1>2, Kept
  <2>2. ConnTypes'
    BY <1>0, <2>1 DEF Core, ConnTypes
  <2>3. Clean(WifiStream)
    <3>1. CASE job.pc = "refused"
      BY <3>1, CleanNow
    <3>2. CASE job.pc = "receive" /\ job.head # Refusal
      <4>1. Rest(job, WifiStream)
        BY <1>0, <3>2, Working DEF WifiIn, RestDue
      <4> QED BY <4>1, Working, RestIsClean
    <3> QED BY <1>0, <1>2, <3>1, <3>2
  <2> QED BY <1>2, <2>1, <2>2, <2>3, Stops, AsksImage
<1> QED BY <1>0, <1>1, <1>2 DEF WifiReceived, WifiRefused, OnWifi

(* receiveHeaders(): everything before the headers is dropped.               *)
LEMMA WifiHeadersCore ==
  ASSUME Core, WifiHeaders
  PROVE  Core'
<1> DEFINE b == Here.in[1]
<1>0. job.via = "wifi" /\ job.pc = "headers" /\ UNCHANGED <<left, file>>
  BY DEF WifiHeaders, OnWifi, via, wifiRest
<1>1. CASE UNCHANGED conn /\ Go("close")
  <2>1. ConnTypes'
    BY <1>0, <1>1, Kept DEF Core, ConnTypes
  <2> QED BY <1>0, <1>1, <2>1, GoesOn DEF Steps
<1>2. CASE /\ Here.in # <<>> /\ TakeIn(1)
           /\ \/ ~IsHead(b) /\ UNCHANGED job
              \/ IsHead(b) /\ Go("close")
              \/ IsHead(b) /\ job.what # "confirm" /\ Go("body")
  <2>1. /\ 1 \in 0..Len(Here.in) /\ WifiStream[1] = b /\ Len(WifiStream) >= 1
    BY <1>0, <1>2, FirstByte
  <2>2. /\ conn' \in [Transport -> Conn] /\ WifiStream' \in Seq(Byte) /\ CellStream' = CellStream
        /\ Piece(WifiStream', WifiStream, 1)
    BY <1>0, <1>2, <2>1, Taken
  <2>3. ConnTypes'
    BY <1>0, <2>2 DEF Core, ConnTypes
  <2>4. /\ job \in Job /\ WifiStream \in Seq(Byte) /\ CellStream \in Seq(Byte) /\ left \in Seq(Byte)
        /\ Place(job) /\ Got(job, file) /\ Filed(file) /\ WifiIn(job, WifiStream)
        /\ file \in Seq(1..ImageLen) /\ job.what \in Kinds
        /\ Good(job, file, WifiStream, CellStream, left)
    BY Working DEF Core
  <2> HIDE DEF b
  <2>5. CASE UNCHANGED job
    <3>1. ~RestDue(job) /\ Same(job, job)
      BY <1>0 DEF RestDue, Same
    <3>2. Piece(CellStream', CellStream, 0)
      <4>1. Len(CellStream) \in Nat
        BY <2>4, LenProperties
      <4> QED BY <2>2, <4>1 DEF Piece
    <3>3. Good(job, file, WifiStream', CellStream', left)
      BY <2>2, <2>4, <3>1, <3>2, StayGood
    <3> QED BY <1>0, <2>3, <2>4, <2>5, <3>3 DEF Core
  <2>6. CASE Go("close")
    BY <1>0, <2>3, <2>6, GoesOn DEF Steps
  <2>7. CASE IsHead(b) /\ job.what # "confirm" /\ Go("body")
    <3>1. job' \in Job /\ Same(job', job) /\ job'.pc = "body"
      BY <2>4, <2>7, Going DEF Go, Steps
    <3>2. Opens(job, WifiStream) /\ job.got = <<>> /\ job.head = Refusal /\ job.what = "image"
      BY <1>0, <2>4, <2>7 DEF WifiIn, HeadDue, Place, Kinds
    <3>3. Rest(job', WifiStream')
      <4>1. 1 <= Len(WifiStream) /\ IsHead(WifiStream[1])
        BY <2>1, <2>7
      <4> QED BY <2>2, <2>4, <3>1, <3>2, <4>1, HeadFound DEF Same
    <3>4. Got(job', file)
      BY <2>4, <3>1 DEF Got, Same
    <3>5. Place(job') /\ WifiIn(job', WifiStream') /\ CellIn(job', CellStream', left)
      BY <1>0, <3>1, <3>2, <3>3 DEF Place, WifiIn, CellIn, HeadDue, RestDue, Same
    <3> QED BY <1>0, <2>3, <2>4, <3>1, <3>4, <3>5 DEF Core, Good
  <2> QED BY <1>2, <2>5, <2>6, <2>7
<1> QED BY <1>1, <1>2 DEF WifiHeaders

(* A read of the image's body: it goes to the file.                          *)
LEMMA Stored ==
  ASSUME Core, NEW bytes \in Seq(Byte), Store(bytes)
  PROVE  /\ job' \in Job /\ job'.got = job.got \o bytes /\ job'.pc = job.pc /\ job'.via = job.via
         /\ job'.what = job.what /\ job'.tag = job.tag /\ job'.from = job.from /\ job'.head = job.head
         /\ file' = file \o Places(bytes)
<1>1. job \in Job /\ job.got \in Seq(Byte)
  BY Working
<1>2. PICK g \in Seq(Byte) : g = job.got \o bytes
  BY <1>1, ConcatProperties
<1>3. job' = [job EXCEPT !.got = g]
  BY <1>2 DEF Store
<1>4. file' = file \o Places(bytes)
  BY DEF Store, Places
<1>5. /\ job' \in Job /\ job'.got = g /\ job'.pc = job.pc /\ job'.via = job.via
      /\ job'.what = job.what /\ job'.tag = job.tag /\ job'.from = job.from /\ job'.head = job.head
  BY <1>1, <1>3 DEF Job
<1> QED BY <1>2, <1>4, <1>5

(* The body goes to the file.                                                *)
LEMMA WifiBodyCore ==
  ASSUME Core, WifiBody
  PROVE  Core'
<1>0. job.via = "wifi" /\ job.pc = "body" /\ UNCHANGED left
  BY DEF WifiBody, OnWifi, via, wifiRest
<1>1. CASE UNCHANGED <<conn, file>> /\ Go("close")
  <2>1. ConnTypes'
    BY <1>0, <1>1, Kept DEF Core, ConnTypes
  <2> QED BY <1>0, <1>1, <2>1, GoesOn DEF Steps
<1>2. CASE \E n \in 1..Len(Here.in) : Store(Prefix(n)) /\ TakeIn(n)
  <2>0. PICK n \in 1..Len(Here.in) : Store(Prefix(n)) /\ TakeIn(n)
    BY <1>2
  <2>1. n \in 0..Len(Here.in)
    BY Working
  <2>2. /\ conn' \in [Transport -> Conn] /\ WifiStream' \in Seq(Byte) /\ CellStream' = CellStream
        /\ Piece(WifiStream', WifiStream, n) /\ Piece(Prefix(n), WifiStream, 0)
        /\ Prefix(n) \in Seq(Byte) /\ Len(Prefix(n)) = n
    BY <1>0, <2>0, <2>1, Taken
  <2>3. ConnTypes'
    BY <1>0, <2>2 DEF Core, ConnTypes
  <2>4. /\ job \in Job /\ WifiStream \in Seq(Byte)
        /\ Place(job) /\ Got(job, file) /\ Filed(file) /\ WifiIn(job, WifiStream)
        /\ file \in Seq(1..ImageLen)
    BY Working
  <2>5. PICK bytes \in Seq(Byte) : bytes = Prefix(n)
    BY <2>2
  <2>6. /\ job' \in Job /\ job'.got = job.got \o bytes /\ job'.pc = job.pc /\ job'.via = job.via
        /\ job'.what = job.what /\ job'.tag = job.tag /\ job'.from = job.from /\ job'.head = job.head
        /\ file' = file \o Places(bytes)
    <3>1. Store(bytes)
      BY <2>0, <2>5
    <3> QED BY <3>1, Stored
  <2>7. job.what = "image" /\ Rest(job, WifiStream)
    BY <1>0, <2>4 DEF Place, WifiIn, RestDue
  <2>8. Got(job', file') /\ Filed(file') /\ file' \in Seq(1..ImageLen) /\ Rest(job', WifiStream')
    <3>1. Piece(WifiStream', WifiStream, Len(bytes)) /\ Piece(bytes, WifiStream, 0)
      BY <2>2, <2>5
    <3>2. /\ job.what = "image" => file' = file \o Places(bytes)
          /\ job.what # "image" => file' = file
      BY <2>6, <2>7
    <3>3. /\ job' \in Job /\ job'.what = job.what /\ job'.tag = job.tag /\ job'.from = job.from
          /\ job'.got = job.got \o bytes
      BY <2>6
    <3> QED BY <2>2, <2>4, <2>7, <3>1, <3>2, <3>3, BodyRead
  <2>9. Place(job') /\ WifiIn(job', WifiStream') /\ CellIn(job', CellStream', left)
    BY <1>0, <2>4, <2>6, <2>7, <2>8 DEF Place, WifiIn, CellIn, HeadDue, RestDue
  <2> QED BY <1>0, <2>3, <2>6, <2>8, <2>9 DEF Core, Good
<1> QED BY <1>1, <1>2 DEF WifiBody

-----------------------------------------------------------------------------
(* CellHTTP on the SIM7670 *)

(* Two pieces that follow each other are one.                                *)
LEMMA Joined ==
  ASSUME NEW u \in Seq(Byte), NEW v \in Seq(Byte), NEW s \in Seq(Byte), NEW m \in Nat,
         Piece(u, s, m), Piece(v, s, m + Len(u))
  PROVE  u \o v \in Seq(Byte) /\ Piece(u \o v, s, m)
<1>1. Len(u) \in Nat /\ Len(v) \in Nat /\ Len(s) \in Nat
  BY LenProperties
<1>2. /\ u \o v \in Seq(Byte) /\ Len(u \o v) = Len(u) + Len(v)
      /\ \A k \in 1..(Len(u) + Len(v)) : (u \o v)[k] = IF k <= Len(u) THEN u[k] ELSE v[k - Len(u)]
  BY ConcatProperties
<1>3. /\ \A k \in 1..Len(u) : u[k] = s[m + k]
      /\ \A k \in 1..Len(v) : v[k] = s[m + Len(u) + k]
      /\ Len(v) + (m + Len(u)) <= Len(s)
  BY DEF Piece
<1>4. ASSUME NEW k \in 1..Len(u \o v) PROVE (u \o v)[k] = s[m + k]
  <2>0. k \in 1..(Len(u) + Len(v)) /\ k \in Nat
    BY <1>1, <1>2
  <2>1. CASE k <= Len(u)
    <3>1. k \in 1..Len(u)
      BY <1>1, <2>0, <2>1
    <3> QED BY <1>2, <1>3, <2>0, <2>1, <3>1
  <2>2. CASE ~(k <= Len(u))
    <3>1. k - Len(u) \in 1..Len(v) /\ m + Len(u) + (k - Len(u)) = m + k
      BY <1>1, <2>0, <2>2
    <3>2. v[k - Len(u)] = s[m + Len(u) + (k - Len(u))]
      BY <1>3, <3>1
    <3> QED BY <1>2, <2>0, <2>2, <3>1, <3>2
  <2> QED BY <2>1, <2>2
<1>5. Len(u \o v) + m <= Len(s)
  BY <1>1, <1>2, <1>3
<1> QED BY <1>2, <1>4, <1>5 DEF Piece

(* init() sends nothing.                                                     *)
LEMMA CellInitCore ==
  ASSUME Core, CellInit
  PROVE  Core'
<1>1. job.via = "cell" /\ job.pc = "init" /\ UNCHANGED <<left, file>> /\ Go("open")
  BY DEF CellInit, OnCell, via
<1>2. UNCHANGED conn \/ Set(NoConn)
  BY DEF CellInit
<1>3. conn' \in [Transport -> Conn] /\ Clean(WifiStream')
  BY <1>1, <1>2, Kept, Emptied, CleanNow
<1>4. ConnTypes'
  BY <1>1, <1>3 DEF Core, ConnTypes
<1> QED BY <1>1, <1>3, <1>4, GoesOn DEF Steps

(* open(): the session is new.                                               *)
LEMMA CellOpenCore ==
  ASSUME Core, CellOpen
  PROVE  Core'
<1>1. job.via = "cell" /\ job.pc = "open" /\ UNCHANGED <<left, file>>
  BY DEF CellOpen, OnCell, via
<1>2. CASE Set(Fresh) /\ Go("send")
  <2>1. conn' \in [Transport -> Conn] /\ CellStream' = <<>> /\ Clean(WifiStream')
    BY <1>1, <1>2, Emptied, CleanNow
  <2>2. ConnTypes'
    BY <1>1, <2>1 DEF Core, ConnTypes
  <2> QED BY <1>1, <1>2, <2>1, <2>2, GoesOn DEF Steps
<1>3. CASE (UNCHANGED conn \/ Set(NoConn) \/ Set(Late)) /\ Go(IF job.what = "confirm" THEN "close" ELSE "stop")
  <2>1. conn' \in [Transport -> Conn] /\ Clean(WifiStream')
    BY <1>1, <1>3, Kept, Emptied, CleanNow
  <2>2. ConnTypes'
    BY <1>1, <2>1 DEF Core, ConnTypes
  <2>3. PICK p \in {"close", "stop"} : Go(p)
    BY <1>3
  <2> QED BY <1>1, <2>1, <2>2, <2>3, GoesOn DEF Steps
<1> QED BY <1>2, <1>3 DEF CellOpen

(* send(): the answer is all there is on the session.                        *)
LEMMA CellSendCore ==
  ASSUME Core, CellSend
  PROVE  Core'
<1>1. job.via = "cell" /\ job.pc = "send" /\ UNCHANGED <<left, file>> /\ Clean(WifiStream)
  BY CleanNow DEF CellSend, OnCell, via
<1>2. CASE Answers /\ Go("headers")
  <2>1. /\ conn' \in [Transport -> Conn] /\ WifiStream' = WifiStream /\ Opens(job, CellStream')
        /\ CellStream' # <<>> => IsHead(CellStream'[1])
    BY <1>1, <1>2, AnswersCome
  <2>2. ConnTypes'
    BY <1>1, <2>1 DEF Core, ConnTypes
  <2>4. job' \in Job /\ Same(job', job) /\ job'.pc = "headers"
    BY <1>2, Going DEF Go, Core, Steps
  <2>5. Good(job, file, WifiStream, CellStream, left) /\ job \in Job
    BY DEF Core
  <2>6. job'.pc = IF job.via = "wifi" /\ job.what \in {"loc", "meta"} THEN "receive" ELSE "headers"
    BY <1>1, <2>4
  <2>7. Good(job', file, WifiStream', CellStream', left)
    BY <1>1, <2>1, <2>4, <2>5, <2>6, SentGood
  <2> QED BY <1>1, <2>2, <2>4, <2>7 DEF Core
<1>3. CASE UNCHANGED conn /\ Go("close")
  <2>1. ConnTypes' /\ Clean(WifiStream')
    BY <1>1, <1>3, Kept DEF Core, ConnTypes
  <2> QED BY <1>1, <1>3, <2>1, GoesOn DEF Steps
<1> QED BY <1>2, <1>3 DEF CellSend

(* A read of the cache that goes wrong ends the request.                     *)
LEMMA CellFails ==
  ASSUME Core, job.via = "cell", UNCHANGED file, left' \in Seq(Byte),
         \/ UNCHANGED conn /\ Go("close")
         \/ \E room : CellReadFails(room)
  PROVE  Core'
<1>1. CASE UNCHANGED conn /\ Go("close")
  <2>1. ConnTypes' /\ Clean(WifiStream')
    BY <1>1, Kept, CleanNow DEF Core, ConnTypes
  <2> QED BY <1>1, <2>1, GoesOn DEF Steps
<1>2. CASE \E room : CellReadFails(room)
  <2>1. PICK n \in 0..Len(Here.in) : TakeIn(n) /\ Go("close")
    BY <1>2 DEF CellReadFails
  <2>2. conn' \in [Transport -> Conn] /\ WifiStream' = WifiStream
    BY <2>1, Taken
  <2>3. ConnTypes' /\ Clean(WifiStream')
    BY <2>2, CleanNow DEF Core, ConnTypes
  <2> QED BY <2>1, <2>3, GoesOn DEF Steps
<1> QED BY <1>1, <1>2

(* receiveHeaders(): what came behind the headers stays in m_buffer.         *)
LEMMA CellHeadersCore ==
  ASSUME Core, CellHeaders
  PROVE  Core'
<1> DEFINE n     == Cached(MetaRoom)
           bytes == Prefix(n)
           after == SubSeq(bytes, 2, n)
<1>0. job.via = "cell" /\ job.pc = "headers" /\ UNCHANGED file
  BY DEF CellHeaders, OnCell, via
<1>1. CASE (UNCHANGED conn \/ CellReadFails(MetaRoom)) /\ left' = <<>> /\ (UNCHANGED conn => Go("close"))
  <2>1. left' \in Seq(Byte)
    BY <1>1, NoBytes
  <2> QED BY <1>0, <1>1, <2>1, CellFails
<1>2. CASE CellRead(MetaRoom) /\ AfterHeaders(Prefix(Cached(MetaRoom)))
  <2>1. Here.in # <<>> /\ TakeIn(n)
    BY <1>2 DEF CellRead
  <2>2. n \in 1..Len(Here.in) /\ n \in 0..Len(Here.in)
    BY <2>1, Working, Lengths DEF Cached
  <2> HIDE DEF n
  <2>3. /\ conn' \in [Transport -> Conn] /\ WifiStream' = WifiStream /\ CellStream' \in Seq(Byte)
        /\ Piece(CellStream', CellStream, n) /\ Piece(bytes, CellStream, 0)
        /\ bytes \in Seq(Byte) /\ Len(bytes) = n /\ bytes[1] = Here.in[1]
    <3>1. 1 \in 1..n
      BY <2>2, Working
    <3> QED BY <1>0, <2>1, <2>2, <3>1, Taken
  <2>4. /\ job \in Job /\ CellStream \in Seq(Byte) /\ Place(job) /\ Got(job, file) /\ Filed(file)
        /\ file \in Seq(1..ImageLen) /\ job.what \in Kinds
    BY Working
  <2>5. /\ Opens(job, CellStream) /\ IsHead(CellStream[1]) /\ IsHead(bytes[1])
        /\ Len(CellStream) >= 1
    <3>1. CellStream[1] = Here.in[1] /\ Len(CellStream) >= 1
      BY <1>0, <2>1, FirstByte
    <3>2. CellStream # <<>>
      BY <3>1, EmptySeq
    <3>3. Opens(job, CellStream) /\ IsHead(CellStream[1])
      BY <1>0, <3>2, Working DEF CellIn
    <3> QED BY <2>3, <3>1, <3>3
  <2> HIDE DEF bytes
  <2>6. (CHOOSE i \in DOMAIN bytes : IsHead(bytes[i]) /\ \A k \in 1..(i - 1) : ~IsHead(bytes[k])) = 1
    <3>0. DOMAIN bytes = 1..n /\ 1 \in 1..n
      BY <2>2, <2>3, LenProperties, Working
    <3>1. \A k \in 1..(1 - 1) : ~IsHead(bytes[k])
      OBVIOUS
    <3>2. ASSUME NEW i \in 1..n, \A k \in 1..(i - 1) : ~IsHead(bytes[k]) PROVE i = 1
      <4>1. i \in Nat /\ 1 <= i
        BY <2>2, <3>2, Working
      <4>2. ~(1 \in 1..(i - 1))
        BY <2>5, <3>2
      <4> QED BY <4>1, <4>2
    <3> QED BY <2>5, <3>0, <3>1, <3>2
  <2>7. /\ left' = SubSeq(bytes, 1 + 1, Len(bytes))
        /\ Go(IF bytes[1][2] = Refusal \/ job.what = "confirm" THEN "close" ELSE "body")
    <3>1. AfterHeaders(bytes)
      BY <1>2 DEF bytes, n
    <3> QED BY <2>6, <3>1 DEF AfterHeaders
  <2>8. /\ left' \in Seq(Byte) /\ Piece(left', CellStream, 1) /\ Len(left') = n - 1
    <3>1. /\ SubSeq(bytes, 1 + 1, Len(bytes)) \in Seq(Byte)
          /\ Len(SubSeq(bytes, 1 + 1, Len(bytes))) = n - 1
          /\ \A k \in 1..(n - 1) : SubSeq(bytes, 1 + 1, Len(bytes))[k] = bytes[1 + k]
      <4>0. n \in Nat /\ n >= 1
        BY <2>2, Working
      <4>1. \A k \in 2..n : bytes[k] \in Byte
        BY <2>3, <4>0, ElementOfSeq
      <4>2. /\ SubSeq(bytes, 2, n) \in Seq(Byte)
            /\ Len(SubSeq(bytes, 2, n)) = IF 2 <= n THEN n - 2 + 1 ELSE 0
            /\ \A k \in 1..(n - 2 + 1) : SubSeq(bytes, 2, n)[k] = bytes[2 + k - 1]
        BY <4>0, <4>1, SubSeqProperties
      <4>3. SubSeq(bytes, 1 + 1, Len(bytes)) = SubSeq(bytes, 2, n)
        BY <2>3
      <4> QED BY <4>0, <4>2, <4>3
    <3>2. n <= Len(CellStream) /\ \A k \in 1..n : bytes[k] = CellStream[k]
      <4>1. Len(bytes) + 0 <= Len(CellStream) /\ \A k \in 1..n : bytes[k] = CellStream[0 + k]
        BY <2>3 DEF Piece
      <4>2. n \in Nat /\ \A k \in 1..n : 0 + k = k
        BY <2>2, Working
      <4> QED BY <2>3, <4>1, <4>2
    <3>3. n \in Nat /\ n >= 1 /\ Len(CellStream) \in Nat
      BY <2>2, <2>4, LenProperties, Working
    <3>4. ASSUME NEW k \in 1..(n - 1) PROVE SubSeq(bytes, 1 + 1, Len(bytes))[k] = CellStream[1 + k]
      <4>1. 1 + k \in 1..n
        BY <3>3, <3>4
      <4> QED BY <3>1, <3>2, <4>1
    <3> QED BY <2>7, <3>1, <3>2, <3>3, <3>4 DEF Piece
  <2>9. left' \o CellStream' \in Seq(Byte) /\ Piece(left' \o CellStream', CellStream, 1)
    <3>1. 1 \in Nat /\ 1 + Len(left') = n
      BY <2>2, <2>8, Working
    <3> QED BY <2>3, <2>4, <2>8, <3>1, Joined
  <2>10. ConnTypes'
    BY <2>3, <2>8 DEF ConnTypes
  <2>11. Clean(WifiStream')
    BY <1>0, <2>3, CleanNow
  <2>12. CASE Go("close")
    BY <1>0, <2>10, <2>11, <2>12, GoesOn DEF Steps
  <2>13. CASE Go("body") /\ job.what # "confirm"
    <3>1. job' \in Job /\ Same(job', job) /\ job'.pc = "body"
      BY <2>4, <2>13, Going DEF Go, Steps
    <3>2. job.got = <<>> /\ job.head = Refusal /\ job.what \in {"meta", "image"}
      BY <1>0, <2>4, <2>13 DEF Place, Kinds
    <3>3. Rest(job', left' \o CellStream')
      BY <2>4, <2>5, <2>9, <3>1, <3>2, HeadFound DEF Same
    <3>4. Got(job', file)
      BY <2>4, <3>1 DEF Got, Same
    <3>5. Place(job') /\ WifiIn(job', WifiStream') /\ CellIn(job', CellStream', left')
      BY <1>0, <2>11, <3>1, <3>2, <3>3 DEF Place, WifiIn, CellIn, HeadDue, RestDue, Same
    <3> QED BY <1>0, <2>4, <2>10, <3>1, <3>4, <3>5 DEF Core, Good
  <2> QED BY <2>7, <2>12, <2>13
<1> QED BY <1>1, <1>2 DEF CellHeaders, CellReadFails

(* A read of the modem's body: the offer is kept, the image goes to the file. *)
LEMMA Keeps ==
  ASSUME Core, NEW bytes \in Seq(Byte), Keep(bytes)
  PROVE  /\ job' \in Job /\ job'.got = job.got \o bytes /\ job'.pc = job.pc /\ job'.via = job.via
         /\ job'.what = job.what /\ job'.tag = job.tag /\ job'.from = job.from /\ job'.head = job.head
         /\ job.what = "image" => file' = file \o Places(bytes)
         /\ job.what # "image" => file' = file
<1>0. job \in Job /\ job.got \in Seq(Byte)
  BY Working
<1>1. CASE job.what = "image"
  <2>1. Store(bytes)
    BY <1>1 DEF Keep
  <2> QED BY <1>1, <2>1, Stored
<1>2. CASE job.what # "image"
  <2>1. PICK g \in Seq(Byte) : g = job.got \o bytes
    BY <1>0, ConcatProperties
  <2>2. job' = [job EXCEPT !.got = g] /\ file' = file
    BY <1>2, <2>1 DEF Keep
  <2>3. /\ job' \in Job /\ job'.got = g /\ job'.pc = job.pc /\ job'.via = job.via
        /\ job'.what = job.what /\ job'.tag = job.tag /\ job'.from = job.from
        /\ job'.head = job.head
    BY <1>0, <2>2 DEF Job
  <2> QED BY <1>2, <2>1, <2>2, <2>3
<1> QED BY <1>1, <1>2

(* What is kept is in its place.                                             *)
LEMMA KeptInPlace ==
  ASSUME Core, NEW bytes \in Seq(Byte), Keep(bytes), NEW s \in Seq(Byte), NEW s2 \in Seq(Byte),
         Rest(job, s), Piece(bytes, s, 0), Piece(s2, s, Len(bytes))
  PROVE  Got(job', file') /\ Filed(file') /\ file' \in Seq(1..ImageLen) /\ Rest(job', s2)
<1>1. Got(job, file) /\ Filed(file) /\ job \in Job /\ file \in Seq(1..ImageLen)
  BY Working
<1>2. /\ job' \in Job /\ job'.what = job.what /\ job'.tag = job.tag /\ job'.from = job.from
      /\ job'.got = job.got \o bytes
  BY Keeps
<1>3. /\ job.what = "image" => file' = file \o Places(bytes)
      /\ job.what # "image" => file' = file
  BY Keeps
<1> QED BY <1>1, <1>2, <1>3, BodyRead

(* It comes from m_buffer or the cache, and the rest stays there.            *)
LEMMA CellReads ==
  ASSUME Core, job.via = "cell", job.pc = "body", NEW bytes \in Seq(Byte), Keep(bytes),
         conn' \in [Transport -> Conn], WifiStream' = WifiStream, left' \in Seq(Byte),
         NEW s \in Seq(Byte), s = left \o CellStream, NEW s2 \in Seq(Byte), s2 = left' \o CellStream',
         Piece(bytes, s, 0), Piece(s2, s, Len(bytes))
  PROVE  Core'
<1>1. Place(job) /\ Rest(job, s) /\ Clean(WifiStream')
  BY Working, CleanNow DEF CellIn
<1>2. /\ job' \in Job /\ job'.pc = job.pc /\ job'.via = job.via /\ job'.what = job.what
      /\ job'.head = job.head
  BY Keeps
<1>3. Got(job', file') /\ Filed(file') /\ file' \in Seq(1..ImageLen) /\ Rest(job', s2)
  BY <1>1, KeptInPlace
<1>4. Place(job') /\ WifiIn(job', WifiStream') /\ CellIn(job', CellStream', left')
  BY <1>1, <1>2, <1>3 DEF Place, WifiIn, CellIn, HeadDue, RestDue
<1> QED BY <1>2, <1>3, <1>4 DEF Core, Good, ConnTypes

(* receiveBodyBytes(): m_buffer first, then the cache.                       *)
LEMMA CellBodyCore ==
  ASSUME Core, CellBody
  PROVE  Core'
<1>0. /\ job.via = "cell" /\ job.pc = "body" /\ Clean(WifiStream) /\ left \in Seq(Byte)
      /\ CellStream \in Seq(Byte) /\ Len(left) \in Nat
  BY CleanNow, Working, LenProperties DEF CellBody, OnCell, via
<1>1. Len(job.got) < Wanted => CellRoom \in Nat /\ CellRoom >= 1
  <2>1. Length(job.what) \in Nat /\ job.from \in Nat /\ Len(job.got) \in Nat /\ Chunk \in Nat \ {0}
    BY Working, Lengths
  <2>2. PICK w \in Int : w = Wanted
    BY <2>1 DEF Wanted
  <2> QED BY <2>1, <2>2 DEF CellRoom
<1>2. CASE UNCHANGED left /\ UNCHANGED file /\ ((UNCHANGED conn /\ Go("close")) \/ CellReadFails(CellRoom))
  BY <1>0, <1>2, CellFails
<1>3. CASE Len(job.got) < Wanted /\ left # <<>> /\ FromBuffer /\ UNCHANGED conn
  <2>1. PICK n \in 0..Len(left) : n = Buffered
    BY <1>0, <1>1, <1>3 DEF Buffered
  <2>2. Keep(SubSeq(left, 1, n)) /\ left' = SubSeq(left, n + 1, Len(left))
    BY <1>3, <2>1 DEF FromBuffer
  <2>3. conn' \in [Transport -> Conn] /\ WifiStream' = WifiStream /\ CellStream' = CellStream
    BY <1>3, Kept
  <2>4. /\ left' \in Seq(Byte) /\ Piece(left' \o CellStream, left \o CellStream, n)
        /\ SubSeq(left, 1, n) \in Seq(Byte) /\ Len(SubSeq(left, 1, n)) = n
        /\ Piece(SubSeq(left, 1, n), left \o CellStream, 0)
    BY <1>0, <2>2, Read
  <2>5. left' \o CellStream \in Seq(Byte)
    BY <1>0, <2>4, ConcatProperties
  <2>6. PICK bytes \in Seq(Byte) : bytes = SubSeq(left, 1, n)
    BY <2>4
  <2>7. PICK s \in Seq(Byte) : s = left \o CellStream
    BY <1>0, ConcatProperties
  <2>8. PICK s2 \in Seq(Byte) : s2 = left' \o CellStream'
    BY <2>3, <2>5
  <2>9. Keep(bytes) /\ Piece(bytes, s, 0) /\ Piece(s2, s, Len(bytes)) /\ left' \in Seq(Byte)
    BY <2>2, <2>3, <2>4, <2>6, <2>7, <2>8
  <2> QED BY <1>0, <2>3, <2>7, <2>8, <2>9, CellReads
<1>4. CASE /\ Len(job.got) < Wanted /\ left = <<>> /\ UNCHANGED left
           /\ CellRead(CellRoom) /\ Keep(Prefix(Cached(CellRoom)))
  <2>1. Here.in # <<>> /\ TakeIn(Cached(CellRoom))
    BY <1>4 DEF CellRead
  <2>2. PICK n \in 0..Len(Here.in) : n = Cached(CellRoom)
    BY <1>1, <1>4, <2>1, Working DEF Cached
  <2>3. /\ conn' \in [Transport -> Conn] /\ WifiStream' = WifiStream /\ CellStream' \in Seq(Byte)
        /\ Piece(CellStream', CellStream, n) /\ Piece(Prefix(n), CellStream, 0)
        /\ Prefix(n) \in Seq(Byte) /\ Len(Prefix(n)) = n
    BY <1>0, <2>1, <2>2, Taken
  <2>4. left \o CellStream = CellStream /\ left' \o CellStream' = CellStream' /\ left' = <<>>
    BY <1>0, <1>4, <2>3, ConcatEmptySeq
  <2>5. PICK bytes \in Seq(Byte) : bytes = Prefix(n)
    BY <2>3
  <2>6. Keep(bytes) /\ left' \in Seq(Byte)
    BY <1>4, <2>2, <2>4, <2>5, NoBytes
  <2>7. PICK s \in Seq(Byte) : s = left \o CellStream
    BY <1>0, <2>4
  <2>8. PICK s2 \in Seq(Byte) : s2 = left' \o CellStream'
    BY <2>3, <2>4
  <2>9. Piece(bytes, s, 0) /\ Piece(s2, s, Len(bytes))
    BY <2>3, <2>4, <2>5, <2>7, <2>8
  <2> QED BY <1>0, <2>3, <2>6, <2>7, <2>8, <2>9, CellReads
<1> QED BY <1>2, <1>3, <1>4 DEF CellBody

-----------------------------------------------------------------------------
(* The invariant. *)

(* The invariant holds at first,                                             *)
LEMMA InitHttp ==
  ASSUME Init
  PROVE  HttpInv
<1>1. job \in Job /\ job.pc = "idle" /\ job.via = "wifi" /\ job.what = "meta" /\ job.from = 0
      /\ job.head = Refusal /\ job.got = <<>>
  <2>1. Refusal \in Refusal..Top /\ <<>> \in Seq(Byte)
    BY Lengths, EmptySeq DEF Refusal
  <2> QED BY <2>1 DEF Init, Idle, Job, Steps, Kinds, Transport, Tags
<1>2. NoConn \in Conn /\ NoConn.in = <<>> /\ NoConn.way = <<>>
  BY NoBytes DEF NoConn, Conn
<1>3. conn = [t \in Transport |-> NoConn] /\ left = <<>> /\ file = <<>>
  BY DEF Init
<1>4. ConnTypes
  BY <1>2, <1>3, NoBytes DEF ConnTypes
<1>5. WifiStream = <<>>
  <2>1. conn["wifi"] = NoConn
    BY <1>3 DEF Transport
  <2>2. <<>> \o <<>> = <<>>
    BY NoBytes, ConcatEmptySeq
  <2> QED BY <1>2, <2>1, <2>2 DEF WifiStream
<1>6. <<>> \in Seq(1..ImageLen) /\ Len(<<>>) = 0
  BY EmptySeq
<1>7. Filed(<<>>)
  BY <1>6, Lengths DEF Filed
<1>8. Clean(WifiStream) /\ 0 <= Length("meta")
  BY <1>5, NoBytes, Lengths DEF Kinds
<1>9. Good(job, file, WifiStream, CellStream, left)
  BY <1>1, <1>3, <1>7, <1>8, StartGood
<1>10. StateTypes
  <2>1. st \in [Transport -> {"disconnected", "connected", "sent", "error"}]
    BY DEF Init
  <2>2. started = FALSE /\ done = FALSE /\ syncs = 0 /\ faults = 0
    BY DEF Init
  <2>3. 0 \in 0..MaxSync /\ 0 \in 0..MaxFault
    BY Lengths
  <2> QED BY <2>1, <2>2, <2>3 DEF StateTypes
<1> QED BY <1>1, <1>3, <1>4, <1>6, <1>9, <1>10 DEF HttpInv, Core

(* and every step keeps it.                                                  *)
LEMMA NextHttp ==
  ASSUME HttpInv, [Next]_vars
  PROVE  HttpInv'
<1>0. Core
  BY DEF HttpInv
<1>1. CASE UNCHANGED vars
  <2>1. StateTypes'
    BY <1>1 DEF vars, HttpInv, StateTypes
  <2>2. UNCHANGED <<conn, left, job, file>>
    BY <1>1 DEF vars
  <2>3. WifiStream' = WifiStream /\ CellStream' = CellStream
    BY <1>0, <2>2, Kept
  <2>4. Core'
    BY <1>0, <2>2, <2>3 DEF Core, ConnTypes
  <2> QED BY <2>1, <2>4 DEF HttpInv
<1>2. CASE Next
  <2>1. StateTypes'
    BY <1>2, NextStates
  <2>2. CASE Check \/ Sync
    BY <1>0, <2>1, <2>2, CheckCore DEF HttpInv
  <2>3. CASE Wifi
    <3>1. Core'
      BY <1>0, <2>3, WifiOpenCore, WifiSendCore, WifiReceiveCore, WifiReceivedCore, WifiHeadersCore,
         WifiBodyCore DEF Wifi
    <3> QED BY <2>1, <3>1 DEF HttpInv
  <2>4. CASE Cell
    <3>1. Core'
      BY <1>0, <2>4, CellInitCore, CellOpenCore, CellSendCore, CellHeadersCore, CellBodyCore DEF Cell
    <3> QED BY <2>1, <3>1 DEF HttpInv
  <2>5. CASE CloseSession \/ Finish \/ Complete
    BY <1>0, <2>1, <2>5, CloseCore, FinishCore DEF HttpInv
  <2>6. CASE Reset
    BY <1>0, <2>1, <2>6, ResetCore DEF HttpInv
  <2>7. CASE \E t \in Transport : Arrive(t) \/ ServerCloses(t)
    BY <1>0, <2>1, <2>7, NetworkCore DEF HttpInv
  <2> QED BY <1>2, <2>2, <2>3, <2>4, <2>5, <2>6, <2>7 DEF Next, Task
<1> QED BY <1>1, <1>2

(* HttpInv holds whatever the server, the network and the resets do.         *)
LEMMA HttpAlways == Spec => []HttpInv
<1>1. Init => HttpInv
  BY InitHttp
<1>2. HttpInv /\ [Next]_vars => HttpInv'
  BY NextHttp
<1> QED BY <1>1, <1>2, PTL DEF Spec

(* The types of the clients, the sessions and the request.                   *)
THEOREM HttpTypeCorrect == Spec => []TypeOK
<1>1. HttpInv => TypeOK
  <2> SUFFICES ASSUME HttpInv PROVE TypeOK
    OBVIOUS
  <2>1. Core /\ StateTypes
    BY DEF HttpInv
  <2>2. ASSUME NEW t \in Transport
        PROVE  /\ conn[t].open \in BOOLEAN /\ conn[t].fin \in BOOLEAN /\ conn[t].late \in BOOLEAN
               /\ \A b \in ToSet(conn[t].in \o conn[t].way) :
                    b \in Tags \X (Refusal..(ImageLen + LocLen + MetaLen))
    <3>1. conn[t] \in Conn /\ conn[t].in \in Seq(Byte) /\ conn[t].way \in Seq(Byte)
      BY <2>1, Bytes DEF Core
    <3>2. PICK s \in Seq(Byte) : s = conn[t].in \o conn[t].way
      BY <3>1, ConcatProperties
    <3>3. \A b \in ToSet(s) : b \in Byte
      BY LenProperties, ElementOfSeq DEF ToSet
    <3>4. conn[t].open \in BOOLEAN /\ conn[t].fin \in BOOLEAN /\ conn[t].late \in BOOLEAN
      BY <3>1 DEF Conn
    <3> QED BY <3>2, <3>3, <3>4 DEF Byte, Top
  <2>3. /\ job.pc \in Steps /\ job.via \in Transport /\ job.what \in Kinds /\ job.tag \in Tags
        /\ file \in Seq(1..ImageLen)
    BY <2>1 DEF Core, Job
  <2> QED BY <2>1, <2>2, <2>3 DEF TypeOK, StateTypes, Steps, Kinds
<1> QED BY <1>1, HttpAlways, PTL

(* Every byte a request gets is of its own answer, and in its place, and so  *)
(* is every byte of the image on the card: WiFi's session is used again, the *)
(* modem's outlives a reset, bytes come with the headers or in part, reads   *)
(* fail and connections break.                                               *)
THEOREM AnswerInPlace == Spec => []InPlace
<1>1. HttpInv => InPlace
  <2> SUFFICES ASSUME HttpInv PROVE InPlace
    OBVIOUS
  <2>1. Got(job, file) /\ Filed(file) /\ job.got \in Seq(Byte) /\ file \in Seq(1..ImageLen)
    BY Working DEF HttpInv
  <2>2. DOMAIN job.got = 1..Len(job.got) /\ DOMAIN file = 1..Len(file)
    BY <2>1, LenProperties
  <2> QED BY <2>1, <2>2 DEF Got, Filed, InPlace
<1> QED BY <1>1, HttpAlways, PTL
=============================================================================
