-------------------------- MODULE MuxStreamProofs --------------------------
(***************************************************************************)
(* The payload path of MuxSession: that the host reads every unit of the   *)
(* device's stream once and in order, for every value of the constants     *)
(* that the two conditions below admit.                                    *)
(***************************************************************************)
EXTENDS MuxSessionProofs

-----------------------------------------------------------------------------
(* The conditions.  QuietLine is about the device and the cable, and leaves *)
(* out what the code is known not to survive; RoomEnough is about sizes.   *)

\* Nothing of an earlier session, no retransmission after the drain, at most
\* one frame before the first request, and no transfer that fails in a read. A
\* poll that fails cuts the drain short, so it excludes retransmissions.
QuietLine ==
    /\ NoWrap
    /\ Stale = {}
    /\ ~RetxAnyTime
    /\ EarlyFrames <= 1
    /\ \A b \in Faults :
          /\ b["read"] = 0
          /\ b["pureack"] = 0
          /\ b["poll"] > 0 => b["retransmit"] = 0

\* the room that the retransmissions still to come may need in rx_buf
RetxRoom(b) == b["retransmit"] * (MaxPay + 1)

\* A frame fits in prebuf, a transfer fits behind a frame that is being read,
\* and the drain fits in rx_buf.  The buffers of the callers have any size.
RoomEnough ==
    /\ MaxPay + MaxChunk <= RxCap
    /\ MaxPay <= PrebufCap
    /\ SeenCap >= 2
    /\ \A b \in Faults : RetxRoom(b) + MaxPay + 2 <= RxCap

-----------------------------------------------------------------------------
(* What the host has taken and what it has still to read.                  *)

Taken == Len(Units)
Unread == cur \o (rx_buf \o in)

Place == ISN + 1 + Taken       \* the number of the next unit
End == ISN + 1 + produced      \* the number after the last one

SynAck == Header(ISN, {"SYN", "ACK"}, 0)
Early == Header(ISN + 1, {"ACK"}, produced)
Fin == Header(End, {"FIN", "ACK"}, 0)
Reset == Header(End, {"RST", "ACK"}, 0)
Refusal == Header(0, {"RST", "ACK"}, 0)

\* w is a sequence of whole frames: each header is followed by its payload
Whole(w) ==
    /\ w # <<>> => w[1].hdr
    /\ \A i \in 1..Len(w) : w[i].hdr =>
          /\ i + w[i].len <= Len(w)
          /\ \A k \in 1..w[i].len : w[i + k] = Data(w[i].seq + k - 1)
          /\ i + w[i].len < Len(w) => w[i + w[i].len + 1].hdr

\* the frames of w continue one another, from the number first up to last
Chained(w, first, last) ==
    /\ w = <<>> => first = last
    /\ w # <<>> => w[1].seq = first
    /\ \A i \in 1..Len(w) : w[i].hdr =>
          /\ w[i].seq + w[i].len <= last
          /\ i + w[i].len = Len(w) => w[i].seq + w[i].len = last
          /\ i + w[i].len < Len(w) => w[i + w[i].len + 1].seq = w[i].seq + w[i].len

Headers(w, S) == \A i \in 1..Len(w) : w[i].hdr => w[i] \in S

\* a reset comes last, and a SYN|ACK before everything else
Ordered(w) ==
    \A i \in 1..Len(w) : w[i].hdr =>
        /\ "RST" \in w[i].flags => i = Len(w)
        /\ "SYN" \notin w[i].flags /\ i + w[i].len < Len(w) =>
              "SYN" \notin w[i + w[i].len + 1].flags

\* w has early data, the one frame that precedes the first request
HasEarly(w) == \E i \in 1..Len(w) : w[i] = Early

\* the frames that may be on the wire once, and those of the drain
FreshFrames ==
    {h \in Cell : h.flags = {"ACK"} /\ h.len > 0}
    \cup (IF dstate \in {"listen", "open"} THEN {} ELSE {Fin, Reset})
DrainFrames ==
    {SynAck}
    \cup (IF produced > 0 THEN {Early} ELSE {})
    \cup (IF dstate = "finished" THEN {Fin} ELSE {})
    \cup (IF dstate = "reset" THEN {Reset} ELSE {})

\* w is the rest of the stream from the number first, without repetition
Fresh(w, first) == Whole(w) /\ Chained(w, first, End) /\ Headers(w, FreshFrames)

-----------------------------------------------------------------------------
(* The inductive invariant: one part for every state, one per phase.       *)

Budgets ==
    /\ budget["read"] = 0 /\ budget["pureack"] = 0
    /\ budget["poll"] > 0 => budget["retransmit"] = 0
    /\ RetxRoom(budget) + MaxPay + 2 <= RxCap

Kept == \A i \in 1..Taken : Units[i] = Data(ISN + i)
Acked == rx_ack <= Place \/ (Taken = produced /\ dstate \notin {"listen", "open"})

Steady ==
    /\ Budgets
    /\ produced <= StreamLen /\ Taken <= produced
    /\ Kept
    /\ Acked
    /\ Whole(Unread)
    /\ dstate = "open" => snd_nxt = End

\* the device has not seen the SYN, which may be lost
SynSegment == [seq |-> TxInit, ack |-> 0, flags |-> {"SYN"}, len |-> 0]
Listening ==
    /\ sent = {} /\ snd_nxt = ISN /\ produced = 0
    /\ Unread = <<>>
    /\ out \in {<<>>, <<SynSegment>>}

\* up to the end of the handshake
Opening ==
    /\ Units = <<>> /\ produced = 0 /\ snd_una = ISN
    /\ dstate \in {"listen", "refused", "open", "reset"}
    /\ dstate = "listen" => Listening
    /\ dstate \in {"open", "reset"} =>
          sent = {SynAck} /\ snd_nxt = ISN + 1 /\ rcv_nxt = Add(TxInit, 1)
    /\ dstate # "listen" => out = <<>>
    /\ pc \in {"flush", "syn"} =>
          dstate = "listen" /\ out = <<>> /\ rx_ack = 0 /\ tx_seq = TxInit
    /\ pc \in {"handshake", "ack"} => tx_seq = Add(TxInit, 1)
    /\ pc = "handshake" =>
          /\ dstate = "refused" => Unread = <<Refusal>>
          /\ dstate = "open" => Unread = <<SynAck>>
          /\ dstate = "reset" => Unread = <<SynAck, Reset>>
    /\ pc = "ack" =>
          /\ cur = <<>>
          /\ dstate \in {"open", "reset"}
          /\ Unread = IF dstate = "open" THEN <<>> ELSE <<Reset>>

\* session_connect has failed, and nobody reads what the device still sends
Failed ==
    /\ Units = <<>>
    /\ dstate = "listen" => Listening

\* the rest of session_connect: what the device can have sent is known
StillToCome ==
    IF dstate = "open" /\ produced = 0 THEN MaxPay + 2 ELSE IF dstate = "open" THEN 1 ELSE 0
Quiet ==
    /\ delivered = <<>> /\ cur = <<>>
    /\ dstate \in {"open", "finished", "reset"}
    /\ Taken \in {0, produced} /\ produced <= MaxPay
    /\ tx_seq = Add(TxInit, 1) /\ rcv_nxt = tx_seq
    /\ \A i \in 1..Len(out) : out[i].seq = tx_seq /\ out[i].flags = {"ACK"} /\ out[i].len = 0
    /\ sent = {SynAck} \cup (IF produced > 0 THEN {Early} ELSE {})
                       \cup (IF dstate = "finished" THEN {Fin} ELSE {})
    /\ dstate = "finished" => produced = 0
    /\ (produced > 0 \/ dstate = "finished") => snd_una > ISN
    /\ snd_una >= ISN
    /\ Headers(Unread, DrainFrames) /\ Ordered(Unread)

Draining ==
    /\ Quiet
    /\ prebuf = <<>>
    /\ produced > 0 => HasEarly(Unread)
    /\ budget["poll"] > 0 => Fresh(Unread, Place)
    /\ Len(Unread) + RetxRoom(budget) + StillToCome <= RxCap

\* In the parse loop either nothing was repeated, or rx_buf holds whole frames
\* and what is on the wire continues the stream behind them.
EarlyKey == <<ISN + 1, {"ACK"}>>
Resume == IF Taken > 0 \/ HasEarly(rx_buf) THEN End ELSE ISN + 1
Parsing ==
    /\ Quiet
    /\ \/ Fresh(Unread, Place)
       \/ Whole(rx_buf) /\ Fresh(in, Resume)
    /\ Taken > 0 => EarlyKey \in seen
    /\ EarlyKey \in seen => Taken = produced /\ (produced > 0 \/ dstate = "reset")
    /\ Taken = 0 /\ (dstate = "open" \/ produced > 0) =>
          seen \subseteq {<<ISN, {"SYN", "ACK"}>>}

\* the session is up: the rest of the stream, each frame once
Streaming ==
    /\ Accepted
    /\ Fresh(Unread, Place)
    /\ cur # <<>> => pc = "recv"
    /\ pc = "recv" => prebuf = <<>>

StreamInv ==
    /\ Steady
    /\ pc \in {"flush", "syn", "handshake", "ack"} => Opening
    /\ pc = "failed" => Failed
    /\ pc = "drain" => Draining
    /\ pc = "parse" => Parsing
    /\ pc \in {"idle", "recv", "done"} => Streaming

-----------------------------------------------------------------------------
(* Lemmas on the sequences that hold the unread cells.                     *)

\* \o under another name, which the provers take as it is.
Cat(a, b) == a \o b
LEMMA CatAssociative ==
  ASSUME NEW S, NEW a \in Seq(S), NEW b \in Seq(S), NEW c \in Seq(S)
  PROVE  Cat(Cat(a, b), c) = Cat(a, Cat(b, c))
  BY ConcatAssociative, SMTT(30) DEF Cat

\* A transfer moves cells from one buffer to the end of another.
LEMMA MoveKeeps ==
  ASSUME NEW S, NEW a \in Seq(S), NEW b \in Seq(S), NEW k \in 1..Len(b)
  PROVE  (a \o SubSeq(b, 1, k)) \o SubSeq(b, k + 1, Len(b)) = a \o b
<1>1. SubSeq(b, 1, k) \o SubSeq(b, k + 1, Len(b)) = b
  <2>1. Len(b) \in Nat /\ k \in Nat
    BY LenProperties
  <2>2. 1 \in 1..Len(b) + 1 /\ k \in (1 - 1)..Len(b) /\ Len(b) \in k..Len(b)
    BY <2>1
  <2>3. SubSeq(b, 1, k) \o SubSeq(b, k + 1, Len(b)) = SubSeq(b, 1, Len(b))
    BY <2>2, ConcatAdjacentSubSeq
  <2> QED BY <2>3, SubSeqFull
<1>2. k + 1 \in Nat \ {0} /\ 1 \in Nat \ {0} /\ k \in Nat /\ k <= Len(b) /\ Len(b) \in Nat
  BY LenProperties
<1>3. SubSeq(b, 1, k) \in Seq(S) /\ SubSeq(b, k + 1, Len(b)) \in Seq(S)
  BY <1>2, PartOfSeq
<1>4. PICK c : c = SubSeq(b, 1, k)
  OBVIOUS
<1>5. PICK d : d = SubSeq(b, k + 1, Len(b))
  OBVIOUS
<1>6. c \in Seq(S) /\ d \in Seq(S) /\ Cat(c, d) = b
  BY <1>1, <1>3, <1>4, <1>5, Zenon DEF Cat
<1>7. Cat(Cat(a, c), d) = Cat(a, b)
  BY <1>6, CatAssociative
<1> QED BY <1>4, <1>5, <1>7, Zenon DEF Cat

\* What is put at the end of the last buffer is put at the end of them all.
InLine(a, b, c) == a \o (b \o c)
LEMMA InLineGrows ==
  ASSUME NEW a \in Seq(Cell), NEW b \in Seq(Cell), NEW c \in Seq(Cell), NEW d \in Seq(Cell)
  PROVE  InLine(a, b, Cat(c, d)) = Cat(InLine(a, b, c), d)
<1>1. Cat(b, c) \in Seq(Cell)
  BY ConcatProperties DEF Cat
<1>2. Cat(Cat(b, c), d) = Cat(b, Cat(c, d))
  BY CatAssociative
<1>3. Cat(Cat(a, Cat(b, c)), d) = Cat(a, Cat(Cat(b, c), d))
  BY <1>1, CatAssociative
<1>4. Cat(a, Cat(b, Cat(c, d))) = Cat(Cat(a, Cat(b, c)), d)
  BY <1>2, <1>3, Zenon
<1> QED BY <1>4, Zenon DEF InLine, Cat

\* What is left of a sequence, element by element.
LEMMA DropProperties ==
  ASSUME NEW S, NEW w \in Seq(S), NEW n \in 0..Len(w)
  PROVE  /\ SubSeq(w, n + 1, Len(w)) \in Seq(S)
         /\ Len(SubSeq(w, n + 1, Len(w))) = Len(w) - n
         /\ \A i \in 1..(Len(w) - n) : SubSeq(w, n + 1, Len(w))[i] = w[n + i]
<1>1. Len(w) \in Nat /\ n \in Nat /\ n + 1 \in Int /\ Len(w) \in Int
  BY LenProperties
<1>2. \A i \in (n + 1)..Len(w) : w[i] \in S
  <2> SUFFICES ASSUME NEW i \in (n + 1)..Len(w) PROVE w[i] \in S
    OBVIOUS
  <2>1. i \in 1..Len(w)
    BY <1>1
  <2> QED BY <2>1, ElementOfSeq
<1> DEFINE r == SubSeq(w, n + 1, Len(w))
<1>3. /\ r \in Seq(S)
      /\ Len(r) = IF n + 1 <= Len(w) THEN Len(w) - (n + 1) + 1 ELSE 0
      /\ \A i \in 1..(Len(w) - (n + 1) + 1) : r[i] = w[n + 1 + i - 1]
  BY <1>1, <1>2, SubSeqProperties
<1>4. Len(r) = Len(w) - n
  BY <1>1, <1>3
<1>5. ASSUME NEW i \in 1..(Len(w) - n) PROVE r[i] = w[n + i]
  <2>1. i \in 1..(Len(w) - (n + 1) + 1) /\ n + 1 + i - 1 = n + i
    BY <1>1
  <2> QED BY <1>3, <2>1
<1> QED BY <1>3, <1>4, <1>5

\* Taking cells off the front buffer takes them off both buffers.
LEMMA DropOfConcat ==
  ASSUME NEW S, NEW a \in Seq(S), NEW b \in Seq(S), NEW n \in 0..Len(a)
  PROVE  SubSeq(a, n + 1, Len(a)) \o b = SubSeq(a \o b, n + 1, Len(a \o b))
<1> DEFINE l == SubSeq(a, n + 1, Len(a)) \o b
           ab == a \o b
           r == SubSeq(ab, n + 1, Len(ab))
<1>1. Len(a) \in Nat /\ Len(b) \in Nat /\ n \in Nat /\ n <= Len(a)
  BY LenProperties
<1>2. /\ SubSeq(a, n + 1, Len(a)) \in Seq(S)
      /\ Len(SubSeq(a, n + 1, Len(a))) = Len(a) - n
      /\ \A i \in 1..(Len(a) - n) : SubSeq(a, n + 1, Len(a))[i] = a[n + i]
  BY DropProperties
<1>3. /\ l \in Seq(S) /\ Len(l) = Len(a) - n + Len(b)
      /\ \A i \in 1..(Len(a) - n + Len(b)) :
            l[i] = IF i <= Len(a) - n THEN a[n + i] ELSE b[i - (Len(a) - n)]
  <2>1. /\ l \in Seq(S) /\ Len(l) = Len(a) - n + Len(b)
        /\ \A i \in 1..(Len(a) - n + Len(b)) :
              l[i] = IF i <= Len(a) - n THEN SubSeq(a, n + 1, Len(a))[i] ELSE b[i - (Len(a) - n)]
    BY <1>2, ConcatProperties
  <2> QED BY <1>1, <1>2, <2>1
<1>4. /\ ab \in Seq(S) /\ Len(ab) = Len(a) + Len(b)
      /\ \A i \in 1..(Len(a) + Len(b)) : ab[i] = IF i <= Len(a) THEN a[i] ELSE b[i - Len(a)]
  BY ConcatProperties
<1>5. n \in 0..Len(ab)
  BY <1>1, <1>4
<1>6. /\ r \in Seq(S) /\ Len(r) = Len(ab) - n
      /\ \A i \in 1..(Len(ab) - n) : r[i] = ab[n + i]
  BY <1>4, <1>5, DropProperties
<1> HIDE DEF l, ab, r
<1>7. Len(l) = Len(r)
  BY <1>1, <1>3, <1>4, <1>6
<1>8. ASSUME NEW i \in 1..Len(l) PROVE l[i] = r[i]
  <2>1. i \in 1..(Len(a) - n + Len(b)) /\ i \in 1..(Len(ab) - n) /\ n + i \in 1..(Len(a) + Len(b))
    BY <1>1, <1>3, <1>4
  <2>2. l[i] = IF i <= Len(a) - n THEN a[n + i] ELSE b[i - (Len(a) - n)]
    BY <1>3, <2>1
  <2>3. r[i] = IF n + i <= Len(a) THEN a[n + i] ELSE b[n + i - Len(a)]
    BY <1>4, <1>6, <2>1
  <2>4. i - (Len(a) - n) = n + i - Len(a) /\ (i <= Len(a) - n <=> n + i <= Len(a))
    BY <1>1
  <2> QED BY <2>2, <2>3, <2>4
<1>9. l = r
  BY <1>3, <1>6, <1>7, <1>8, SeqEqual
<1> QED BY <1>9 DEF l, r, ab

\* The cells behind the first one.
LEMMA ConsProperties ==
  ASSUME NEW S, NEW h \in S, NEW u \in Seq(S)
  PROVE  /\ <<h>> \o u \in Seq(S) /\ Len(<<h>> \o u) = Len(u) + 1
         /\ (<<h>> \o u)[1] = h
         /\ \A i \in 1..Len(u) : (<<h>> \o u)[i + 1] = u[i]
<1>1. <<h>> \in Seq(S) /\ Len(<<h>>) = 1 /\ <<h>>[1] = h
  OBVIOUS
<1>2. Len(u) \in Nat
  BY LenProperties
<1>3. /\ <<h>> \o u \in Seq(S) /\ Len(<<h>> \o u) = 1 + Len(u)
      /\ \A i \in 1..(1 + Len(u)) : (<<h>> \o u)[i] = IF i <= 1 THEN <<h>>[i] ELSE u[i - 1]
  BY <1>1, ConcatProperties
<1>4. (<<h>> \o u)[1] = h
  BY <1>1, <1>2, <1>3
<1>5. ASSUME NEW i \in 1..Len(u) PROVE (<<h>> \o u)[i + 1] = u[i]
  <2>1. i + 1 \in 1..(1 + Len(u)) /\ ~(i + 1 <= 1) /\ i + 1 - 1 = i
    BY <1>2
  <2> QED BY <1>3, <2>1
<1> QED BY <1>2, <1>3, <1>4, <1>5

\* The first cell of the front buffer, put before the rest of both.
LEMMA HeadBack ==
  ASSUME NEW S, NEW a \in Seq(S), NEW b \in Seq(S), a # <<>>
  PROVE  <<Head(a)>> \o (Tail(a) \o b) = a \o b
<1>1. Head(a) \in S /\ Tail(a) \in Seq(S) /\ <<Head(a)>> \in Seq(S)
  BY TailOfSeq
<1>2. <<Head(a)>> \o Tail(a) = a
  <2> DEFINE c == <<Head(a)>> \o Tail(a)
  <2>1. /\ c \in Seq(S) /\ Len(c) = Len(Tail(a)) + 1 /\ c[1] = Head(a)
        /\ \A i \in 1..Len(Tail(a)) : c[i + 1] = Tail(a)[i]
    BY <1>1, ConsProperties
  <2>2. /\ Len(Tail(a)) = Len(a) - 1
        /\ \A i \in 1..Len(Tail(a)) : Tail(a)[i] = a[i + 1]
    BY HeadTailProperties
  <2>3. Len(a) \in Nat \ {0} /\ Head(a) = a[1]
    BY EmptySeq
  <2> HIDE DEF c
  <2>4. Len(c) = Len(a)
    BY <2>1, <2>2, <2>3
  <2>5. ASSUME NEW i \in 1..Len(c) PROVE c[i] = a[i]
    <3>1. CASE i = 1
      BY <2>1, <2>3, <3>1
    <3>2. CASE i # 1
      <4>1. i - 1 \in 1..Len(Tail(a)) /\ i - 1 + 1 = i
        BY <2>2, <2>3, <2>4, <3>2
      <4> QED BY <2>1, <2>2, <4>1
    <3> QED BY <3>1, <3>2
  <2>6. c = a
    BY <2>1, <2>4, <2>5, SeqEqual
  <2> QED BY <2>6 DEF c
<1>3. (<<Head(a)>> \o Tail(a)) \o b = <<Head(a)>> \o (Tail(a) \o b)
  <2>1. PICK h : h = <<Head(a)>>
    OBVIOUS
  <2>2. PICK r : r = Tail(a)
    OBVIOUS
  <2>3. h \in Seq(S) /\ r \in Seq(S)
    BY <1>1, <2>1, <2>2, Zenon
  <2>4. Cat(Cat(h, r), b) = Cat(h, Cat(r, b))
    BY <2>3, CatAssociative
  <2> QED BY <2>1, <2>2, <2>4, Zenon DEF Cat
<1> QED BY <1>2, <1>3

\* A frame whose header has been read is taken off with its payload.
LEMMA DropOfCons ==
  ASSUME NEW S, NEW h \in S, NEW u \in Seq(S), NEW n \in 0..Len(u)
  PROVE  SubSeq(<<h>> \o u, n + 2, Len(<<h>> \o u)) = SubSeq(u, n + 1, Len(u))
<1> DEFINE hu == <<h>> \o u
           l == SubSeq(hu, n + 1 + 1, Len(hu))
           r == SubSeq(u, n + 1, Len(u))
<1>1. Len(u) \in Nat /\ n \in Nat /\ n <= Len(u)
  BY LenProperties
<1>2. /\ hu \in Seq(S) /\ Len(hu) = Len(u) + 1
      /\ \A i \in 1..Len(u) : hu[i + 1] = u[i]
  BY ConsProperties
<1>3. n + 1 \in 0..Len(hu)
  BY <1>1, <1>2
<1>4. /\ l \in Seq(S) /\ Len(l) = Len(hu) - (n + 1)
      /\ \A i \in 1..(Len(hu) - (n + 1)) : l[i] = hu[n + 1 + i]
  BY <1>2, <1>3, DropProperties
<1>5. /\ r \in Seq(S) /\ Len(r) = Len(u) - n
      /\ \A i \in 1..(Len(u) - n) : r[i] = u[n + i]
  BY DropProperties
<1> HIDE DEF hu, l, r
<1>6. Len(l) = Len(r)
  BY <1>1, <1>2, <1>4, <1>5
<1>7. ASSUME NEW i \in 1..Len(l) PROVE l[i] = r[i]
  <2>1. i \in 1..(Len(hu) - (n + 1)) /\ i \in 1..(Len(u) - n) /\ n + i \in 1..Len(u)
    BY <1>1, <1>2, <1>4
  <2>2. l[i] = hu[n + 1 + i] /\ r[i] = u[n + i] /\ n + 1 + i = n + i + 1
    BY <1>1, <1>4, <1>5, <2>1
  <2> QED BY <1>2, <2>1, <2>2
<1>8. l = r
  BY <1>4, <1>5, <1>6, <1>7, SeqEqual
<1>9. n + 1 + 1 = n + 2
  BY <1>1
<1> QED BY <1>8, <1>9 DEF l, r, hu

-----------------------------------------------------------------------------
(* Frames are put at the end of the unread cells and taken off the front.  *)

\* v is w with the frame of h behind it
Longer(v, w, h) ==
    /\ v \in Seq(Cell) /\ Len(v) = Len(w) + 1 + h.len
    /\ \A i \in 1..Len(w) : v[i] = w[i]
    /\ v[Len(w) + 1] = h
    /\ \A k \in 1..h.len : v[Len(w) + 1 + k] = Data(h.seq + k - 1)

\* r is w without its first frame
Shorter(r, w) ==
    /\ r \in Seq(Cell) /\ Len(r) = Len(w) - (w[1].len + 1)
    /\ \A i \in 1..Len(r) : r[i] = w[w[1].len + 1 + i]

\* Arithmetic of positions, kept apart from the sequences.
LEMMA Positions ==
  ASSUME NEW i \in Nat, NEW n \in Nat, NEW m \in Nat, NEW l \in Nat
  PROVE  /\ i + n <= m /\ ~(i + n < m) => i + n = m /\ i + n + 1 = m + 1
         /\ i + n <= m => i + n < m + 1 + l /\ i + n # m + 1 + l
         /\ i + n < m => i + n + 1 \in 1..m
         /\ \A k \in 1..n : i > 0 /\ i + n <= m => i + k \in 1..m
  OBVIOUS

\* The fields of a cell.
LEMMA CellFields ==
  ASSUME NEW c \in Cell
  PROVE  c.len \in Nat /\ c.len <= MaxPay /\ c.seq \in Nat /\ c.hdr \in BOOLEAN /\ c.flags \subseteq Flags
  BY ConstantsAssumption DEF Cell

\* A frame below the end of the sequence space is written as Longer says.
LEMMA Appended ==
  ASSUME NEW w \in Seq(Cell), NEW h \in Cell, h.seq + h.len <= SeqMod
  PROVE  Longer(w \o FrameCells(h), w, h)
<1> DEFINE body == [i \in 1..h.len |-> Data(Add(h.seq, i - 1))]
           v == w \o FrameCells(h)
<1>1. h.len \in Nat /\ h.seq \in Nat /\ SeqMod \in Nat /\ Len(w) \in Nat
  BY ConstantsAssumption, LenProperties DEF Cell
<1>2. ASSUME NEW i \in 1..h.len PROVE Data(Add(h.seq, i - 1)) \in Cell /\ Add(h.seq, i - 1) = h.seq + i - 1
  <2>1. Add(h.seq, i - 1) = h.seq + i - 1 /\ h.seq + i - 1 \in Nat
    BY <1>1 DEF Add
  <2> QED BY <2>1, ConstantsAssumption DEF Data, Cell
<1>3. body \in Seq(Cell) /\ Len(body) = h.len
  <2>1. body \in [1..h.len -> Cell]
    BY <1>2
  <2>2. body \in Seq(Cell)
    BY <1>1, <2>1, FunctionIsSeq
  <2> QED BY <1>1, <2>2, LenProperties
<1>4. /\ FrameCells(h) \in Seq(Cell) /\ Len(FrameCells(h)) = h.len + 1
      /\ FrameCells(h)[1] = h
      /\ \A i \in 1..Len(body) : FrameCells(h)[i + 1] = body[i]
  <2>1. FrameCells(h) = <<h>> \o body
    BY DEF FrameCells
  <2> HIDE DEF body
  <2> QED BY <1>3, <2>1, ConsProperties
<1>5. /\ v \in Seq(Cell) /\ Len(v) = Len(w) + (h.len + 1)
      /\ \A i \in 1..(Len(w) + (h.len + 1)) :
            v[i] = IF i <= Len(w) THEN w[i] ELSE FrameCells(h)[i - Len(w)]
  BY <1>4, ConcatProperties
<1>6. ASSUME NEW i \in 1..Len(w) PROVE v[i] = w[i]
  <2>1. i \in 1..(Len(w) + (h.len + 1)) /\ i <= Len(w)
    BY <1>1
  <2> QED BY <1>5, <2>1
<1>7. v[Len(w) + 1] = h
  <2>1. Len(w) + 1 \in 1..(Len(w) + (h.len + 1)) /\ ~(Len(w) + 1 <= Len(w)) /\ Len(w) + 1 - Len(w) = 1
    BY <1>1
  <2> QED BY <1>4, <1>5, <2>1
<1>8. ASSUME NEW k \in 1..h.len PROVE v[Len(w) + 1 + k] = Data(h.seq + k - 1)
  <2>1. /\ Len(w) + 1 + k \in 1..(Len(w) + (h.len + 1)) /\ ~(Len(w) + 1 + k <= Len(w))
        /\ Len(w) + 1 + k - Len(w) = k + 1
    BY <1>1
  <2>2. v[Len(w) + 1 + k] = FrameCells(h)[k + 1]
    BY <1>5, <2>1
  <2>3. FrameCells(h)[k + 1] = body[k]
    BY <1>3, <1>4
  <2> QED BY <1>2, <2>2, <2>3
<1>9. Len(v) = Len(w) + 1 + h.len
  BY <1>1, <1>5
<1> QED BY <1>5, <1>6, <1>7, <1>8, <1>9 DEF Longer

\* The headers of the longer sequence are the old ones and the new one.
LEMMA AppendedHeaders ==
  ASSUME NEW w \in Seq(Cell), NEW h \in Cell, NEW v, Longer(v, w, h),
         NEW i \in 1..Len(v), v[i].hdr
  PROVE  \/ i \in 1..Len(w) /\ v[i] = w[i]
         \/ i = Len(w) + 1 /\ v[i] = h
<1>1. h.len \in Nat /\ Len(w) \in Nat /\ Len(v) = Len(w) + 1 + h.len
  BY ConstantsAssumption, LenProperties DEF Cell, Longer
<1>2. CASE i <= Len(w)
  BY <1>1, <1>2 DEF Longer
<1>3. CASE i = Len(w) + 1
  BY <1>3 DEF Longer
<1>4. CASE i > Len(w) + 1
  <2>1. i - (Len(w) + 1) \in 1..h.len /\ Len(w) + 1 + (i - (Len(w) + 1)) = i
    BY <1>1, <1>4
  <2>2. v[i] = Data(h.seq + (i - (Len(w) + 1)) - 1)
    BY <2>1 DEF Longer
  <2> QED BY <2>2 DEF Data
<1> QED BY <1>1, <1>2, <1>3, <1>4

\* Whole frames with one more frame behind them are whole frames.
LEMMA WholeAppend ==
  ASSUME NEW w \in Seq(Cell), NEW h \in Cell, h.hdr, NEW v, Longer(v, w, h), Whole(w)
  PROVE  Whole(v)
<1>1. h.len \in Nat /\ Len(w) \in Nat /\ Len(v) = Len(w) + 1 + h.len
  BY ConstantsAssumption, LenProperties DEF Cell, Longer
<1>2. v[1].hdr
  <2>1. CASE w = <<>>
    BY <2>1, EmptySeq DEF Longer
  <2>2. CASE w # <<>>
    <3>1. 1 \in 1..Len(w)
      BY <2>2, EmptySeq
    <3> QED BY <2>2, <3>1 DEF Longer, Whole
  <2> QED BY <2>1, <2>2
<1>3. ASSUME NEW i \in 1..Len(v), v[i].hdr
      PROVE  /\ i + v[i].len <= Len(v)
             /\ \A k \in 1..v[i].len : v[i + k] = Data(v[i].seq + k - 1)
             /\ i + v[i].len < Len(v) => v[i + v[i].len + 1].hdr
  <2>1. CASE i \in 1..Len(w) /\ v[i] = w[i]
    <3>1. w[i].len \in Nat /\ i \in Nat
        <4>1. w[i] \in Cell
      BY <2>1, ElementOfSeq
      <4> QED BY <2>1, <4>1, CellFields
    <3>2. /\ i + w[i].len <= Len(w)
          /\ \A k \in 1..w[i].len : w[i + k] = Data(w[i].seq + k - 1)
          /\ i + w[i].len < Len(w) => w[i + w[i].len + 1].hdr
      BY <1>3, <2>1 DEF Whole
    <3>3. ASSUME NEW k \in 1..w[i].len PROVE v[i + k] = Data(w[i].seq + k - 1)
      <4>1. i + k \in 1..Len(w)
        BY <1>1, <3>1, <3>2
      <4> QED BY <3>2, <4>1 DEF Longer
    <3>4. v[i + w[i].len + 1].hdr
      <4>1. CASE i + w[i].len < Len(w)
        <5>1. i + w[i].len + 1 \in 1..Len(w)
          BY <1>1, <3>1, <4>1
        <5> QED BY <3>2, <4>1, <5>1 DEF Longer
      <4>2. CASE ~(i + w[i].len < Len(w))
        <5>1. i + w[i].len = Len(w)
          BY <1>1, <3>1, <3>2, <4>2, Positions
        <5> QED BY <5>1 DEF Longer
      <4> QED BY <4>1, <4>2
    <3>5. i + w[i].len <= Len(v)
      BY <1>1, <3>1, <3>2, Positions
    <3> QED BY <2>1, <3>3, <3>4, <3>5
  <2>2. CASE i = Len(w) + 1 /\ v[i] = h
    <3>1. \A k \in 1..h.len : v[i + k] = Data(h.seq + k - 1)
      BY <2>2 DEF Longer
    <3> QED BY <1>1, <2>2, <3>1
  <2> QED BY <1>3, <2>1, <2>2, AppendedHeaders
<1> QED BY <1>2, <1>3 DEF Whole

\* A frame that starts where the chain ends makes it longer.
LEMMA ChainedAppend ==
  ASSUME NEW w \in Seq(Cell), NEW h \in Cell, NEW v, Longer(v, w, h), Whole(w),
         NEW first, Chained(w, first, h.seq)
  PROVE  Chained(v, first, h.seq + h.len)
<1>1. h.len \in Nat /\ h.seq \in Nat /\ Len(w) \in Nat /\ Len(v) = Len(w) + 1 + h.len
  BY ConstantsAssumption, LenProperties DEF Cell, Longer
<1>2. v # <<>> /\ v[1].seq = first
  <2>1. CASE w = <<>>
    BY <1>1, <2>1, EmptySeq DEF Longer, Chained
  <2>2. CASE w # <<>>
    <3>1. 1 \in 1..Len(w)
      BY <2>2, EmptySeq
    <3> QED BY <1>1, <2>2, <3>1, EmptySeq DEF Longer, Chained
  <2> QED BY <2>1, <2>2
<1>3. ASSUME NEW i \in 1..Len(v), v[i].hdr
      PROVE  /\ v[i].seq + v[i].len <= h.seq + h.len
             /\ i + v[i].len = Len(v) => v[i].seq + v[i].len = h.seq + h.len
             /\ i + v[i].len < Len(v) => v[i + v[i].len + 1].seq = v[i].seq + v[i].len
  <2>1. CASE i \in 1..Len(w) /\ v[i] = w[i]
    <3>1. w[i].len \in Nat /\ w[i].seq \in Nat /\ i \in Nat
        <4>1. w[i] \in Cell
      BY <2>1, ElementOfSeq
      <4> QED BY <2>1, <4>1, CellFields
    <3>2. i + w[i].len <= Len(w)
      BY <1>3, <2>1 DEF Whole
    <3>3. /\ w[i].seq + w[i].len <= h.seq
          /\ i + w[i].len = Len(w) => w[i].seq + w[i].len = h.seq
          /\ i + w[i].len < Len(w) => w[i + w[i].len + 1].seq = w[i].seq + w[i].len
      BY <1>3, <2>1 DEF Chained
    <3>4. v[i + w[i].len + 1].seq = w[i].seq + w[i].len
      <4>1. CASE i + w[i].len < Len(w)
        <5>1. i + w[i].len + 1 \in 1..Len(w)
          BY <1>1, <3>1, <4>1
        <5> QED BY <3>3, <4>1, <5>1 DEF Longer
      <4>2. CASE ~(i + w[i].len < Len(w))
        <5>1. i + w[i].len = Len(w)
          BY <1>1, <3>1, <3>2, <4>2, Positions, SMTT(30)
        <5> QED BY <3>3, <5>1 DEF Longer
      <4> QED BY <4>1, <4>2
    <3>5. i + w[i].len # Len(v)
      BY <1>1, <3>1, <3>2, Positions
    <3>6. w[i].seq + w[i].len <= h.seq + h.len
      <4> DEFINE e == w[i].seq + w[i].len
      <4>1. e \in Nat /\ e <= h.seq
        BY <3>1, <3>3
      <4> HIDE DEF e
      <4>2. e <= h.seq + h.len
        BY <1>1, <4>1
      <4> QED BY <4>2 DEF e
    <3> QED BY <2>1, <3>4, <3>5, <3>6
  <2>2. CASE i = Len(w) + 1 /\ v[i] = h
    BY <1>1, <2>2
  <2> QED BY <1>3, <2>1, <2>2, AppendedHeaders
<1> QED BY <1>2, <1>3 DEF Chained

\* One more frame from the same set.
LEMMA HeadersAppend ==
  ASSUME NEW S, NEW w \in Seq(Cell), NEW h \in S, h \in Cell, NEW v, Longer(v, w, h), Headers(w, S)
  PROVE  Headers(v, S)
<1> SUFFICES ASSUME NEW i \in 1..Len(v), v[i].hdr PROVE v[i] \in S
  BY DEF Headers
<1>1. CASE i \in 1..Len(w) /\ v[i] = w[i]
  BY <1>1 DEF Headers
<1>2. CASE i = Len(w) + 1 /\ v[i] = h
  BY <1>2
<1> QED BY <1>1, <1>2, AppendedHeaders

\* Before the reset anything may come, a SYN|ACK only behind its like.
LEMMA OrderedAppend ==
  ASSUME NEW w \in Seq(Cell), NEW h \in Cell, NEW v, Longer(v, w, h), Whole(w), Ordered(w),
         \A i \in 1..Len(w) : w[i].hdr => "RST" \notin w[i].flags,
         "RST" \in h.flags => h.len = 0,
         "SYN" \in h.flags => \A i \in 1..Len(w) : w[i].hdr => "SYN" \in w[i].flags
  PROVE  Ordered(v)
<1>1. h.len \in Nat /\ Len(w) \in Nat /\ Len(v) = Len(w) + 1 + h.len
  BY ConstantsAssumption, LenProperties DEF Cell, Longer
<1> SUFFICES ASSUME NEW i \in 1..Len(v), v[i].hdr
             PROVE  /\ "RST" \in v[i].flags => i = Len(v)
                    /\ "SYN" \notin v[i].flags /\ i + v[i].len < Len(v) =>
                          "SYN" \notin v[i + v[i].len + 1].flags
  BY DEF Ordered
<1>2. CASE i \in 1..Len(w) /\ v[i] = w[i]
  <2>1. w[i].len \in Nat /\ i \in Nat /\ w[i].hdr
    <3>1. w[i] \in Cell
      BY <1>2, ElementOfSeq
    <3> QED BY <1>2, <3>1, CellFields
  <2>2. i + w[i].len <= Len(w)
    BY <1>2, <2>1 DEF Whole
  <2>3. "RST" \notin v[i].flags
    BY <1>2, <2>1
  <2>4. ASSUME "SYN" \notin w[i].flags PROVE "SYN" \notin v[i + w[i].len + 1].flags
    <3>1. CASE i + w[i].len < Len(w)
      <4>1. i + w[i].len + 1 \in 1..Len(w)
        BY <1>1, <2>1, <3>1
      <4>2. "SYN" \notin w[i + w[i].len + 1].flags
        BY <1>2, <2>1, <2>4, <3>1 DEF Ordered
      <4> QED BY <4>1, <4>2 DEF Longer
    <3>2. CASE ~(i + w[i].len < Len(w))
      <4>1. i + w[i].len = Len(w)
        <5>1. PICK m \in Nat : m = Len(w)
          BY <1>1
        <5>2. PICK n \in Nat : n = w[i].len
          BY <2>1
        <5>3. PICK j \in Nat : j = i
          BY <2>1
        <5>4. j + n <= m /\ ~(j + n < m)
          BY <2>2, <3>2, <5>1, <5>2, <5>3
        <5>5. j + n = m
          BY <5>1, <5>2, <5>3, <5>4
        <5> QED BY <5>1, <5>2, <5>3, <5>5
      <4>2. "SYN" \notin h.flags
        BY <1>2, <2>1, <2>4
      <4> QED BY <4>1, <4>2 DEF Longer
    <3> QED BY <3>1, <3>2
  <2> QED BY <1>2, <2>3, <2>4
<1>3. CASE i = Len(w) + 1 /\ v[i] = h
  BY <1>1, <1>3
<1> QED BY <1>2, <1>3, AppendedHeaders

\* What lies behind the first frame is what Shorter says.
LEMMA Dropped ==
  ASSUME NEW w \in Seq(Cell), w # <<>>, w[1].len < Len(w)
  PROVE  Shorter(SubSeq(w, w[1].len + 2, Len(w)), w)
<1>1. Len(w) \in Nat /\ 1 \in 1..Len(w)
  BY EmptySeq
<1>2. w[1] \in Cell
  BY <1>1, ElementOfSeq
<1>3. PICK n \in Nat : n = w[1].len
  BY <1>2, CellFields
<1>4. n < Len(w) /\ n + 1 \in 0..Len(w) /\ n + 1 + 1 = n + 2
  BY <1>1, <1>3
<1> DEFINE r == SubSeq(w, n + 1 + 1, Len(w))
<1>5. /\ r \in Seq(Cell)
      /\ Len(r) = Len(w) - (n + 1)
      /\ \A i \in 1..(Len(w) - (n + 1)) : r[i] = w[n + 1 + i]
  BY <1>4, DropProperties
<1>6. r = SubSeq(w, w[1].len + 2, Len(w))
  BY <1>3, <1>4
<1> HIDE DEF r
<1>7. \A i \in 1..Len(r) : r[i] = w[n + 1 + i]
  BY <1>5
<1>8. Shorter(r, w)
  BY <1>3, <1>5, <1>7 DEF Shorter
<1> QED BY <1>6, <1>8

\* A cell of the shorter sequence and its place in the longer one.
LEMMA DroppedPlace ==
  ASSUME NEW w \in Seq(Cell), w # <<>>, w[1].hdr, Whole(w), NEW r, Shorter(r, w),
         NEW n, n = w[1].len, NEW i \in 1..Len(r)
  PROVE  /\ n \in Nat /\ Len(w) \in Nat /\ Len(r) \in Nat
         /\ Len(r) = Len(w) - (n + 1)
         /\ n + 1 + i \in 1..Len(w) /\ r[i] = w[n + 1 + i] /\ r[i] \in Cell
<1>1. Len(w) \in Nat /\ 1 \in 1..Len(w)
  BY EmptySeq
<1>2. w[1] \in Cell
  BY <1>1, ElementOfSeq
<1>3. n \in Nat
  BY <1>2, CellFields
<1>4. Len(r) \in Nat /\ r[i] \in Cell /\ i \in Nat /\ i >= 1 /\ i <= Len(r)
  BY LenProperties, ElementOfSeq DEF Shorter
<1>5. Len(r) = Len(w) - (n + 1) /\ r[i] = w[n + 1 + i]
  BY DEF Shorter
<1>6. n + 1 + i \in 1..Len(w)
  BY <1>1, <1>3, <1>4, <1>5
<1> QED BY <1>1, <1>3, <1>4, <1>5, <1>6

\* Arithmetic of positions behind the first frame.
LEMMA Shifted ==
  ASSUME NEW n \in Nat, NEW i \in Nat, NEW m \in Nat, NEW l \in Nat, NEW s \in Nat, s = l - (n + 1)
  PROVE  /\ n + 1 + i + m <= l <=> i + m <= s
         /\ n + 1 + i + m < l <=> i + m < s
         /\ n + 1 + i + m = l <=> i + m = s
         /\ n + 1 + i + m + 1 = n + 1 + (i + m + 1)
         /\ n + 1 + i + m = n + 1 + (i + m)
         /\ n + 1 + i = l <=> i = s
         /\ i + m < s => i + m + 1 \in 1..s
         /\ \A k \in 1..m : i + m <= s => i + k \in 1..s /\ n + 1 + i + k = n + 1 + (i + k)
  OBVIOUS

\* Behind a whole frame lie whole frames.
LEMMA WholeDrop ==
  ASSUME NEW w \in Seq(Cell), w # <<>>, Whole(w), NEW r, Shorter(r, w)
  PROVE  Whole(r)
<1>1. w[1].hdr /\ Len(w) \in Nat /\ 1 \in 1..Len(w)
  BY EmptySeq DEF Whole
<1>2. PICK n : n = w[1].len
  OBVIOUS
<1>3. ASSUME r # <<>> PROVE r[1].hdr
  <2>1. 1 \in 1..Len(r)
    BY <1>3, EmptySeq DEF Shorter
  <2>2. /\ n \in Nat /\ Len(r) = Len(w) - (n + 1)
        /\ n + 1 + 1 \in 1..Len(w) /\ r[1] = w[n + 1 + 1]
    BY <1>1, <1>2, <2>1, DroppedPlace
  <2>3. 1 + n < Len(w) /\ 1 + n + 1 = n + 1 + 1
    BY <1>1, <2>2
  <2>4. w[1 + n + 1].hdr
    BY <1>1, <1>2, <2>3 DEF Whole
  <2> QED BY <2>2, <2>3, <2>4
<1>4. ASSUME NEW i \in 1..Len(r), r[i].hdr
      PROVE  /\ i + r[i].len <= Len(r)
             /\ \A k \in 1..r[i].len : r[i + k] = Data(r[i].seq + k - 1)
             /\ i + r[i].len < Len(r) => r[i + r[i].len + 1].hdr
  <2>1. /\ n \in Nat /\ Len(r) \in Nat /\ Len(r) = Len(w) - (n + 1)
        /\ n + 1 + i \in 1..Len(w) /\ r[i] = w[n + 1 + i] /\ r[i] \in Cell
    BY <1>1, <1>2, DroppedPlace
  <2>2. PICK m \in Nat : m = r[i].len
    BY <2>1, CellFields
  <2>3. /\ n + 1 + i + m <= Len(w)
        /\ \A k \in 1..m : w[n + 1 + i + k] = Data(r[i].seq + k - 1)
        /\ n + 1 + i + m < Len(w) => w[n + 1 + i + m + 1].hdr
    BY <1>4, <2>1, <2>2 DEF Whole
  <2>4. i \in Nat
    OBVIOUS
  <2>5. i + m <= Len(r)
    BY <1>1, <2>1, <2>2, <2>3, <2>4, Shifted
  <2>6. ASSUME NEW k \in 1..m PROVE r[i + k] = Data(r[i].seq + k - 1)
    <3>1. i + k \in 1..Len(r) /\ n + 1 + i + k = n + 1 + (i + k)
      BY <1>1, <2>1, <2>2, <2>4, <2>5, Shifted
    <3>2. r[i + k] = w[n + 1 + (i + k)]
      BY <1>2, <3>1 DEF Shorter
    <3> QED BY <2>3, <3>1, <3>2
  <2>7. ASSUME i + m < Len(r) PROVE r[i + m + 1].hdr
    <3>1. i + m + 1 \in 1..Len(r) /\ n + 1 + i + m < Len(w) /\ n + 1 + i + m + 1 = n + 1 + (i + m + 1)
      BY <1>1, <2>1, <2>2, <2>4, <2>7, Shifted, SMTT(30)
    <3>2. r[i + m + 1] = w[n + 1 + (i + m + 1)]
      BY <1>2, <3>1 DEF Shorter
    <3> QED BY <2>3, <3>1, <3>2
  <2> QED BY <2>2, <2>5, <2>6, <2>7
<1> QED BY <1>3, <1>4 DEF Whole

\* Behind the first frame the chain goes on where that frame ends.
LEMMA ChainedDrop ==
  ASSUME NEW w \in Seq(Cell), w # <<>>, Whole(w), NEW r, Shorter(r, w),
         NEW first, NEW last, Chained(w, first, last)
  PROVE  Chained(r, w[1].seq + w[1].len, last)
<1>1. w[1].hdr /\ Len(w) \in Nat /\ 1 \in 1..Len(w)
  BY EmptySeq DEF Whole
<1>2. PICK n : n = w[1].len
  OBVIOUS
<1>3. n \in Nat /\ Len(r) \in Nat /\ Len(r) = Len(w) - (n + 1)
  <2>1. w[1] \in Cell
    BY <1>1, ElementOfSeq
  <2> QED BY <1>2, <2>1, CellFields, LenProperties DEF Shorter
<1>4. ASSUME r = <<>> PROVE w[1].seq + n = last
  <2>1. Len(r) = 0
    BY <1>4, EmptySeq
  <2>2. 1 + n = Len(w)
    BY <1>1, <1>3, <2>1
  <2> QED BY <1>1, <1>2, <2>2 DEF Chained
<1>5. ASSUME r # <<>> PROVE r[1].seq = w[1].seq + n
  <2>1. 1 \in 1..Len(r)
    BY <1>5, EmptySeq DEF Shorter
  <2>2. r[1] = w[n + 1 + 1]
    BY <1>2, <2>1 DEF Shorter
  <2>3. 1 + n < Len(w) /\ 1 + n + 1 = n + 1 + 1
    BY <1>1, <1>3, <2>1
  <2>4. w[1 + n + 1].seq = w[1].seq + n
    BY <1>1, <1>2, <2>3 DEF Chained
  <2> QED BY <2>2, <2>3, <2>4
<1>6. ASSUME NEW i \in 1..Len(r), r[i].hdr
      PROVE  /\ r[i].seq + r[i].len <= last
             /\ i + r[i].len = Len(r) => r[i].seq + r[i].len = last
             /\ i + r[i].len < Len(r) => r[i + r[i].len + 1].seq = r[i].seq + r[i].len
  <2>1. /\ n + 1 + i \in 1..Len(w) /\ r[i] = w[n + 1 + i] /\ r[i] \in Cell
    BY <1>1, <1>2, DroppedPlace, SMTT(30)
  <2>2. PICK m \in Nat : m = r[i].len
    BY <2>1, CellFields
  <2>3. /\ r[i].seq + m <= last
        /\ n + 1 + i + m = Len(w) => r[i].seq + m = last
        /\ n + 1 + i + m < Len(w) => w[n + 1 + i + m + 1].seq = r[i].seq + m
    BY <1>6, <2>1, <2>2 DEF Chained
  <2>4. i \in Nat /\ m \in Nat /\ n \in Nat /\ Len(w) \in Nat /\ Len(r) \in Nat /\ Len(r) = Len(w) - (n + 1)
    BY <1>1, <1>3, <2>2
  <2>5. i + m = Len(r) => r[i].seq + m = last
    <3>1. n + 1 + i + m = Len(w) <=> i + m = Len(r)
      BY <2>4, Shifted
    <3> QED BY <2>3, <3>1
  <2>6. ASSUME i + m < Len(r) PROVE r[i + m + 1].seq = r[i].seq + m
    <3>1. i + m + 1 \in 1..Len(r) /\ n + 1 + i + m < Len(w) /\ n + 1 + i + m + 1 = n + 1 + (i + m + 1)
      BY <2>4, <2>6, Shifted
    <3>2. r[i + m + 1] = w[n + 1 + (i + m + 1)]
      BY <1>2, <3>1 DEF Shorter
    <3> QED BY <2>3, <3>1, <3>2
  <2> QED BY <2>2, <2>3, <2>5, <2>6
<1> QED BY <1>2, <1>4, <1>5, <1>6 DEF Chained

\* The headers behind the first frame, and their order, are what they were.
LEMMA OrderedDrop ==
  ASSUME NEW w \in Seq(Cell), w # <<>>, Whole(w), NEW r, Shorter(r, w), NEW S,
         Headers(w, S), Ordered(w)
  PROVE  Headers(r, S) /\ Ordered(r)
<1>1. w[1].hdr /\ Len(w) \in Nat /\ 1 \in 1..Len(w)
  BY EmptySeq DEF Whole
<1>2. PICK n : n = w[1].len
  OBVIOUS
<1> SUFFICES ASSUME NEW i \in 1..Len(r), r[i].hdr
             PROVE  /\ r[i] \in S
                    /\ "RST" \in r[i].flags => i = Len(r)
                    /\ "SYN" \notin r[i].flags /\ i + r[i].len < Len(r) =>
                          "SYN" \notin r[i + r[i].len + 1].flags
  BY DEF Headers, Ordered
<1>3. /\ n \in Nat /\ Len(r) \in Nat /\ Len(r) = Len(w) - (n + 1)
      /\ n + 1 + i \in 1..Len(w) /\ r[i] = w[n + 1 + i] /\ r[i] \in Cell
  BY <1>1, <1>2, DroppedPlace
<1>4. PICK m \in Nat : m = r[i].len
  BY <1>3, CellFields
<1>5. r[i] \in S
  BY <1>3 DEF Headers
<1>6. i \in Nat /\ m \in Nat /\ n \in Nat /\ Len(w) \in Nat /\ Len(r) \in Nat /\ Len(r) = Len(w) - (n + 1)
  BY <1>1, <1>3, <1>4
<1>7. ASSUME "RST" \in r[i].flags PROVE i = Len(r)
  <2>1. n + 1 + i = Len(w)
    BY <1>3, <1>7 DEF Ordered
  <2> QED BY <1>6, <2>1, Shifted
<1>8. ASSUME "SYN" \notin r[i].flags, i + m < Len(r) PROVE "SYN" \notin r[i + m + 1].flags
  <2>1. i + m + 1 \in 1..Len(r) /\ n + 1 + i + m < Len(w) /\ n + 1 + i + m + 1 = n + 1 + (i + m + 1)
    BY <1>6, <1>8, Shifted
  <2>2. r[i + m + 1] = w[n + 1 + (i + m + 1)]
    BY <1>2, <2>1 DEF Shorter
  <2>3. "SYN" \notin w[n + 1 + i + m + 1].flags
    BY <1>3, <1>4, <1>8, <2>1 DEF Ordered
  <2> QED BY <2>1, <2>2, <2>3
<1> QED BY <1>4, <1>5, <1>7, <1>8

-----------------------------------------------------------------------------
(* What the steps of the host and of the device do to the unread cells.    *)

\* The unread cells are cells, and so are those of the two buffers.
LEMMA UnreadType ==
  ASSUME Types
  PROVE  /\ rx_buf \in Seq(Cell) /\ in \in Seq(Cell) /\ cur \in Seq(Cell)
         /\ rx_buf \o in \in Seq(Cell) /\ Unread \in Seq(Cell)
         /\ Len(rx_buf) \in Nat /\ Len(in) \in Nat
         /\ Len(rx_buf \o in) = Len(rx_buf) + Len(in)
         /\ Len(Unread) = Len(cur) + (Len(rx_buf) + Len(in))
<1>1. rx_buf \in Seq(Cell) /\ in \in Seq(Cell) /\ cur \in Seq(Cell)
  BY DEF Types
<1>2. rx_buf \o in \in Seq(Cell) /\ Len(rx_buf \o in) = Len(rx_buf) + Len(in)
  BY <1>1, ConcatProperties
<1>3. Unread \in Seq(Cell) /\ Len(Unread) = Len(cur) + Len(rx_buf \o in)
  BY <1>1, <1>2, ConcatProperties DEF Unread
<1> QED BY <1>1, <1>2, <1>3, LenProperties

\* Between frames the unread cells are those of the two buffers.
LEMMA UnreadBetween ==
  ASSUME Types, cur = <<>>
  PROVE  Unread = rx_buf \o in
  BY UnreadType, ConcatEmptySeq DEF Unread

\* A transfer that fits moves cells to rx_buf: what is unread stays unread.
LEMMA UnreadTaken ==
  ASSUME Types, NEW k \in Transfers, Take(k), rx_buf' = rx_buf \o Chunk(k), UNCHANGED cur
  PROVE  Unread' = Unread
<1>1. k \in 1..Len(in)
  BY ConstantsAssumption, UnreadType DEF Transfers
<1>2. (rx_buf \o SubSeq(in, 1, k)) \o SubSeq(in, k + 1, Len(in)) = rx_buf \o in
  BY <1>1, UnreadType, MoveKeeps
<1>3. rx_buf' \o in' = rx_buf \o in
  BY <1>2 DEF Take, Chunk
<1> QED BY <1>3 DEF Unread

\* The device writes behind everything that is unread.
LEMMA UnreadGrows ==
  ASSUME Types, NEW h \in Cell, in' = in \o FrameCells(h), UNCHANGED <<cur, rx_buf>>
  PROVE  Unread' = Unread \o FrameCells(h)
<1>1. FrameCells(h) \in Seq(Cell) /\ rx_buf \in Seq(Cell) /\ in \in Seq(Cell) /\ cur \in Seq(Cell)
  BY FrameCellsType, UnreadType
<1>2. PICK c : c = FrameCells(h)
  OBVIOUS
<1>3. c \in Seq(Cell)
  BY <1>1, <1>2
<1>4. InLine(cur, rx_buf, Cat(in, c)) = Cat(InLine(cur, rx_buf, in), c)
  BY <1>1, <1>3, InLineGrows
<1>5. Unread = InLine(cur, rx_buf, in) /\ Unread' = InLine(cur, rx_buf, Cat(in, c))
  BY <1>2, Zenon DEF Unread, InLine, Cat
<1>6. Unread' = Cat(Unread, c)
  BY <1>4, <1>5, Zenon
<1> QED BY <1>2, <1>6, Zenon DEF Cat

\* A header that has been read still counts as unread, until its frame is.
LEMMA UnreadHeader ==
  ASSUME Types, cur = <<>>, rx_buf # <<>>, cur' = <<Head(rx_buf)>>, rx_buf' = Tail(rx_buf), UNCHANGED in
  PROVE  Unread' = Unread
<1>1. Unread' = <<Head(rx_buf)>> \o (Tail(rx_buf) \o in)
  BY DEF Unread
<1>2. <<Head(rx_buf)>> \o (Tail(rx_buf) \o in) = rx_buf \o in
  BY UnreadType, HeadBack
<1> QED BY <1>1, <1>2, UnreadBetween

\* A sequence of at most one cell that is not empty.
LEMMA OneCell ==
  ASSUME NEW c \in Seq(Cell), Len(c) <= 1, c # <<>>
  PROVE  c = <<Head(c)>> /\ Head(c) \in Cell
<1>1. Head(c) \in Cell
  BY TailOfSeq
<1>2. Len(c) = 1
  <2>1. PICK n \in Nat \ {0} : n = Len(c)
    BY EmptySeq
  <2>2. n <= 1
    BY <2>1
  <2>3. n = 1
    BY <2>2
  <2> QED BY <2>1, <2>3
<1>3. <<Head(c)>> \in Seq(Cell) /\ Len(<<Head(c)>>) = 1 /\ <<Head(c)>>[1] = Head(c)
  BY <1>1
<1>4. Head(c) = c[1]
  BY <1>1
<1>5. \A i \in 1..Len(c) : c[i] = <<Head(c)>>[i]
  BY <1>2, <1>3, <1>4
<1> QED BY <1>1, <1>2, <1>3, <1>5, SeqEqual

\* While a frame is being read, its header is the first of the unread cells.
LEMMA UnreadInFrame ==
  ASSUME Types, cur # <<>>
  PROVE  /\ Head(cur) \in Cell /\ cur = <<Head(cur)>>
         /\ Unread # <<>> /\ Unread[1] = Head(cur)
         /\ Unread = <<Head(cur)>> \o (rx_buf \o in)
         /\ Len(Unread) = 1 + Len(rx_buf) + Len(in)
         /\ \A k \in 1..Len(rx_buf) : Unread[1 + k] = rx_buf[k]
<1>1. cur = <<Head(cur)>> /\ Head(cur) \in Cell
  BY OneCell DEF Types
<1>2. Unread = <<Head(cur)>> \o (rx_buf \o in)
  BY <1>1 DEF Unread
<1>3. /\ Len(Unread) = Len(rx_buf \o in) + 1 /\ Unread[1] = Head(cur)
      /\ \A i \in 1..Len(rx_buf \o in) : Unread[i + 1] = (rx_buf \o in)[i]
  BY <1>1, <1>2, UnreadType, ConsProperties
<1>4. Len(rx_buf) \in Nat /\ Len(in) \in Nat /\ Len(rx_buf \o in) = Len(rx_buf) + Len(in)
  BY UnreadType
<1>5. ASSUME NEW k \in 1..Len(rx_buf) PROVE Unread[1 + k] = rx_buf[k]
  <2>1. k \in 1..(Len(rx_buf) + Len(in)) /\ k <= Len(rx_buf) /\ 1 + k = k + 1
    BY <1>4
  <2>2. (rx_buf \o in)[k] = rx_buf[k]
    BY <2>1, UnreadType, ConcatProperties
  <2> QED BY <1>3, <1>4, <2>1, <2>2
<1>6. Len(Unread) = 1 + Len(rx_buf) + Len(in)
  BY <1>3, <1>4
<1>7. Unread # <<>>
  BY <1>4, <1>6, EmptySeq
<1> QED BY <1>1, <1>2, <1>3, <1>5, <1>6, <1>7

\* A frame that has been read whole is taken off the unread cells.
LEMMA UnreadFrame ==
  ASSUME Types, FrameRead, UNCHANGED in
  PROVE  /\ Unread # <<>> /\ Unread[1] = Head(cur) /\ Need = Unread[1].len
         /\ Unread[1].len < Len(Unread) /\ Shorter(Unread', Unread)
         /\ Payload \in Seq(Cell) /\ Len(Payload) = Need
         /\ \A k \in 1..Need : Payload[k] = Unread[1 + k]
<1>1. /\ cur # <<>> /\ Len(rx_buf) >= Need /\ cur' = <<>>
      /\ rx_buf' = SubSeq(rx_buf, Need + 1, Len(rx_buf))
  BY DEF FrameRead
<1>2. /\ Head(cur) \in Cell /\ Unread # <<>> /\ Unread[1] = Head(cur)
      /\ Unread = <<Head(cur)>> \o (rx_buf \o in)
      /\ Len(Unread) = 1 + Len(rx_buf) + Len(in)
      /\ \A k \in 1..Len(rx_buf) : Unread[1 + k] = rx_buf[k]
  BY <1>1, UnreadInFrame
<1>3. Need = Unread[1].len /\ Need \in Nat
  BY <1>1, <1>2, CellFields DEF Need
<1>4. Len(rx_buf) \in Nat /\ Len(in) \in Nat /\ Len(rx_buf \o in) = Len(rx_buf) + Len(in)
  BY UnreadType
<1>5. Need \in 0..Len(rx_buf) /\ Need \in 0..Len(rx_buf \o in)
  BY <1>1, <1>3, <1>4
<1>6. rx_buf' \o in' = SubSeq(rx_buf \o in, Need + 1, Len(rx_buf \o in))
  BY <1>1, <1>5, UnreadType, DropOfConcat
<1>7. SubSeq(Unread, Need + 2, Len(Unread)) = SubSeq(rx_buf \o in, Need + 1, Len(rx_buf \o in))
  BY <1>2, <1>5, UnreadType, DropOfCons
<1>8. Unread' = rx_buf' \o in'
  <2>1. rx_buf' \in Seq(Cell)
    BY FrameReadType
  <2>2. rx_buf' \o in' \in Seq(Cell)
    BY <2>1, UnreadType, ConcatProperties
  <2> QED BY <1>1, <2>2, ConcatEmptySeq DEF Unread
<1>9. Unread[1].len < Len(Unread)
  BY <1>1, <1>2, <1>3, <1>4
<1>10. Shorter(Unread', Unread)
  BY <1>2, <1>3, <1>6, <1>7, <1>8, <1>9, UnreadType, Dropped
<1>11. Payload \in Seq(Cell) /\ Len(Payload) = Need /\ \A k \in 1..Need : Payload[k] = rx_buf[k]
  <2>1. \A i \in 1..Need : rx_buf[i] \in Cell
    BY <1>3, <1>4, <1>5, UnreadType, ElementOfSeq
  <2>2. /\ SubSeq(rx_buf, 1, Need) \in Seq(Cell)
        /\ Len(SubSeq(rx_buf, 1, Need)) = IF 1 <= Need THEN Need - 1 + 1 ELSE 0
        /\ \A i \in 1..(Need - 1 + 1) : SubSeq(rx_buf, 1, Need)[i] = rx_buf[1 + i - 1]
    BY <1>3, <2>1, SubSeqProperties
  <2>3. Need - 1 + 1 = Need /\ \A i \in 1..Need : 1 + i - 1 = i
    BY <1>3
  <2> QED BY <1>3, <2>2, <2>3 DEF Payload
<1>12. ASSUME NEW k \in 1..Need PROVE Payload[k] = Unread[1 + k]
  <2>1. k \in 1..Len(rx_buf)
    BY <1>1, <1>3, <1>4
  <2> QED BY <1>2, <1>11, <2>1
<1> QED BY <1>2, <1>3, <1>9, <1>10, <1>11, <1>12

\* The parse loop takes a frame off rx_buf and off the unread cells.
LEMMA UnreadParse ==
  ASSUME Types, NEW h, ParseReady(h), h = Head(rx_buf), cur = <<>>,
         rx_buf' = AfterFrame(h), UNCHANGED <<cur, in>>
  PROVE  /\ Unread # <<>> /\ rx_buf # <<>>
         /\ Unread[1] = Head(rx_buf) /\ rx_buf[1] = Head(rx_buf) /\ Head(rx_buf) \in Cell
         /\ Head(rx_buf).len < Len(rx_buf) /\ Len(rx_buf) <= Len(Unread)
         /\ \A i \in 1..Len(rx_buf) : Unread[i] = rx_buf[i]
         /\ Shorter(Unread', Unread) /\ Shorter(rx_buf', rx_buf)
<1>1. rx_buf # <<>> /\ Head(rx_buf).len < Len(rx_buf)
  BY PayloadType
<1>2. Len(rx_buf) \in Nat \ {0} /\ Len(in) \in Nat /\ Len(rx_buf \o in) = Len(rx_buf) + Len(in)
  BY <1>1, EmptySeq, UnreadType
<1>3. Unread = rx_buf \o in
  BY UnreadBetween
<1>4. ASSUME NEW i \in 1..Len(rx_buf) PROVE Unread[i] = rx_buf[i]
  <2>1. i \in 1..(Len(rx_buf) + Len(in)) /\ i <= Len(rx_buf)
    BY <1>2
  <2> QED BY <1>3, <2>1, UnreadType, ConcatProperties
<1>5. rx_buf[1] = Head(rx_buf) /\ Unread[1] = Head(rx_buf) /\ Head(rx_buf) \in Cell
  <2>1. 1 \in 1..Len(rx_buf)
    BY <1>2
  <2>2. rx_buf[1] = Head(rx_buf)
    BY <1>1
  <2> QED BY <1>1, <1>4, <2>1, <2>2, UnreadType, TailOfSeq
<1>6. Len(rx_buf) <= Len(Unread) /\ Len(Unread) > 0
  BY <1>2, <1>3
<1>7. Unread # <<>>
  BY <1>6, EmptySeq
<1>8. PICK n \in Nat : n = Head(rx_buf).len
  BY <1>5, CellFields
<1>9. n < Len(Unread) /\ n + 1 \in 0..Len(rx_buf) /\ n + 1 + 1 = n + 2
  BY <1>1, <1>2, <1>6, <1>8
<1>10. SubSeq(rx_buf, n + 1 + 1, Len(rx_buf)) \o in = SubSeq(rx_buf \o in, n + 1 + 1, Len(rx_buf \o in))
  BY <1>9, UnreadType, DropOfConcat
<1>11. AfterFrame(h) \o in = SubSeq(Unread, n + 2, Len(Unread))
  BY <1>3, <1>8, <1>9, <1>10 DEF AfterFrame
<1>12. Unread' = AfterFrame(h) \o in
  <2>1. AfterFrame(h) \in Seq(Cell)
    BY PayloadType
  <2>2. AfterFrame(h) \o in \in Seq(Cell)
    BY <2>1, UnreadType, ConcatProperties
  <2> QED BY <2>2, ConcatEmptySeq DEF Unread
<1>13. Shorter(Unread', Unread)
  BY <1>5, <1>7, <1>8, <1>9, <1>11, <1>12, UnreadType, Dropped
<1>14. Shorter(rx_buf', rx_buf)
  BY <1>1, <1>5, UnreadType, Dropped DEF AfterFrame
<1> QED BY <1>1, <1>4, <1>5, <1>6, <1>7, <1>13, <1>14

-----------------------------------------------------------------------------
(* What the parts of the invariant rest on.                                *)

\* The sizes, as numbers.
LEMMA Sizes ==
  ASSUME QuietLine, RoomEnough
  PROVE  /\ MaxPay \in Nat \ {0} /\ MaxChunk \in Nat \ {0} /\ RxCap \in Nat /\ PrebufCap \in Nat
         /\ SeenCap \in Nat /\ SeenCap >= 2 /\ MaxPay <= PrebufCap
         /\ MaxPay + MaxChunk <= RxCap
         /\ ISN \in Nat /\ StreamLen \in Nat /\ SeqMod \in Nat /\ TxInit \in Nat /\ TxInit < SeqMod
         /\ ISN + StreamLen + 2 < SeqMod
         /\ EarlyFrames \in Nat /\ EarlyFrames <= 1
  BY ConstantsAssumption DEF QuietLine, RoomEnough, NoWrap

\* A retransmission less makes room for one frame more.
LEMMA RoomOfRetransmissions ==
  ASSUME NEW m \in Nat, NEW n \in Nat, NEW k \in Nat
  PROVE  /\ n * (k + 1) \in Nat
         /\ m <= n => m * (k + 1) <= n * (k + 1)
         /\ n > 0 => (n - 1) * (k + 1) = n * (k + 1) - (k + 1)
  BY SMT

\* A fault is spent: only polls, writes and retransmissions can be.
LEMMA SpendBudgets ==
  ASSUME QuietLine, RoomEnough, Types, Budgets, NEW f \in FaultNames, Spend(f)
  PROVE  /\ Budgets' /\ f \notin {"read", "pureack"}
         /\ RetxRoom(budget) \in Nat /\ RetxRoom(budget') \in Nat
         /\ RetxRoom(budget') <= RetxRoom(budget)
         /\ budget'["poll"] <= budget["poll"]
         /\ f = "retransmit" => /\ budget["poll"] = 0
                                /\ RetxRoom(budget') = RetxRoom(budget) - (MaxPay + 1)
<1>1. /\ budget \in [FaultNames -> Nat] /\ budget[f] > 0
      /\ budget' = [budget EXCEPT ![f] = budget[f] - 1]
  BY DEF Spend, Types
<1>2. {"poll", "read", "write", "retransmit", "pureack"} = FaultNames
  BY DEF FaultNames
<1>3. budget["poll"] \in Nat /\ budget["retransmit"] \in Nat /\ budget[f] \in Nat
  BY <1>1, <1>2
<1>4. f \notin {"read", "pureack"}
  BY <1>1 DEF Budgets
<1>5. budget'["read"] = 0 /\ budget'["pureack"] = 0
  BY <1>1, <1>2, <1>4 DEF Budgets
<1>6. budget'["poll"] = IF f = "poll" THEN budget["poll"] - 1 ELSE budget["poll"]
  BY <1>1, <1>2
<1>7. budget'["retransmit"] = IF f = "retransmit" THEN budget["retransmit"] - 1 ELSE budget["retransmit"]
  BY <1>1, <1>2
<1>8. /\ budget'["poll"] \in Nat /\ budget'["poll"] <= budget["poll"]
      /\ budget'["retransmit"] \in Nat /\ budget'["retransmit"] <= budget["retransmit"]
  BY <1>1, <1>3, <1>6, <1>7
<1>9. budget'["poll"] > 0 => budget'["retransmit"] = 0
  BY <1>3, <1>8 DEF Budgets
<1>10. MaxPay \in Nat /\ RxCap \in Nat
  BY Sizes
<1>11. /\ RetxRoom(budget) \in Nat /\ RetxRoom(budget') \in Nat
       /\ RetxRoom(budget') <= RetxRoom(budget)
  BY <1>3, <1>8, <1>10, RoomOfRetransmissions DEF RetxRoom
<1>12. RetxRoom(budget') + MaxPay + 2 <= RxCap
  BY <1>10, <1>11 DEF Budgets
<1>13. ASSUME f = "retransmit"
       PROVE  budget["poll"] = 0 /\ RetxRoom(budget') = RetxRoom(budget) - (MaxPay + 1)
  <2>1. budget["poll"] = 0
    BY <1>1, <1>3, <1>13 DEF Budgets
  <2>2. budget["retransmit"] > 0 /\ budget'["retransmit"] = budget["retransmit"] - 1
    BY <1>1, <1>7, <1>13
  <2>3. RetxRoom(budget') = RetxRoom(budget) - (MaxPay + 1)
    BY <1>3, <1>10, <2>2, RoomOfRetransmissions DEF RetxRoom
  <2> QED BY <2>1, <2>3
<1> QED BY <1>4, <1>5, <1>8, <1>9, <1>11, <1>12, <1>13 DEF Budgets

\* A step spends nothing, or what a failed write or poll spends.
LEMMA BudgetsKept ==
  ASSUME QuietLine, RoomEnough, Types, Budgets,
         UNCHANGED budget \/ \E f \in FaultNames : Spend(f)
  PROVE  /\ Budgets' /\ budget'["poll"] <= budget["poll"] /\ budget["poll"] \in Nat /\ budget'["poll"] \in Nat
         /\ RetxRoom(budget) \in Nat /\ RetxRoom(budget') \in Nat
         /\ RetxRoom(budget') <= RetxRoom(budget)
<1>1. budget["poll"] \in Nat /\ budget["retransmit"] \in Nat
  BY DEF Types, FaultNames
<1>2. RetxRoom(budget) \in Nat
  BY <1>1, Sizes, RoomOfRetransmissions DEF RetxRoom
<1>3. CASE UNCHANGED budget
  BY <1>1, <1>2, <1>3 DEF Budgets
<1>4. CASE \E f \in FaultNames : Spend(f)
  <2>1. PICK f \in FaultNames : Spend(f)
    BY <1>4
  <2>2. budget' \in [FaultNames -> Nat]
    BY <2>1, SpendType DEF Types
  <2>3. budget'["poll"] \in Nat
    BY <2>2 DEF FaultNames
  <2> QED BY <1>1, <2>1, <2>3, SpendBudgets
<1> QED BY <1>3, <1>4

\* Units that are not touched stay what and where they are.
LEMMA SameUnits ==
  ASSUME UNCHANGED <<delivered, prebuf>>
  PROVE  Units' = Units /\ Taken' = Taken /\ Place' = Place
  BY DEF Units, Taken, Place

\* What the host has taken is a sequence of cells, none of them twice.
LEMMA UnitsType ==
  ASSUME Types
  PROVE  /\ Units \in Seq(Cell) /\ Taken \in Nat /\ Place \in Nat /\ End \in Nat
         /\ produced \in Nat /\ rx_ack \in Nat /\ ISN \in Nat
<1>1. Units \in Seq(Cell)
  BY ConcatProperties DEF Types, Units
<1>2. Taken \in Nat
  BY <1>1, LenProperties DEF Taken
<1>3. produced \in Nat /\ rx_ack \in Nat /\ ISN \in Nat
  BY ConstantsAssumption DEF Types
<1> QED BY <1>1, <1>2, <1>3 DEF Place, End

\* A step that leaves the units and the device's numbers alone.
LEMMA SteadySame ==
  ASSUME Steady, UNCHANGED <<delivered, prebuf, produced, rx_ack>>,
         Budgets', Whole(Unread'),
         dstate \notin {"listen", "open"} => dstate' \notin {"listen", "open"},
         dstate' = "open" => snd_nxt' = End
  PROVE  Steady'
<1>1. Units' = Units /\ Taken' = Taken /\ Place' = Place
  BY SameUnits
<1>2. End' = End
  BY DEF End
<1>3. Kept'
  BY <1>1 DEF Kept, Steady
<1>4. Acked'
  BY <1>1 DEF Acked, Steady
<1>5. produced' <= StreamLen /\ Taken' <= produced'
  BY <1>1 DEF Steady
<1> QED BY <1>2, <1>3, <1>4, <1>5 DEF Steady

\* The same for the host's steps, which leave all of the device alone.
LEMMA SteadyHost ==
  ASSUME Steady, UNCHANGED <<delivered, prebuf, produced, rx_ack, dstate, snd_nxt>>,
         Budgets', Whole(Unread')
  PROVE  Steady'
<1>1. dstate' = "open" => snd_nxt' = End
  BY DEF Steady
<1> QED BY <1>1, SteadySame

\* Frames without payload are whole.
LEMMA BareFrames ==
  ASSUME NEW w \in Seq(Cell), \A i \in 1..Len(w) : w[i].hdr /\ w[i].len = 0
  PROVE  Whole(w)
<1>1. ASSUME w # <<>> PROVE w[1].hdr
  <2>1. 1 \in 1..Len(w)
    BY <1>1, EmptySeq
  <2> QED BY <2>1
<1>2. ASSUME NEW i \in 1..Len(w), w[i].hdr
      PROVE  /\ i + w[i].len <= Len(w)
             /\ \A k \in 1..w[i].len : w[i + k] = Data(w[i].seq + k - 1)
             /\ i + w[i].len < Len(w) => w[i + w[i].len + 1].hdr
  <2>1. w[i].len = 0 /\ Len(w) \in Nat
    BY LenProperties
  <2>2. i + w[i].len = i /\ 1..w[i].len = {}
    BY <2>1
  <2>3. i <= Len(w) /\ (i < Len(w) => i + 1 \in 1..Len(w))
    BY <2>1
  <2> QED BY <2>2, <2>3
<1> QED BY <1>1, <1>2 DEF Whole

\* A frame without payload is one cell.
LEMMA BareCells ==
  ASSUME NEW h \in Cell, h.len = 0
  PROVE  FrameCells(h) = <<h>>
<1> DEFINE body == [i \in 1..h.len |-> Data(Add(h.seq, i - 1))]
<1>1. body \in Seq(Cell) /\ Len(body) = 0
  <2>1. 1..h.len = {}
    OBVIOUS
  <2>2. body \in [1..0 -> Cell] /\ 1..0 = {}
    BY <2>1
  <2>3. body \in Seq(Cell)
    BY <2>2, FunctionIsSeq
  <2> QED BY <2>2, <2>3
<1>2. body = <<>>
  BY <1>1, EmptySeq
<1>3. <<h>> \in Seq(Cell)
  OBVIOUS
<1>4. <<h>> \o <<>> = <<h>>
  BY <1>3, ConcatEmptySeq
<1> QED BY <1>2, <1>4 DEF FrameCells

\* The control frames of the device, as cells.
LEMMA ControlCells ==
  ASSUME Types
  PROVE  /\ SynAck \in Cell /\ SynAck.hdr /\ SynAck.seq = ISN /\ SynAck.len = 0 /\ SynAck.flags = {"SYN", "ACK"}
         /\ Fin \in Cell /\ Fin.hdr /\ Fin.seq = End /\ Fin.len = 0 /\ Fin.flags = {"FIN", "ACK"}
         /\ Reset \in Cell /\ Reset.hdr /\ Reset.seq = End /\ Reset.len = 0 /\ Reset.flags = {"RST", "ACK"}
         /\ Refusal \in Cell /\ Refusal.hdr /\ Refusal.len = 0 /\ Refusal.flags = {"RST", "ACK"}
<1>1. End \in Nat /\ ISN \in Nat /\ 0 \in Nat
  BY UnitsType
<1>2. {"SYN", "ACK"} \in SUBSET Flags /\ {"FIN", "ACK"} \in SUBSET Flags /\ {"RST", "ACK"} \in SUBSET Flags
  BY DEF Flags
<1>3. 0 \in 0..MaxPay
  BY ConstantsAssumption
<1>4. SynAck \in Cell /\ Fin \in Cell /\ Reset \in Cell /\ Refusal \in Cell
  BY <1>1, <1>2, <1>3, HeaderType DEF SynAck, Fin, Reset, Refusal
<1>5. /\ SynAck.hdr /\ SynAck.seq = ISN /\ SynAck.len = 0 /\ SynAck.flags = {"SYN", "ACK"}
      /\ Fin.hdr /\ Fin.seq = End /\ Fin.len = 0 /\ Fin.flags = {"FIN", "ACK"}
      /\ Reset.hdr /\ Reset.seq = End /\ Reset.len = 0 /\ Reset.flags = {"RST", "ACK"}
      /\ Refusal.hdr /\ Refusal.len = 0 /\ Refusal.flags = {"RST", "ACK"}
  BY DEF SynAck, Fin, Reset, Refusal, Header
<1> QED BY <1>4, <1>5

\* Below the end of the sequence space numbers are added as they are.
LEMMA AddSmall ==
  ASSUME NEW s \in Nat, NEW n \in Nat, s + n < SeqMod
  PROVE  Add(s, n) = s + n
  BY ConstantsAssumption DEF Add

\* rx_ack moves to the end of a frame or not at all.
LEMMA AckAfterIs ==
  ASSUME Types, NEW h \in Cell, h.seq + Consumed(h) < SeqMod
  PROVE  \/ AckAfter(h) = rx_ack
         \/ Consumed(h) > 0 /\ AckAfter(h) = h.seq + Consumed(h)
<1>1. h.seq \in Nat /\ h.len \in Nat
  BY CellFields
<1>2. Consumed(h) \in Nat
  BY <1>1 DEF Consumed
<1>3. Add(h.seq, Consumed(h)) = h.seq + Consumed(h)
  BY <1>1, <1>2, AddSmall
<1> QED BY <1>3 DEF AckAfter

-----------------------------------------------------------------------------
(* The handshake.                                                          *)

\* The initial state: nothing is under way, the device listens.
LEMMA StreamInit == ASSUME QuietLine, RoomEnough, Init PROVE StreamInv
<1>1. Types
  BY InitType
<1>2. delivered = <<>> /\ prebuf = <<>> /\ rx_buf = <<>> /\ cur = <<>> /\ in = <<>>
  BY DEF Init, QuietLine
<1>3. Units = <<>> /\ Unread = <<>>
  BY <1>2 DEF Units, Unread
<1>4. Taken = 0
  BY <1>3, EmptySeq DEF Taken
<1>5. Whole(Unread)
  <2>1. Unread \in Seq(Cell) /\ Len(Unread) = 0
    BY <1>1, <1>3, UnreadType, EmptySeq
  <2>2. \A i \in 1..Len(Unread) : Unread[i].hdr /\ Unread[i].len = 0
    BY <2>1
  <2> QED BY <2>1, <2>2, BareFrames
<1>6. Budgets
  <2>1. budget \in Faults
    BY DEF Init
  <2>2. budget["read"] = 0 /\ budget["pureack"] = 0 /\ (budget["poll"] > 0 => budget["retransmit"] = 0)
    BY <2>1 DEF QuietLine
  <2>3. RetxRoom(budget) + MaxPay + 2 <= RxCap
    BY <2>1 DEF RoomEnough
  <2> QED BY <2>2, <2>3 DEF Budgets
<1>7. produced = 0 /\ rx_ack = 0 /\ dstate = "listen"
  BY DEF Init
<1>8. Steady
  <2>1. Kept
    BY <1>4 DEF Kept
  <2>2. Place = ISN + 1 /\ ISN \in Nat
    BY <1>4, UnitsType, <1>1 DEF Place
  <2>3. Acked
    BY <1>7, <2>2 DEF Acked
  <2>4. produced <= StreamLen /\ Taken <= produced
    BY <1>4, <1>7, Sizes
  <2> QED BY <1>5, <1>6, <1>7, <2>1, <2>3, <2>4 DEF Steady
<1>9. Opening
  BY <1>3 DEF Opening, Listening, Init
<1> QED BY <1>8, <1>9 DEF StreamInv, Init

\* Nothing unread: the three places that hold unread cells are empty.
LEMMA NothingUnread ==
  ASSUME Types, Unread = <<>>
  PROVE  cur = <<>> /\ rx_buf = <<>> /\ in = <<>>
<1>1. cur \in Seq(Cell) /\ rx_buf \in Seq(Cell) /\ in \in Seq(Cell) /\ rx_buf \o in \in Seq(Cell)
  BY UnreadType
<1>2. cur = <<>> /\ rx_buf \o in = <<>>
  BY <1>1, ConcatEqualIffEmpty DEF Unread
<1> QED BY <1>1, <1>2, ConcatEqualIffEmpty

\* The flush finds nothing: the device has not been called yet.
LEMMA StreamFlush ==
  ASSUME QuietLine, RoomEnough, Types, StreamInv, FlushPoll \/ FlushEnd
  PROVE  StreamInv'
<1>1. pc = "flush"
  BY DEF FlushPoll, FlushEnd
<1>2. Opening /\ Steady /\ Listening /\ Unread = <<>> /\ dstate = "listen"
  BY <1>1 DEF StreamInv, Opening, Listening
<1>3. cur = <<>> /\ rx_buf = <<>> /\ in = <<>>
  BY <1>2, NothingUnread
<1>4. FlushEnd
  <2>1. Len(in) = 0
    BY <1>3, EmptySeq
  <2>2. Transfers = {}
    BY <2>1, ConstantsAssumption DEF Transfers
  <2> QED BY <2>2 DEF FlushPoll
<1>5. UNCHANGED budget \/ \E f \in FaultNames : Spend(f)
  BY <1>4 DEF FlushEnd, PollNothing, FaultNames
<1>6. Budgets'
  BY <1>2, <1>5, BudgetsKept DEF Steady
<1>7. Unread' = Unread
  BY <1>3, <1>4 DEF FlushEnd, Unread
<1>8. Steady'
  BY <1>2, <1>4, <1>6, <1>7, SteadyHost DEF FlushEnd, devVars, Steady
<1>9. Units' = Units
  BY <1>4, SameUnits DEF FlushEnd
<1>10. Opening'
  <2>1. Listening'
    BY <1>2, <1>4, <1>7 DEF Listening, SynSegment, FlushEnd, devVars
  <2> QED BY <1>1, <1>2, <1>4, <1>9, <2>1 DEF Opening, FlushEnd, devVars
<1> QED BY <1>4, <1>8, <1>10 DEF StreamInv, FlushEnd

\* The SYN is the first frame the device sees, or it sees none.
LEMMA StreamSyn ==
  ASSUME QuietLine, RoomEnough, Types, StreamInv, SendSyn
  PROVE  StreamInv'
<1>1. pc = "syn"
  BY DEF SendSyn
<1>2. Opening /\ Steady
  BY <1>1 DEF StreamInv
<1>3. /\ dstate = "listen" /\ Unread = <<>> /\ out = <<>> /\ rx_ack = 0 /\ tx_seq = TxInit
      /\ sent = {} /\ snd_nxt = ISN /\ produced = 0
  BY <1>1, <1>2 DEF Opening, Listening
<1>4. UNCHANGED <<rx_ack, prebuf, rx_buf, cur, seen, bufsz, delivered, devVars, in>>
  BY DEF SendSyn
<1>5. Unread' = Unread /\ Units' = Units
  BY <1>4, SameUnits DEF Unread
<1>6. UNCHANGED budget \/ \E f \in FaultNames : Spend(f)
  BY DEF SendSyn, SendFrame, WriteFails, FaultNames
<1>7. Budgets'
  BY <1>2, <1>6, BudgetsKept DEF Steady
<1>8. Steady'
  BY <1>2, <1>4, <1>5, <1>7, SteadyHost DEF devVars, Steady
<1>9. Frame({"SYN"}, 0, rx_ack) = SynSegment /\ Append(<<>>, SynSegment) = <<SynSegment>>
  BY <1>3 DEF Frame, SynSegment
<1>10. ASSUME out' \in {<<>>, <<SynSegment>>} PROVE Listening'
  BY <1>3, <1>4, <1>5, <1>10 DEF Listening, SynSegment, devVars
<1>11. CASE SendFrame({"SYN"}, 0, rx_ack) /\ pc' = "handshake"
  <2>1. TxSpace({"SYN"}, 0) = 1
    BY DEF TxSpace
  <2>2. tx_seq' = Add(TxInit, 1)
    BY <1>3, <1>11, <2>1 DEF SendFrame
  <2>3. out' = <<SynSegment>>
    BY <1>3, <1>9, <1>11 DEF SendFrame
  <2>4. Opening'
    BY <1>2, <1>3, <1>4, <1>5, <1>10, <1>11, <2>2, <2>3 DEF Opening, devVars
  <2> QED BY <1>8, <1>11, <2>4 DEF StreamInv
<1>12. CASE WriteFails({"SYN"}, 0, rx_ack) /\ pc' = "failed"
  <2>1. out' \in {<<>>, <<SynSegment>>}
    BY <1>3, <1>9, <1>12 DEF WriteFails
  <2>2. Failed'
    BY <1>2, <1>5, <1>10, <2>1 DEF Failed, Opening
  <2> QED BY <1>8, <1>12, <2>2 DEF StreamInv
<1> QED BY <1>11, <1>12 DEF SendSyn

\* The device answers a SYN only once, with SYN|ACK or with a refusal.
LEMMA StreamAccept ==
  ASSUME QuietLine, RoomEnough, Types, StreamInv, pc # "undefined", DevAccept \/ DevRefuse
  PROVE  StreamInv'
<1>1. dstate = "listen" /\ out # <<>>
  BY DEF DevAccept, DevRefuse
<1>2. Steady
  BY DEF StreamInv
<1>3. \/ pc \in {"flush", "syn", "handshake", "ack"} /\ Opening
      \/ pc = "failed" /\ Failed
  <2>1. pc \notin {"drain", "parse", "idle", "recv", "done"}
    BY <1>1 DEF StreamInv, Draining, Parsing, Quiet, Streaming, Accepted
  <2> QED BY <2>1 DEF StreamInv, Types
<1>4. /\ pc \in {"handshake", "failed"} /\ Units = <<>> /\ Listening
      /\ pc = "handshake" => Opening
  BY <1>1, <1>3 DEF Opening, Failed
<1>5. out = <<SynSegment>> /\ Unread = <<>> /\ sent = {} /\ produced = 0
  BY <1>1, <1>4 DEF Listening
<1>6. Head(out) = SynSegment /\ Tail(out) = <<>>
  BY <1>5
<1>7. ISN \in Nat /\ ISN + 1 < SeqMod /\ SynAck \in Cell /\ Refusal \in Cell
  BY Sizes, ControlCells
<1>8. cur = <<>> /\ rx_buf = <<>> /\ in = <<>>
  BY <1>5, NothingUnread
<1>9. UNCHANGED <<pc, tx_seq, rx_ack, prebuf, rx_buf, cur, seen, bufsz, delivered, snd_una, produced, late, budget>>
  BY DEF DevAccept, DevRefuse, hostVars
<1>10. Units' = Units /\ End' = End /\ End = ISN + 1
  BY <1>7, <1>9, <1>5, SameUnits DEF End
<1>11. out' = <<>> /\ dstate' \in {"open", "refused"}
  BY <1>6 DEF DevAccept, DevRefuse
<1>12. ASSUME NEW h \in Cell, h.len = 0, h.hdr, in' = in \o FrameCells(h)
       PROVE  /\ Unread' = <<h>> /\ Whole(Unread')
              /\ \A i \in 1..Len(Unread') : Unread'[i].hdr /\ Unread'[i].len = 0
  <2>1. FrameCells(h) = <<h>>
    BY <1>12, BareCells
  <2>2. Unread' = <<h>>
    BY <1>8, <1>9, <1>12, <2>1 DEF Unread
  <2>3. <<h>> \in Seq(Cell) /\ \A i \in 1..Len(<<h>>) : <<h>>[i].hdr /\ <<h>>[i].len = 0
    BY <1>12
  <2> QED BY <2>2, <2>3, BareFrames
<1>13. CASE DevAccept
  <2>1. /\ dstate' = "open" /\ rcv_nxt' = Add(TxInit, 1)
        /\ in' = in \o FrameCells(SynAck) /\ sent' = {SynAck} /\ snd_nxt' = Add(ISN, Consumed(SynAck))
    <3>1. Head(out).seq = TxInit
      BY <1>6 DEF SynSegment
    <3> QED BY <1>5, <1>13, <3>1, ControlCells DEF DevAccept, Emit, SynAck
  <2>2. Consumed(SynAck) = 1
    BY ControlCells DEF Consumed
  <2>3. snd_nxt' = ISN + 1
    BY <1>7, <2>1, <2>2, AddSmall
  <2>4. /\ Unread' = <<SynAck>> /\ Whole(Unread')
        /\ \A i \in 1..Len(Unread') : Unread'[i].hdr /\ Unread'[i].len = 0
    BY <1>7, <1>12, <2>1, ControlCells
  <2>5. Budgets'
    BY <1>2, <1>9 DEF Steady, Budgets
  <2>6. Steady'
    BY <1>1, <1>2, <1>9, <1>10, <2>1, <2>3, <2>4, <2>5, SteadySame
  <2>7. SynAck' = SynAck
    BY DEF SynAck
  <2>8. ASSUME pc = "handshake" PROVE Opening'
    BY <1>4, <1>5, <1>8, <1>9, <1>10, <1>11, <2>1, <2>3, <2>4, <2>7, <2>8 DEF Opening
  <2>9. ASSUME pc = "failed" PROVE Failed'
    BY <1>4, <1>10, <1>11, <2>1 DEF Failed
  <2> QED BY <1>4, <1>9, <2>6, <2>8, <2>9 DEF StreamInv
<1>14. CASE DevRefuse
  <2>1. dstate' = "refused" /\ in' = in \o FrameCells(Refusal)
    BY <1>14 DEF DevRefuse, Refusal
  <2>2. /\ Unread' = <<Refusal>> /\ Whole(Unread')
        /\ \A i \in 1..Len(Unread') : Unread'[i].hdr /\ Unread'[i].len = 0
    BY <1>7, <1>12, <2>1, ControlCells
  <2>3. Budgets'
    BY <1>2, <1>9 DEF Steady, Budgets
  <2>4. Steady'
    BY <1>2, <1>9, <2>1, <2>2, <2>3, SteadySame
  <2>5. Refusal' = Refusal
    BY DEF Refusal
  <2>6. ASSUME pc = "handshake" PROVE Opening'
    BY <1>4, <1>5, <1>8, <1>9, <1>10, <1>11, <2>1, <2>2, <2>5, <2>6 DEF Opening
  <2>7. ASSUME pc = "failed" PROVE Failed'
    BY <1>4, <1>10, <1>11, <2>1 DEF Failed
  <2> QED BY <1>4, <1>9, <2>4, <2>6, <2>7 DEF StreamInv
<1> QED BY <1>13, <1>14

\* What session_recv_frame does with the end of a frame during the handshake.
LEMMA StreamHandshake ==
  ASSUME QuietLine, RoomEnough, Types, StreamInv, HandshakeFrame
  PROVE  StreamInv'
<1>1. pc = "handshake" /\ FrameRead /\ UNCHANGED in /\ cur # <<>> /\ cur' = <<>>
  BY DEF HandshakeFrame, FrameRead
<1>2. Opening /\ Steady
  BY <1>1 DEF StreamInv
<1>3. Unread # <<>> /\ Unread[1] = Head(cur) /\ Shorter(Unread', Unread)
  BY <1>1, UnreadFrame
<1>4. dstate \in {"refused", "open", "reset"}
  BY <1>2, <1>3 DEF Opening, Listening
<1>5. /\ Unread \in {<<Refusal>>, <<SynAck>>, <<SynAck, Reset>>}
      /\ dstate = "refused" => Unread = <<Refusal>>
      /\ dstate = "open" => Unread = <<SynAck>>
      /\ dstate = "reset" => Unread = <<SynAck, Reset>>
  BY <1>1, <1>2, <1>4 DEF Opening
<1>6. /\ UNCHANGED <<tx_seq, prebuf, seen, bufsz, delivered, devVars, in, out, budget>>
      /\ rx_ack' = AckAfter(Head(cur))
  BY <1>1 DEF HandshakeFrame, FrameRead
<1>7. Units' = Units /\ Place' = Place /\ End' = End /\ Taken' = Taken
  BY <1>6, SameUnits DEF End, devVars
<1>8. Budgets' /\ produced' <= StreamLen /\ Taken' <= produced' /\ Kept' /\ (dstate' = "open" => snd_nxt' = End')
  BY <1>2, <1>6, <1>7 DEF Steady, Budgets, Kept, devVars
<1>9. Place = ISN + 1
  BY <1>2, EmptySeq, Sizes DEF Opening, Place, Taken
<1>10. CASE Unread[1] = SynAck
  <2>1. dstate \in {"open", "reset"}
    BY <1>4, <1>5, <1>10, ControlCells
  <2>2. Consumed(SynAck) = 1 /\ SynAck.seq + 1 < SeqMod
    BY ControlCells, Sizes DEF Consumed
  <2>3. rx_ack' = rx_ack \/ rx_ack' = ISN + 1
    BY <1>3, <1>6, <1>10, <2>2, ControlCells, AckAfterIs
  <2>4. Acked'
    <3>1. rx_ack <= Place \/ (Taken = produced /\ dstate \notin {"listen", "open"})
      BY <1>2 DEF Steady, Acked
    <3>2. Taken' = produced'
      BY <1>2, <1>6, <1>7, EmptySeq DEF Opening, Taken, devVars
    <3>3. ISN \in Nat /\ ISN + 1 <= ISN + 1
      BY Sizes
    <3>4. dstate' = dstate
      BY <1>6 DEF devVars
    <3> QED BY <1>7, <1>9, <2>3, <3>1, <3>2, <3>3, <3>4 DEF Acked
  <2>5. pc' = "ack"
    <3>1. Head(cur).flags = {"SYN", "ACK"}
      BY <1>3, <1>10, ControlCells
    <3> QED BY <3>1 DEF HandshakeFrame
  <2>6. /\ dstate = "open" => Unread' = <<>>
        /\ dstate = "reset" => Unread' = <<Reset>>
        /\ Whole(Unread')
    <3>1. SynAck \in Cell /\ Reset \in Cell /\ SynAck.len = 0 /\ Reset.len = 0 /\ Reset.hdr
      BY ControlCells
    <3>2. /\ Unread' \in Seq(Cell) /\ Len(Unread') = Len(Unread) - 1
          /\ \A i \in 1..Len(Unread') : Unread'[i] = Unread[1 + i]
      BY <1>3, <1>10, <3>1 DEF Shorter
    <3>3. CASE dstate = "open"
      <4>1. Len(Unread') = 0
        BY <1>5, <3>2, <3>3
      <4>2. Unread' = <<>>
        BY <3>2, <4>1, EmptySeq
      <4>3. \A i \in 1..Len(Unread') : Unread'[i].hdr /\ Unread'[i].len = 0
        BY <4>1
      <4>4. Whole(Unread')
        BY <3>2, <4>3, BareFrames
      <4> QED BY <3>3, <4>2, <4>4
    <3>4. CASE dstate = "reset"
      <4>1. Len(Unread') = 1 /\ Unread'[1] = Reset
        BY <1>5, <3>2, <3>4
      <4>2. <<Reset>> \in Seq(Cell) /\ Len(<<Reset>>) = 1 /\ <<Reset>>[1] = Reset
        BY <3>1
      <4>3. Unread' = <<Reset>>
        BY <3>2, <4>1, <4>2, SeqEqual
      <4>4. \A i \in 1..Len(Unread') : Unread'[i].hdr /\ Unread'[i].len = 0
        BY <3>1, <4>1
      <4>5. Whole(Unread')
        BY <3>2, <4>4, BareFrames
      <4> QED BY <3>4, <4>3, <4>5
    <3> QED BY <2>1, <3>3, <3>4
  <2>7. Steady'
    BY <1>8, <2>4, <2>6 DEF Steady
  <2>8. SynAck' = SynAck /\ Reset' = Reset
    BY <1>7 DEF SynAck, Reset
  <2>9. Opening'
    BY <1>1, <1>2, <1>6, <1>7, <2>1, <2>5, <2>6, <2>8 DEF Opening, devVars
  <2> QED BY <2>5, <2>7, <2>9 DEF StreamInv
<1>11. CASE Unread[1] = Refusal
  <2>1. dstate = "refused" /\ Unread = <<Refusal>>
    BY <1>4, <1>5, <1>11, ControlCells
  <2>2. pc' = "failed"
    <3>1. Head(cur).flags = {"RST", "ACK"}
      BY <1>3, <1>11, ControlCells
    <3> QED BY <3>1 DEF HandshakeFrame
  <2>3. Consumed(Refusal) = 0
    BY ControlCells DEF Consumed
  <2>4. rx_ack' = rx_ack
    BY <1>3, <1>6, <1>11, <2>3 DEF AckAfter
  <2>5. Unread' \in Seq(Cell) /\ Len(Unread') = 0
    <3>1. Len(Unread) = 1 /\ Unread[1].len = 0
      BY <2>1, ControlCells
    <3> QED BY <1>3, <3>1 DEF Shorter
  <2>6. \A i \in 1..Len(Unread') : Unread'[i].hdr /\ Unread'[i].len = 0
    BY <2>5
  <2>7. Whole(Unread')
    BY <2>5, <2>6, BareFrames
  <2>8. Steady'
    <3>1. UNCHANGED <<delivered, prebuf, produced, rx_ack, dstate, snd_nxt>>
      BY <1>6, <2>4 DEF devVars
    <3> QED BY <1>2, <1>8, <2>7, <3>1, SteadyHost
  <2>9. Failed'
    BY <1>2, <1>6, <1>7, <2>1 DEF Opening, Failed, devVars
  <2> QED BY <2>2, <2>8, <2>9 DEF StreamInv
<1> QED BY <1>5, <1>10, <1>11

-----------------------------------------------------------------------------
(* The blocking reads, in the handshake and in session_recv.               *)

\* What depends on the device alone stays the same while the device rests.
LEMMA DeviceRests ==
  ASSUME UNCHANGED <<dstate, produced>>
  PROVE  /\ End' = End /\ Early' = Early /\ Fin' = Fin /\ Reset' = Reset
         /\ FreshFrames' = FreshFrames /\ DrainFrames' = DrainFrames
         /\ StillToCome' = StillToCome
<1>1. End' = End /\ Early' = Early
  BY DEF End, Early
<1>2. Fin' = Fin /\ Reset' = Reset
  BY <1>1 DEF Fin, Reset
<1>3. FreshFrames' = FreshFrames
  BY <1>2 DEF FreshFrames
<1>4. DrainFrames' = DrainFrames
  BY <1>1, <1>2 DEF DrainFrames, SynAck
<1> QED BY <1>1, <1>2, <1>3, <1>4 DEF StillToCome

\* The rest of the stream is the same, if the units that are unread are.
LEMMA FreshSame ==
  ASSUME UNCHANGED <<dstate, produced>>, NEW w, NEW first, Fresh(w, first)
  PROVE  Fresh(w, first)'
  BY DeviceRests DEF Fresh

\* A transfer fits behind the part of a frame that rx_buf holds already.
LEMMA TransferFits ==
  ASSUME QuietLine, RoomEnough, Types, Reading, Len(rx_buf) < Need, NEW k \in Transfers
  PROVE  Len(rx_buf) + k <= RxCap
<1>1. Need \in Nat /\ Need <= MaxPay
  <2>1. CASE cur = <<>>
    BY <2>1, Sizes DEF Need
  <2>2. CASE cur # <<>>
    BY <2>2, UnreadInFrame, CellFields DEF Need
  <2> QED BY <2>1, <2>2
<1>2. k \in Nat /\ k <= MaxChunk
  BY Sizes DEF Transfers
<1>3. Len(rx_buf) \in Nat
  BY UnreadType
<1> QED BY <1>1, <1>2, <1>3, Sizes, SMTT(30)

\* In step with the frames, what the reader takes for a header is the one that
\* is there.
LEMMA FrontIs ==
  ASSUME Types, Steady, ~misread, cur = <<>>, rx_buf # <<>>
  PROVE  /\ Unread # <<>> /\ Unread[1] = rx_buf[1] /\ Head(rx_buf) = rx_buf[1]
         /\ Head(rx_buf) \in Cell /\ Head(rx_buf).hdr
         /\ FrontHeaders = {Head(rx_buf)} /\ ~MayMisread
<1>1. Unread = rx_buf \o in
  BY UnreadBetween
<1>2. Unread # <<>> /\ Unread[1] = rx_buf[1]
  <2>1. Len(rx_buf) \in Nat \ {0} /\ Len(in) \in Nat
    BY EmptySeq, UnreadType
  <2>2. 1 \in 1..(Len(rx_buf) + Len(in)) /\ 1 <= Len(rx_buf)
    BY <2>1
  <2>3. Unread[1] = rx_buf[1] /\ Len(Unread) = Len(rx_buf) + Len(in)
    BY <1>1, <2>2, UnreadType, ConcatProperties
  <2>4. Len(Unread) # 0
    BY <2>1, <2>3
  <2> QED BY <2>3, <2>4, EmptySeq
<1>3. Head(rx_buf) = rx_buf[1] /\ Head(rx_buf) \in Cell
  BY UnreadType, TailOfSeq
<1>4. Head(rx_buf).hdr
  BY <1>2, <1>3 DEF Steady, Whole
<1> QED BY <1>2, <1>3, <1>4, InStep

\* A read that goes on, and one that finds a header, leave the unread cells.
LEMMA StreamReading ==
  ASSUME QuietLine, RoomEnough, Types, StreamInv, ~misread, ReadChunk \/ ReadHeader
  PROVE  StreamInv'
<1>1. Steady /\ pc \in {"handshake", "recv"}
  BY DEF StreamInv, ReadChunk, ReadHeader, Reading
<1>2. UNCHANGED <<pc, in, rx_buf, cur>> \/ (UNCHANGED pc /\ Unread' = Unread)
  <2>1. CASE ReadChunk
    <3>1. PICK k \in Transfers :
            /\ Take(k)
            /\ IF Len(rx_buf) + k > RxCap
               THEN pc' = AfterFailure /\ cur' = <<>> /\ UNCHANGED rx_buf
               ELSE rx_buf' = rx_buf \o Chunk(k) /\ UNCHANGED <<pc, cur>>
      BY <2>1 DEF ReadChunk
    <3>2. Len(rx_buf) + k <= RxCap
      BY <2>1, TransferFits DEF ReadChunk
    <3>3. ~(Len(rx_buf) + k > RxCap)
      <4>1. Len(rx_buf) \in Nat /\ k \in Nat /\ RxCap \in Nat
        BY UnreadType, Sizes DEF Transfers
      <4> QED BY <3>2, <4>1
    <3> QED BY <3>1, <3>3, UnreadTaken
  <2>2. CASE ReadHeader
    <3>1. cur = <<>> /\ rx_buf # <<>> /\ rx_buf' = Tail(rx_buf) /\ UNCHANGED in
      BY <2>2 DEF ReadHeader
    <3>2. FrontHeaders = {Head(rx_buf)} /\ ~MayMisread
      BY <1>1, <3>1, FrontIs
    <3>3. cur' = <<Head(rx_buf)>> /\ UNCHANGED pc
      BY <2>2, <3>2 DEF ReadHeader
    <3> QED BY <3>1, <3>3, UnreadHeader
  <2> QED BY <2>1, <2>2
<1>3. UNCHANGED pc /\ Unread' = Unread
  BY <1>2 DEF Unread
<1>4. UNCHANGED <<tx_seq, rx_ack, prebuf, seen, bufsz, delivered, devVars, out, budget>>
  BY DEF ReadChunk, ReadHeader
<1>5. Units' = Units /\ Place' = Place
  BY <1>4, SameUnits
<1>6. Budgets'
  BY <1>1, <1>4 DEF Steady, Budgets
<1>7. Steady'
  BY <1>1, <1>3, <1>4, <1>6, SteadyHost DEF devVars, Steady
<1>8. CASE pc = "handshake"
  <2>1. Opening
    BY <1>8 DEF StreamInv
  <2>2. SynAck' = SynAck /\ Reset' = Reset /\ Refusal' = Refusal /\ SynSegment' = SynSegment
    BY <1>4, DeviceRests DEF SynAck, Refusal, SynSegment, devVars
  <2>3. Opening'
    BY <1>3, <1>4, <1>5, <1>8, <2>1, <2>2 DEF Opening, Listening, devVars
  <2> QED BY <1>3, <1>7, <1>8, <2>3 DEF StreamInv
<1>9. CASE pc = "recv"
  <2>1. Streaming
    BY <1>9 DEF StreamInv
  <2>2. Fresh(Unread, Place)'
    BY <1>3, <1>4, <1>5, <2>1, FreshSame DEF Streaming, devVars
  <2>3. Streaming'
    BY <1>3, <1>4, <1>9, <2>1, <2>2 DEF Streaming, Accepted, devVars
  <2> QED BY <1>3, <1>7, <1>9, <2>3 DEF StreamInv
<1> QED BY <1>1, <1>8, <1>9

\* A read only times out between frames, with nothing to clear.
LEMMA StreamReadFails ==
  ASSUME QuietLine, RoomEnough, Types, StreamInv, ReadFails
  PROVE  StreamInv'
<1>1. Steady /\ pc \in {"handshake", "recv"} /\ Len(rx_buf) < Need
  BY DEF StreamInv, ReadFails, Reading
<1>2. in = <<>> /\ UNCHANGED budget
  BY <1>1 DEF ReadFails, Spend, Steady, Budgets
<1>3. cur = <<>>
  <2> SUFFICES ASSUME cur # <<>> PROVE FALSE
    OBVIOUS
  <2>1. /\ Unread # <<>> /\ Unread[1] = Head(cur) /\ Head(cur) \in Cell
        /\ Len(Unread) = 1 + Len(rx_buf) + Len(in)
    BY UnreadInFrame
  <2>2. Unread[1].hdr /\ Need = Unread[1].len /\ Need \in Nat
    BY <1>1, <2>1, CellFields DEF Steady, Whole, Need
  <2>3. Len(in) = 0 /\ Len(rx_buf) \in Nat /\ 1 \in 1..Len(Unread)
    BY <1>2, <2>1, EmptySeq, UnreadType
  <2>4. 1 + Need <= Len(Unread)
    BY <1>1, <2>2, <2>3 DEF Steady, Whole
  <2> QED BY <1>1, <2>1, <2>2, <2>3, <2>4
<1>4. rx_buf = <<>>
  <2>1. Need = 1 /\ Len(rx_buf) \in Nat
    BY <1>3, UnreadType DEF Need
  <2>2. Len(rx_buf) = 0
    BY <1>1, <2>1
  <2> QED BY <2>2, UnreadType, EmptySeq
<1>5. /\ UNCHANGED <<tx_seq, rx_ack, prebuf, seen, bufsz, delivered, devVars, in, out>>
      /\ rx_buf' = <<>> /\ cur' = <<>>
      /\ pc' = AfterFailure
  BY DEF ReadFails
<1>6. Unread' = Unread /\ Unread = <<>> /\ Units' = Units /\ Place' = Place
  BY <1>2, <1>3, <1>4, <1>5, SameUnits DEF Unread
<1>7. Budgets'
  BY <1>1, <1>2 DEF Steady, Budgets
<1>8. Steady'
  BY <1>1, <1>5, <1>6, <1>7, SteadyHost DEF devVars, Steady
<1>9. CASE pc = "handshake"
  <2>1. Opening /\ pc' = "failed"
    BY <1>5, <1>9 DEF StreamInv, AfterFailure
  <2>2. SynSegment' = SynSegment
    BY DEF SynSegment
  <2>3. Failed'
    BY <1>5, <1>6, <2>1, <2>2 DEF Opening, Failed, Listening, devVars
  <2> QED BY <1>8, <2>1, <2>3 DEF StreamInv
<1>10. CASE pc = "recv"
  <2>1. Streaming /\ pc' = "idle"
    BY <1>5, <1>10 DEF StreamInv, AfterFailure
  <2>2. Fresh(Unread, Place)'
    BY <1>5, <1>6, <2>1, FreshSame DEF Streaming, devVars
  <2>3. Streaming'
    BY <1>5, <2>1, <2>2 DEF Streaming, Accepted, devVars
  <2> QED BY <1>8, <2>1, <2>3 DEF StreamInv
<1> QED BY <1>1, <1>9, <1>10

-----------------------------------------------------------------------------
(* The drain.                                                              *)

\* No frame, and one frame without payload.
LEMMA EmptyWire ==
  ASSUME NEW S, NEW p
  PROVE  Whole(<<>>) /\ Chained(<<>>, p, p) /\ Headers(<<>>, S) /\ Ordered(<<>>)
<1>1. 1..Len(<<>>) = {}
  OBVIOUS
<1> QED BY <1>1 DEF Whole, Chained, Headers, Ordered

LEMMA OneBareFrame ==
  ASSUME NEW h \in Cell, h.hdr, h.len = 0, NEW S, h \in S
  PROVE  Whole(<<h>>) /\ Chained(<<h>>, h.seq, h.seq) /\ Headers(<<h>>, S) /\ Ordered(<<h>>)
<1>1. Len(<<h>>) = 1 /\ <<h>>[1] = h /\ <<h>> # <<>> /\ 1..1 = {1} /\ h.seq \in Nat
  BY CellFields
<1>2. Whole(<<h>>)
  <2>1. <<h>> \in Seq(Cell) /\ \A i \in 1..Len(<<h>>) : <<h>>[i].hdr /\ <<h>>[i].len = 0
    BY <1>1
  <2> QED BY <2>1, BareFrames
<1>3. Chained(<<h>>, h.seq, h.seq)
  BY <1>1 DEF Chained
<1>4. Headers(<<h>>, S) /\ Ordered(<<h>>)
  BY <1>1 DEF Headers, Ordered
<1> QED BY <1>2, <1>3, <1>4

\* A part of a concatenation that is empty leaves nothing in its parts.
LEMMA NoUnits ==
  ASSUME Types, Units = <<>>
  PROVE  delivered = <<>> /\ prebuf = <<>> /\ Taken = 0
<1>1. delivered \in Seq(Cell) /\ prebuf \in Seq(Cell)
  BY DEF Types
<1>2. delivered = <<>> /\ prebuf = <<>>
  BY <1>1, ConcatEqualIffEmpty DEF Units
<1> QED BY <1>2, EmptySeq DEF Taken

\* An acknowledgement takes no sequence number.
LEMMA AckTakesNothing ==
  ASSUME Types, tx_seq < SeqMod
  PROVE  Add(tx_seq, TxSpace({"ACK"}, 0)) = tx_seq
<1>1. TxSpace({"ACK"}, 0) = 0
  BY DEF TxSpace
<1>2. tx_seq \in Nat
  BY DEF Types
<1> QED BY <1>1, <1>2, AddSmall

\* The number behind the SYN is below the end of the sequence space.
LEMMA AfterSyn ==
  ASSUME QuietLine, RoomEnough
  PROVE  Add(TxInit, 1) \in Nat /\ Add(TxInit, 1) < SeqMod
  BY Sizes DEF Add

\* The acknowledgement of the handshake starts the drain.
LEMMA StreamAck ==
  ASSUME QuietLine, RoomEnough, Types, StreamInv, SendHandshakeAck
  PROVE  StreamInv'
<1>1. pc = "ack" /\ Opening /\ Steady
  BY DEF SendHandshakeAck, StreamInv
<1>2. /\ cur = <<>> /\ dstate \in {"open", "reset"} /\ out = <<>>
      /\ Unread = IF dstate = "open" THEN <<>> ELSE <<Reset>>
      /\ tx_seq = Add(TxInit, 1) /\ rcv_nxt = Add(TxInit, 1)
      /\ produced = 0 /\ snd_una = ISN /\ sent = {SynAck}
  BY <1>1 DEF Opening
<1>3. UNCHANGED <<rx_ack, prebuf, rx_buf, cur, seen, bufsz, delivered, devVars, in>>
  BY DEF SendHandshakeAck
<1>4. Unread' = Unread /\ Units' = Units /\ Taken' = Taken /\ Place' = Place
  BY <1>3, SameUnits DEF Unread
<1>5. UNCHANGED budget \/ \E f \in FaultNames : Spend(f)
  BY DEF SendHandshakeAck, SendFrame, WriteFails, FaultNames
<1>6. Budgets'
  BY <1>1, <1>5, BudgetsKept DEF Steady
<1>7. Steady'
  BY <1>1, <1>3, <1>4, <1>6, SteadyHost DEF devVars, Steady
<1>8. /\ End' = End /\ Reset' = Reset /\ FreshFrames' = FreshFrames /\ DrainFrames' = DrainFrames
      /\ StillToCome' = StillToCome /\ SynAck' = SynAck
  BY <1>3, DeviceRests DEF devVars, SynAck
<1>9. CASE SendFrame({"ACK"}, 0, rx_ack) /\ pc' = "drain"
  <2>1. tx_seq' = tx_seq
    BY <1>2, <1>9, AfterSyn, AckTakesNothing DEF SendFrame
  <2>2. /\ Len(out') = 1 /\ out'[1].seq = tx_seq /\ out'[1].flags = {"ACK"} /\ out'[1].len = 0
    BY <1>2, <1>9 DEF SendFrame, Frame
  <2>3. \A i \in 1..Len(out') : out'[i].seq = tx_seq /\ out'[i].flags = {"ACK"} /\ out'[i].len = 0
    BY <2>2
  <2>4. delivered = <<>> /\ prebuf = <<>> /\ Taken = 0
    BY <1>1, NoUnits DEF Opening
  <2>5. Place = ISN + 1 /\ End = ISN + 1 /\ ISN \in Nat
    BY <1>2, <2>4, Sizes DEF Place, End
  <2>6. /\ Fresh(Unread, Place) /\ Headers(Unread, DrainFrames) /\ Ordered(Unread)
        /\ Len(Unread) + StillToCome <= MaxPay + 2 /\ Len(Unread) + StillToCome \in Nat
    <3>1. CASE dstate = "open"
      <4>1. Unread = <<>> /\ Len(Unread) = 0 /\ StillToCome = MaxPay + 2
        BY <1>2, <3>1, EmptySeq DEF StillToCome
      <4>2. /\ Whole(Unread) /\ Chained(Unread, Place, End) /\ Headers(Unread, FreshFrames)
            /\ Headers(Unread, DrainFrames) /\ Ordered(Unread)
        BY <2>5, <4>1, EmptyWire
      <4>3. Len(Unread) + StillToCome <= MaxPay + 2 /\ Len(Unread) + StillToCome \in Nat
        BY <4>1, Sizes
      <4> QED BY <4>2, <4>3 DEF Fresh
    <3>2. CASE dstate = "reset"
      <4>1. Unread = <<Reset>> /\ Len(Unread) = 1 /\ StillToCome = 0
        BY <1>2, <3>2 DEF StillToCome
      <4>2. Reset \in FreshFrames /\ Reset \in DrainFrames
        BY <3>2 DEF FreshFrames, DrainFrames
      <4>3. Reset \in Cell /\ Reset.hdr /\ Reset.len = 0 /\ Reset.seq = End
        BY ControlCells
      <4>4. /\ Whole(Unread) /\ Chained(Unread, Place, End) /\ Headers(Unread, FreshFrames)
            /\ Headers(Unread, DrainFrames) /\ Ordered(Unread)
        BY <2>5, <4>1, <4>2, <4>3, OneBareFrame
      <4>5. Len(Unread) + StillToCome <= MaxPay + 2 /\ Len(Unread) + StillToCome \in Nat
        BY <4>1, Sizes
      <4> QED BY <4>4, <4>5 DEF Fresh
    <3> QED BY <1>2, <3>1, <3>2
  <2>7. Len(Unread) + RetxRoom(budget) + StillToCome <= RxCap
    <3>1. RetxRoom(budget) \in Nat /\ RetxRoom(budget) + MaxPay + 2 <= RxCap
      BY <1>1, <1>5, BudgetsKept DEF Steady, Budgets
    <3>2. StillToCome \in Nat /\ Len(Unread) \in Nat
      BY Sizes, UnreadType, LenProperties, SMTT(30) DEF StillToCome
    <3> DEFINE a == Len(Unread)
               b == RetxRoom(budget)
               c == StillToCome
    <3>3. a \in Nat /\ b \in Nat /\ c \in Nat /\ a + c <= MaxPay + 2 /\ b + MaxPay + 2 <= RxCap
      BY <2>6, <3>1, <3>2
    <3> HIDE DEF a, b, c
    <3>4. a + b + c <= RxCap
      BY <3>3, Sizes
    <3> QED BY <3>4 DEF a, b, c
  <2>8. Quiet'
    <3>1. /\ delivered' = <<>> /\ cur' = <<>> /\ dstate' \in {"open", "finished", "reset"}
          /\ Taken' \in {0, produced'} /\ produced' <= MaxPay
      BY <1>2, <1>3, <1>4, <2>4, Sizes DEF devVars
    <3>2. /\ tx_seq' = Add(TxInit, 1) /\ rcv_nxt' = tx_seq'
          /\ \A i \in 1..Len(out') : out'[i].seq = tx_seq' /\ out'[i].flags = {"ACK"} /\ out'[i].len = 0
      BY <1>2, <1>3, <2>1, <2>3 DEF devVars
    <3>3. /\ sent' = {SynAck} /\ produced' = 0 /\ dstate' \in {"open", "reset"} /\ snd_una' = ISN
      BY <1>2, <1>3 DEF devVars
    <3>4. Headers(Unread', DrainFrames') /\ Ordered(Unread')
      BY <1>4, <1>8, <2>6
    <3>5. ISN \in Nat
      BY Sizes
    <3> QED BY <1>8, <3>1, <3>2, <3>3, <3>4, <3>5 DEF Quiet
  <2>9. Fresh(Unread, Place)'
    BY <1>3, <1>4, <2>6, FreshSame DEF devVars
  <2>10. UNCHANGED <<budget, produced, prebuf>>
    BY <1>3, <1>9 DEF SendFrame, devVars
  <2>11. Draining'
    BY <1>2, <1>4, <1>8, <2>4, <2>7, <2>8, <2>9, <2>10 DEF Draining
  <2> QED BY <1>7, <1>9, <2>11 DEF StreamInv
<1>10. CASE WriteFails({"ACK"}, 0, rx_ack) /\ pc' = "failed"
  <2>1. Failed'
    BY <1>1, <1>2, <1>3, <1>4 DEF Opening, Failed, devVars
  <2> QED BY <1>7, <1>10, <2>1 DEF StreamInv
<1> QED BY <1>9, <1>10 DEF SendHandshakeAck

\* The drain has room for all that it can be sent, and drops nothing.
LEMMA StreamDrainPoll ==
  ASSUME QuietLine, RoomEnough, Types, StreamInv, DrainPoll
  PROVE  StreamInv'
<1>1. pc = "drain" /\ Draining /\ Steady
  BY DEF DrainPoll, StreamInv
<1>2. PICK k \in Transfers : Poll(k)
  BY DEF DrainPoll
<1>3. Len(rx_buf) + k <= RxCap
  <2>1. k \in Nat /\ k <= Len(in)
    BY Sizes DEF Transfers
  <2>2. cur = <<>> /\ Len(Unread) = Len(rx_buf) + Len(in) /\ Len(rx_buf) \in Nat /\ Len(in) \in Nat
    BY <1>1, UnreadType, UnreadBetween DEF Draining, Quiet
  <2>3. RetxRoom(budget) \in Nat /\ StillToCome \in Nat
    <3>1. UNCHANGED budget
      BY DEF DrainPoll
    <3> QED BY <1>1, <3>1, BudgetsKept, Sizes DEF Steady, StillToCome
  <2>4. Len(Unread) + RetxRoom(budget) + StillToCome <= RxCap
    BY <1>1 DEF Draining
  <2>5. Len(rx_buf) + Len(in) + RetxRoom(budget) + StillToCome <= RxCap
    BY <2>2, <2>4
  <2> DEFINE a == Len(rx_buf)
             b == Len(in)
             c == RetxRoom(budget)
             d == StillToCome
  <2>6. /\ a \in Nat /\ b \in Nat /\ c \in Nat /\ d \in Nat /\ k \in Nat
        /\ a + b + c + d <= RxCap /\ k <= b
    BY <2>1, <2>2, <2>3, <2>5
  <2> HIDE DEF a, b, c, d
  <2>7. a + k <= RxCap
    BY <2>6, Sizes
  <2> QED BY <2>7 DEF a
<1>4. UNCHANGED <<pc, tx_seq, rx_ack, prebuf, cur, seen, bufsz, delivered, devVars, out, budget>>
  BY DEF DrainPoll
<1>5. Unread' = Unread
  BY <1>2, <1>3, <1>4, UnreadTaken DEF Poll
<1>6. Units' = Units /\ Taken' = Taken /\ Place' = Place
  BY <1>4, SameUnits
<1>7. /\ End' = End /\ Early' = Early /\ Fin' = Fin /\ DrainFrames' = DrainFrames
      /\ StillToCome' = StillToCome /\ SynAck' = SynAck
  BY <1>4, DeviceRests DEF devVars, SynAck
<1>8. Budgets'
  BY <1>1, <1>4 DEF Steady, Budgets
<1>9. Steady'
  BY <1>1, <1>4, <1>5, <1>8, SteadyHost DEF devVars, Steady
<1>10. Quiet'
  BY <1>1, <1>4, <1>5, <1>6, <1>7 DEF Draining, Quiet, devVars
<1>11. budget'["poll"] > 0 => Fresh(Unread, Place)'
  BY <1>1, <1>4, <1>5, <1>6, FreshSame DEF Draining, devVars
<1>12. Draining'
  BY <1>1, <1>4, <1>5, <1>7, <1>10, <1>11 DEF Draining, devVars, HasEarly
<1> QED BY <1>1, <1>4, <1>9, <1>12 DEF StreamInv

\* The drain ends when nothing is on the wire, or when a poll fails; then
\* nothing was repeated.
LEMMA StreamDrainEnd ==
  ASSUME QuietLine, RoomEnough, Types, StreamInv, DrainEnd
  PROVE  StreamInv'
<1>1. pc = "drain" /\ Draining /\ Quiet /\ Steady /\ pc' = "parse" /\ seen' = {}
  BY DEF DrainEnd, StreamInv, Draining
<1>2. UNCHANGED <<tx_seq, rx_ack, prebuf, rx_buf, cur, bufsz, delivered, devVars, in, out>>
  BY DEF DrainEnd
<1>3. Unread' = Unread /\ Units' = Units /\ Taken' = Taken /\ Place' = Place
  BY <1>2, SameUnits DEF Unread
<1>4. /\ End' = End /\ Early' = Early /\ Fin' = Fin /\ DrainFrames' = DrainFrames /\ SynAck' = SynAck
      /\ UNCHANGED <<dstate, produced>>
  BY <1>2, DeviceRests DEF devVars, SynAck
<1>5. UNCHANGED budget \/ \E f \in FaultNames : Spend(f)
  BY DEF DrainEnd, PollNothing, FaultNames
<1>6. Budgets'
  BY <1>1, <1>5, BudgetsKept DEF Steady
<1>7. Steady'
  BY <1>1, <1>2, <1>3, <1>6, SteadyHost DEF devVars, Steady
<1>8. Quiet'
  BY <1>1, <1>2, <1>3, <1>4 DEF Quiet, devVars
<1>9. Taken = 0 /\ Place = ISN + 1
  <2>1. delivered = <<>> /\ prebuf = <<>>
    BY <1>1 DEF Draining, Quiet
  <2>2. Units = <<>>
    BY <2>1 DEF Units
  <2> QED BY <2>2, NoUnits, Sizes DEF Place
<1>10. Fresh(Unread, Place) \/ (Whole(rx_buf) /\ Fresh(in, Resume))
  <2>1. CASE budget["poll"] > 0
    BY <1>1, <2>1 DEF Draining
  <2>2. CASE ~(budget["poll"] > 0)
    <3>1. in = <<>>
      BY <2>2 DEF DrainEnd, PollNothing, Spend
    <3>2. Unread = rx_buf
      <4>1. Unread = rx_buf \o <<>>
        BY <1>1, <3>1, UnreadBetween DEF Quiet
      <4> QED BY <4>1, UnreadType, ConcatEmptySeq
    <3>3. Resume = End
      <4>1. CASE produced > 0
        BY <1>1, <3>2, <4>1 DEF Draining, Resume
      <4>2. CASE ~(produced > 0)
        BY <4>2, UnitsType DEF Resume, End
      <4> QED BY <4>1, <4>2
    <3>4. Fresh(in, Resume)
      BY <3>1, <3>3, EmptyWire DEF Fresh
    <3>5. Whole(rx_buf)
      BY <1>1, <3>2 DEF Steady
    <3> QED BY <3>4, <3>5
  <2> QED BY <2>1, <2>2
<1>11. \/ Fresh(Unread, Place)'
       \/ Whole(rx_buf') /\ Fresh(in, Resume)'
  <2>1. CASE Fresh(Unread, Place)
    BY <1>3, <1>4, <2>1, FreshSame
  <2>2. CASE Whole(rx_buf) /\ Fresh(in, Resume)
    <3>1. Resume' = Resume
      BY <1>2, <1>3, <1>4 DEF Resume, HasEarly
    <3> QED BY <1>2, <1>4, <2>2, <3>1, FreshSame
  <2> QED BY <1>10, <2>1, <2>2
<1>12. Parsing'
  BY <1>1, <1>3, <1>8, <1>9, <1>11 DEF Parsing
<1> QED BY <1>1, <1>7, <1>12 DEF StreamInv

-----------------------------------------------------------------------------
(* The parse loop.                                                         *)

\* The first cell of rx_buf, if there is one, is the first unread one, and the
\* only header that the parse loop can find there.
LEMMA ParseHead ==
  ASSUME QuietLine, RoomEnough, Types, StreamInv, ~misread, pc = "parse", rx_buf # <<>>
  PROVE  /\ Unread # <<>> /\ Unread[1] = Head(rx_buf) /\ rx_buf[1] = Head(rx_buf)
         /\ Head(rx_buf) \in Cell /\ Head(rx_buf).hdr /\ Head(rx_buf) \in DrainFrames
         /\ FrontHeaders = {Head(rx_buf)} /\ ~MayMisread
<1>1. Steady /\ Parsing /\ Quiet
  BY DEF StreamInv, Parsing
<1>2. /\ Unread # <<>> /\ Unread[1] = rx_buf[1] /\ Head(rx_buf) = rx_buf[1]
      /\ Head(rx_buf) \in Cell /\ Head(rx_buf).hdr
      /\ FrontHeaders = {Head(rx_buf)} /\ ~MayMisread
  BY <1>1, FrontIs DEF Quiet
<1>3. 1 \in 1..Len(Unread)
  BY <1>2, EmptySeq, UnreadType
<1>4. Head(rx_buf) \in DrainFrames
  BY <1>1, <1>2, <1>3 DEF Quiet, Headers
<1> QED BY <1>2, <1>4

\* So the frame that it takes is the first one of rx_buf.
LEMMA FrontTaken ==
  ASSUME QuietLine, RoomEnough, Types, StreamInv, ~misread, NEW h, ParseReady(h)
  PROVE  h = Head(rx_buf)
<1>1. pc = "parse" /\ h \in FrontHeaders /\ rx_buf # <<>>
  BY PayloadType DEF ParseReady
<1> QED BY <1>1, ParseHead

\* The frames of the drain: early data, or a control frame without payload.
LEMMA DrainKinds ==
  ASSUME Types, Quiet, NEW h \in DrainFrames
  PROVE  \/ h = Early /\ produced > 0 /\ Early.seq = ISN + 1 /\ Early.len = produced /\ Early.flags = {"ACK"}
         \/ h = SynAck /\ h # Early /\ h.len = 0
         \/ h = Fin /\ h # Early /\ h.len = 0 /\ dstate = "finished" /\ produced = 0
         \/ h = Reset /\ h # Early /\ h.len = 0 /\ dstate = "reset"
<1>1. Early.seq = ISN + 1 /\ Early.len = produced /\ Early.flags = {"ACK"}
  BY DEF Early, Header
<1>2. SynAck # Early /\ Fin # Early /\ Reset # Early
  <2>1. {"SYN", "ACK"} # {"ACK"} /\ {"FIN", "ACK"} # {"ACK"} /\ {"RST", "ACK"} # {"ACK"}
    OBVIOUS
  <2> QED BY <1>1, <2>1, ControlCells
<1>3. dstate = "finished" => produced = 0
  BY DEF Quiet
<1> QED BY <1>1, <1>2, <1>3, ControlCells DEF DrainFrames

\* What stays of the invariant of the drain when a frame is taken off.
LEMMA QuietParse ==
  ASSUME Quiet,
         UNCHANGED <<delivered, cur, dstate, produced, rcv_nxt, sent, snd_una, tx_seq>>,
         \A i \in 1..Len(out') : out'[i].seq = tx_seq /\ out'[i].flags = {"ACK"} /\ out'[i].len = 0,
         Taken' \in {0, produced},
         Headers(Unread', DrainFrames), Ordered(Unread')
  PROVE  Quiet'
<1>1. /\ Early' = Early /\ Fin' = Fin /\ DrainFrames' = DrainFrames /\ SynAck' = SynAck
  BY DeviceRests DEF SynAck
<1> QED BY <1>1 DEF Quiet

\* What a frame that is taken off the front leaves behind it.
LEMMA ParseStep ==
  ASSUME QuietLine, RoomEnough, Types, StreamInv, ~misread, NEW h, ParseReady(h),
         rx_buf' = AfterFrame(h), UNCHANGED <<cur, in>>
  PROVE  /\ h \in Cell /\ h.hdr /\ h \in DrainFrames /\ Unread[1] = h /\ rx_buf[1] = h
         /\ h = Head(rx_buf) /\ Unread # <<>> /\ rx_buf # <<>> /\ h.len < Len(rx_buf) /\ Len(rx_buf) <= Len(Unread)
         /\ \A i \in 1..Len(rx_buf) : Unread[i] = rx_buf[i]
         /\ Shorter(rx_buf', rx_buf) /\ Shorter(Unread', Unread)
         /\ Whole(Unread') /\ Headers(Unread', DrainFrames) /\ Ordered(Unread')
         /\ Fresh(Unread, Place) =>
               h.seq = Place /\ Headers(Unread', FreshFrames) /\ Chained(Unread', h.seq + h.len, End)
         /\ Whole(rx_buf) => Whole(rx_buf')
<1>1. pc = "parse" /\ Steady /\ Parsing /\ Quiet /\ rx_buf # <<>> /\ h = Head(rx_buf)
  BY FrontTaken, PayloadType DEF StreamInv, Parsing, ParseReady
<1>2. /\ Unread # <<>> /\ Unread[1] = h /\ rx_buf[1] = h
      /\ h \in Cell /\ h.hdr /\ h \in DrainFrames
  BY <1>1, ParseHead
<1>3. /\ h.len < Len(rx_buf) /\ Len(rx_buf) <= Len(Unread)
      /\ \A i \in 1..Len(rx_buf) : Unread[i] = rx_buf[i]
      /\ Shorter(Unread', Unread) /\ Shorter(rx_buf', rx_buf)
  BY <1>1, UnreadParse DEF Quiet
<1>4. Unread \in Seq(Cell) /\ rx_buf \in Seq(Cell) /\ Whole(Unread)
  BY <1>1, UnreadType DEF Steady
<1>5. Whole(Unread')
  BY <1>2, <1>3, <1>4, WholeDrop
<1>6. Headers(Unread', DrainFrames) /\ Ordered(Unread')
  BY <1>1, <1>2, <1>3, <1>4, OrderedDrop DEF Quiet
<1>7. ASSUME Fresh(Unread, Place)
      PROVE  h.seq = Place /\ Headers(Unread', FreshFrames) /\ Chained(Unread', h.seq + h.len, End)
  <2>1. Chained(Unread, Place, End) /\ Headers(Unread, FreshFrames)
    BY <1>7 DEF Fresh
  <2>2. h.seq = Place
    BY <1>2, <2>1 DEF Chained
  <2>3. Headers(Unread', FreshFrames)
    BY <1>1, <1>2, <1>3, <1>4, <2>1, OrderedDrop DEF Quiet
  <2>4. Chained(Unread', h.seq + h.len, End)
    BY <1>2, <1>3, <1>4, <2>1, ChainedDrop
  <2> QED BY <2>2, <2>3, <2>4
<1>8. Whole(rx_buf) => Whole(rx_buf')
  BY <1>1, <1>3, <1>4, WholeDrop
<1> QED BY <1>1, <1>2, <1>3, <1>5, <1>6, <1>7, <1>8

\* A frame that is not early data leaves the early data that is behind it.
LEMMA EarlyBehind ==
  ASSUME NEW w \in Seq(Cell), w # <<>>, w[1] # Early, w[1].len = 0, NEW r, Shorter(r, w)
  PROVE  HasEarly(r) <=> HasEarly(w)
<1>1. Len(w) \in Nat \ {0} /\ Len(r) = Len(w) - 1 /\ Len(r) \in Nat
  BY EmptySeq, LenProperties DEF Shorter
<1>2. \A i \in 1..Len(r) : r[i] = w[1 + i]
  BY DEF Shorter
<1>3. ASSUME NEW i \in 1..Len(r), r[i] = Early PROVE HasEarly(w)
  <2>1. 1 + i \in 1..Len(w)
    BY <1>1
  <2> QED BY <1>2, <1>3, <2>1 DEF HasEarly
<1>4. ASSUME NEW i \in 1..Len(w), w[i] = Early PROVE HasEarly(r)
  <2>1. i # 1
    BY <1>4
  <2>2. i - 1 \in 1..Len(r) /\ 1 + (i - 1) = i
    BY <1>1, <2>1
  <2>3. r[i - 1] = Early
    BY <1>2, <1>4, <2>2
  <2> QED BY <2>2, <2>3 DEF HasEarly
<1> QED BY <1>3, <1>4 DEF HasEarly

\* The parse loop ends between frames, or before a frame that is not complete.
LEMMA StreamParseStop ==
  ASSUME QuietLine, RoomEnough, Types, StreamInv, ~misread,
         ParseStop \/ ParseDropByte \/ ParseWild
  PROVE  StreamInv'
<1>1. pc = "parse" /\ Steady /\ Parsing /\ Quiet
  BY DEF StreamInv, Parsing, ParseStop, ParseDropByte, ParseWild
<1>2. /\ rx_buf # <<>> => Head(rx_buf).hdr /\ Head(rx_buf) \in Cell /\ rx_buf[1] = Head(rx_buf)
      /\ rx_buf # <<>> => FrontHeaders = {Head(rx_buf)} /\ ~MayMisread
  BY <1>1, ParseHead
<1>a. ~MayMisread
  BY <1>2 DEF MayMisread
<1>3. /\ pc' = "idle" /\ UNCHANGED <<hostVars, devVars, in, out, budget>>
      /\ rx_buf # <<>> => Head(rx_buf).len + 1 > Len(rx_buf)
  <2>1. ParseStop
    BY <1>a DEF ParseDropByte, ParseWild
  <2> QED BY <1>2, <1>a, <2>1 DEF ParseStop
<1>4. Unread' = Unread /\ Units' = Units /\ Place' = Place
  BY <1>3, SameUnits DEF Unread, hostVars
<1>5. Budgets'
  BY <1>1, <1>3 DEF Steady, Budgets
<1>6. Steady'
  BY <1>1, <1>3, <1>4, <1>5, SteadyHost DEF devVars, hostVars, Steady
<1>7. Fresh(Unread, Place)
  <2>1. CASE Whole(rx_buf) /\ Fresh(in, Resume)
    <3>1. rx_buf = <<>>
      <4> SUFFICES ASSUME rx_buf # <<>> PROVE FALSE
        OBVIOUS
      <4>1. Head(rx_buf).len + 1 > Len(rx_buf)
        BY <1>3
      <4>2. Len(rx_buf) \in Nat \ {0} /\ Head(rx_buf).len \in Nat
        BY <1>2, EmptySeq, UnreadType, CellFields
      <4>3. 1 \in 1..Len(rx_buf)
        BY <4>2
      <4>4. 1 + Head(rx_buf).len <= Len(rx_buf)
        BY <1>2, <2>1, <4>3 DEF Whole
      <4> QED BY <4>1, <4>2, <4>4
    <3>2. Unread = in
      <4>1. Unread = <<>> \o in
        BY <1>1, <3>1, UnreadBetween DEF Quiet
      <4> QED BY <4>1, UnreadType, ConcatEmptySeq
    <3>3. ~HasEarly(rx_buf)
      BY <3>1, EmptySeq DEF HasEarly
    <3>4. Resume = Place
      <4>1. Taken \in Nat /\ ISN \in Nat
        BY UnitsType
      <4>2. CASE Taken > 0
        <5>1. Taken = produced
          BY <1>1, <4>2 DEF Quiet
        <5> QED BY <4>2, <5>1 DEF Resume, Place, End
      <4>3. CASE Taken = 0
        BY <3>3, <4>1, <4>3 DEF Resume, Place
      <4> QED BY <4>1, <4>2, <4>3
    <3> QED BY <2>1, <3>2, <3>4
  <2> QED BY <1>1, <2>1 DEF Parsing
<1>8. Fresh(Unread, Place)'
  BY <1>3, <1>4, <1>7, FreshSame DEF devVars
<1>9. Streaming'
  BY <1>1, <1>3, <1>8 DEF Streaming, Quiet, Accepted, devVars, hostVars
<1> QED BY <1>3, <1>6, <1>9 DEF StreamInv

\* A frame that was seen before is dropped: if it was early data, that has
\* been taken.
LEMMA StreamParseDuplicate ==
  ASSUME QuietLine, RoomEnough, Types, StreamInv, ~misread, NEW h, ParseDuplicate(h)
  PROVE  StreamInv'
<1>1. pc = "parse" /\ Steady /\ Parsing /\ Quiet /\ ParseReady(h) /\ SeenKey(h) \in seen
  BY DEF StreamInv, Parsing, ParseDuplicate, ParseReady
<1>2. /\ rx_buf' = AfterFrame(h)
      /\ UNCHANGED <<pc, tx_seq, rx_ack, prebuf, cur, seen, bufsz, delivered, devVars, in, out, budget>>
  BY DEF ParseDuplicate
<1>3. h = Head(rx_buf)
  BY <1>1, FrontTaken
<1>4. /\ h \in Cell /\ h.hdr /\ h \in DrainFrames /\ Unread[1] = h /\ rx_buf[1] = h
      /\ Unread # <<>> /\ rx_buf # <<>>
      /\ Shorter(rx_buf', rx_buf) /\ Shorter(Unread', Unread)
      /\ Whole(Unread') /\ Headers(Unread', DrainFrames) /\ Ordered(Unread')
      /\ Fresh(Unread, Place) =>
            h.seq = Place /\ Headers(Unread', FreshFrames) /\ Chained(Unread', h.seq + h.len, End)
      /\ Whole(rx_buf) => Whole(rx_buf')
  BY <1>1, <1>2, <1>3, ParseStep
<1>5. Units' = Units /\ Taken' = Taken /\ Place' = Place
  BY <1>2, SameUnits
<1>6. Budgets'
  BY <1>1, <1>2 DEF Steady, Budgets
<1>7. Steady'
  BY <1>1, <1>2, <1>4, <1>6, SteadyHost DEF devVars, Steady
<1>8. Quiet'
  BY <1>1, <1>2, <1>4, <1>5, QuietParse DEF Quiet, devVars
<1>9. h = Early => Taken = produced /\ produced > 0
  <2> SUFFICES ASSUME h = Early PROVE Taken = produced /\ produced > 0
    OBVIOUS
  <2>1. produced > 0 /\ h.seq = ISN + 1 /\ h.flags = {"ACK"}
    BY <1>1, <1>4, DrainKinds
  <2>2. SeenKey(h) = EarlyKey
    <3>1. {"ACK"} \ {"RST"} = {"ACK"}
      OBVIOUS
    <3> QED BY <1>3, <2>1, <3>1 DEF SeenKey, EarlyKey
  <2> QED BY <1>1, <2>1, <2>2 DEF Parsing
<1>10. h # Early => h.len = 0
  BY <1>1, <1>4, DrainKinds
<1>11. \/ Fresh(Unread, Place)'
       \/ Whole(rx_buf') /\ Fresh(in, Resume)'
  <2>1. CASE Fresh(Unread, Place)
    <3>1. h # Early
      <4> SUFFICES ASSUME h = Early PROVE FALSE
        OBVIOUS
      <4>1. h.seq = ISN + 1
        BY <1>1, <1>4, DrainKinds
      <4> QED BY <1>4, <1>9, <2>1, <4>1, UnitsType DEF Place
    <3>2. h.seq + h.len = Place
      BY <1>4, <1>10, <2>1, <3>1, UnitsType
    <3>3. Chained(Unread', Place, End) /\ Headers(Unread', FreshFrames)
      BY <1>4, <2>1, <3>2
    <3>4. End' = End /\ FreshFrames' = FreshFrames
      BY <1>2, DeviceRests DEF devVars
    <3> QED BY <1>4, <1>5, <3>3, <3>4 DEF Fresh
  <2>2. CASE Whole(rx_buf) /\ Fresh(in, Resume)
    <3>1. End' = End /\ Early' = Early
      BY <1>2, DeviceRests DEF devVars
    <3>2. Resume' = Resume
      <4>1. CASE h = Early
        <5>1. Taken > 0
          BY <1>9, <4>1
        <5> QED BY <1>5, <3>1, <5>1 DEF Resume
      <4>2. CASE h # Early
        <5>1. HasEarly(rx_buf') <=> HasEarly(rx_buf)
          BY <1>4, <1>10, <4>2, UnreadType, EarlyBehind
        <5>2. HasEarly(rx_buf)' <=> HasEarly(rx_buf')
          BY <3>1 DEF HasEarly
        <5> QED BY <1>5, <3>1, <5>1, <5>2 DEF Resume
      <4> QED BY <4>1, <4>2
    <3>3. Fresh(in, Resume)'
      BY <1>2, <2>2, <3>2, FreshSame DEF devVars
    <3> QED BY <1>4, <2>2, <3>3
  <2> QED BY <1>1, <2>1, <2>2 DEF Parsing
<1>12. Parsing'
  BY <1>1, <1>2, <1>5, <1>8, <1>11 DEF Parsing, devVars, EarlyKey
<1> QED BY <1>1, <1>2, <1>7, <1>12 DEF StreamInv

\* Where a frame of the drain moves rx_ack.
LEMMA ParseAck ==
  ASSUME QuietLine, RoomEnough, Types, Steady, Quiet, NEW h \in DrainFrames
  PROVE  \/ AckAfter(h) = rx_ack
         \/ AckAfter(h) = ISN + 1
         \/ h = Early /\ AckAfter(h) = End
         \/ dstate = "finished" /\ Taken = produced
<1>1. /\ ISN \in Nat /\ End = ISN + 1 + produced /\ End \in Nat /\ produced \in Nat
      /\ Taken \in Nat /\ produced <= StreamLen /\ StreamLen \in Nat /\ ISN + StreamLen + 2 < SeqMod
      /\ Taken <= produced /\ produced <= MaxPay /\ MaxPay \in Nat /\ SeqMod \in Nat
  BY UnitsType, Sizes DEF End, Steady, Quiet
<1>2. CASE h = Early /\ produced > 0
  <2>1. Early.seq = ISN + 1 /\ Early.len = produced /\ Early.flags = {"ACK"}
    BY <1>2, DrainKinds
  <2>2. Early \in Cell
    <3>1. ISN + 1 \in Nat /\ {"ACK"} \in SUBSET Flags /\ produced \in 0..MaxPay
      BY <1>1 DEF Flags
    <3> QED BY <3>1, HeaderType DEF Early
  <2>3. Consumed(Early) = produced
    BY <1>1, <2>1 DEF Consumed
  <2>4. Early.seq + Consumed(Early) = End /\ End < SeqMod
    BY <1>1, <2>1, <2>3
  <2> QED BY <1>2, <2>2, <2>4, AckAfterIs
<1>3. CASE h = SynAck
  <2>1. Consumed(SynAck) = 1 /\ SynAck \in Cell /\ SynAck.seq = ISN
    BY ControlCells DEF Consumed
  <2>2. SynAck.seq + Consumed(SynAck) = ISN + 1 /\ ISN + 1 < SeqMod
    BY <1>1, <2>1
  <2> QED BY <1>3, <2>1, <2>2, AckAfterIs
<1>4. CASE h = Fin /\ dstate = "finished" /\ produced = 0
  BY <1>1, <1>4
<1>5. CASE h = Reset
  <2>1. Consumed(Reset) = 0
    BY ControlCells DEF Consumed
  <2> QED BY <1>5, <2>1 DEF AckAfter
<1> QED BY <1>2, <1>3, <1>4, <1>5, DrainKinds

\* A reset behind early data is only reached once that has been taken.
LEMMA ParseReset ==
  ASSUME QuietLine, RoomEnough, Types, StreamInv, ~misread, pc = "parse", rx_buf # <<>>, Head(rx_buf) = Reset,
         Reset # Early, produced > 0
  PROVE  Taken = produced
<1>1. Steady /\ Parsing /\ Quiet
  BY DEF StreamInv, Parsing
<1>2. /\ Unread # <<>> /\ Unread[1] = Reset /\ rx_buf[1] = Reset /\ Reset.hdr
      /\ Reset.seq = End /\ "RST" \in Reset.flags
  BY ParseHead, ControlCells
<1>3. /\ ISN \in Nat /\ End = ISN + 1 + produced /\ Place = ISN + 1 + Taken /\ produced \in Nat
      /\ Taken \in Nat /\ Taken \in {0, produced}
  BY <1>1, UnitsType DEF End, Place, Quiet
<1>4. CASE Fresh(Unread, Place)
  <2>1. Place = End
    BY <1>2, <1>4 DEF Fresh, Chained
  <2> QED BY <1>3, <2>1
<1>5. CASE Whole(rx_buf) /\ Fresh(in, Resume)
  <2>1. Len(rx_buf) \in Nat \ {0} /\ Len(in) \in Nat /\ Len(Unread) = Len(rx_buf) + Len(in)
    BY <1>1, EmptySeq, UnreadType, UnreadBetween DEF Quiet
  <2>2. 1 \in 1..Len(Unread)
    BY <2>1
  <2>3. Len(Unread) = 1
    BY <1>1, <1>2, <2>2 DEF Quiet, Ordered
  <2>4. Len(rx_buf) = 1 /\ Len(in) = 0
    <3>1. PICK a \in Nat \ {0} : a = Len(rx_buf)
      BY <2>1
    <3>2. PICK b \in Nat : b = Len(in)
      BY <2>1
    <3>3. a + b = 1
      BY <2>1, <2>3, <3>1, <3>2
    <3>4. a = 1 /\ b = 0
      BY <3>3
    <3> QED BY <3>1, <3>2, <3>4
  <2>5. in = <<>>
    BY <2>4, UnreadType, EmptySeq
  <2>6. Resume = End
    BY <1>5, <2>5 DEF Fresh, Chained
  <2>7. ~HasEarly(rx_buf)
    BY <1>2, <2>4 DEF HasEarly
  <2>8. Taken > 0
    BY <1>3, <2>6, <2>7 DEF Resume
  <2> QED BY <1>3, <2>8
<1> QED BY <1>1, <1>4, <1>5 DEF Parsing

\* A control frame of the drain moves rx_ack and is remembered.
LEMMA StreamParseBare ==
  ASSUME QuietLine, RoomEnough, Types, StreamInv, ~misread, NEW h, ParseFrame(h), Head(rx_buf) # Early
  PROVE  StreamInv'
<1>1. pc = "parse" /\ Steady /\ Parsing /\ Quiet /\ ParseReady(h)
  BY DEF StreamInv, Parsing, ParseFrame, ParseReady
<1>2. h = Head(rx_buf)
  BY <1>1, FrontTaken
<1>3. rx_buf' = AfterFrame(h) /\ UNCHANGED <<cur, in>>
  BY DEF ParseFrame
<1>4. /\ h \in Cell /\ h.hdr /\ h \in DrainFrames /\ Unread[1] = h /\ rx_buf[1] = h
      /\ Unread # <<>> /\ rx_buf # <<>>
      /\ Shorter(rx_buf', rx_buf) /\ Shorter(Unread', Unread)
      /\ Whole(Unread') /\ Headers(Unread', DrainFrames) /\ Ordered(Unread')
      /\ Fresh(Unread, Place) =>
            h.seq = Place /\ Headers(Unread', FreshFrames) /\ Chained(Unread', h.seq + h.len, End)
      /\ Whole(rx_buf) => Whole(rx_buf')
  BY <1>1, <1>2, <1>3, ParseStep
<1>5. h # Early /\ h.len = 0
  BY <1>1, <1>2, <1>4, DrainKinds
<1>6. prebuf' = prebuf
  <2>1. PayloadAfterMove(h) = <<>>
    <3>1. 1..0 = {}
      OBVIOUS
    <3>2. PayloadAfterMove(h) \in Seq(Cell) /\ DOMAIN PayloadAfterMove(h) = 1..0
      BY <1>1, <1>2, <1>5, PayloadType DEF PayloadAfterMove
    <3>3. Len(PayloadAfterMove(h)) = 0
      BY <3>1, <3>2, LenProperties
    <3> QED BY <3>2, <3>3, EmptySeq
  <2>2. prebuf \o <<>> = prebuf
    BY ConcatEmptySeq DEF Types
  <2> QED BY <2>1, <2>2 DEF ParseFrame
<1>7. /\ UNCHANGED <<pc, tx_seq, prebuf, cur, bufsz, delivered, devVars, in, out, budget>>
      /\ rx_ack' = AckAfter(h)
      /\ seen' = seen \/ seen' = seen \cup {SeenKey(h)}
  BY <1>2, <1>5, <1>6 DEF ParseFrame
<1>8. Units' = Units /\ Taken' = Taken /\ Place' = Place
  BY <1>7, SameUnits
<1>9. End' = End /\ FreshFrames' = FreshFrames /\ Early' = Early /\ UNCHANGED <<dstate, produced>>
  BY <1>7, DeviceRests DEF devVars
<1>10. Budgets'
  BY <1>1, <1>7 DEF Steady, Budgets
<1>11. Acked'
  <2>1. \/ AckAfter(h) = rx_ack
        \/ AckAfter(h) = ISN + 1
        \/ dstate = "finished" /\ Taken = produced
    BY <1>1, <1>4, <1>5, ParseAck
  <2>2. Acked
    BY <1>1 DEF Steady
  <2>3. ISN + 1 <= Place
    BY UnitsType DEF Place
  <2> QED BY <1>7, <1>8, <1>9, <2>1, <2>2, <2>3 DEF Acked
<1>12. Steady'
  <2>1. Kept' /\ produced' <= StreamLen /\ Taken' <= produced'
    BY <1>1, <1>8, <1>9 DEF Steady, Kept
  <2>2. dstate' = "open" => snd_nxt' = End'
    BY <1>1, <1>7, <1>9 DEF Steady, devVars
  <2> QED BY <1>4, <1>10, <1>11, <2>1, <2>2 DEF Steady
<1>13. Quiet'
  BY <1>1, <1>4, <1>7, <1>8, QuietParse DEF Quiet, devVars
<1>14. \/ Fresh(Unread, Place)'
       \/ Whole(rx_buf') /\ Fresh(in, Resume)'
  <2>1. CASE Fresh(Unread, Place)
    <3>1. h.seq + h.len = Place
      BY <1>4, <1>5, <2>1, UnitsType
    <3> QED BY <1>4, <1>8, <1>9, <2>1, <3>1 DEF Fresh
  <2>2. CASE Whole(rx_buf) /\ Fresh(in, Resume)
    <3>1. HasEarly(rx_buf') <=> HasEarly(rx_buf)
      BY <1>4, <1>5, UnreadType, EarlyBehind
    <3>2. HasEarly(rx_buf)' <=> HasEarly(rx_buf')
      BY <1>9 DEF HasEarly
    <3>3. Resume' = Resume
      BY <1>8, <1>9, <3>1, <3>2 DEF Resume
    <3>4. Fresh(in, Resume)'
      BY <1>7, <2>2, <3>3, FreshSame DEF devVars
    <3> QED BY <1>4, <2>2, <3>4
  <2> QED BY <1>1, <2>1, <2>2 DEF Parsing
<1>15. SeenKey(h) = <<h.seq, h.flags \ {"RST"}>>
  BY <1>2 DEF SeenKey
<1>16. /\ Taken' > 0 => EarlyKey \in seen'
       /\ EarlyKey \in seen' => Taken' = produced' /\ (produced' > 0 \/ dstate' = "reset")
       /\ Taken' = 0 /\ (dstate' = "open" \/ produced' > 0) =>
             seen' \subseteq {<<ISN, {"SYN", "ACK"}>>}
  <2>1. /\ Taken > 0 => EarlyKey \in seen
        /\ EarlyKey \in seen => Taken = produced /\ (produced > 0 \/ dstate = "reset")
        /\ Taken = 0 /\ (dstate = "open" \/ produced > 0) =>
              seen \subseteq {<<ISN, {"SYN", "ACK"}>>}
    BY <1>1 DEF Parsing
  <2>2. /\ SeenKey(h) = EarlyKey => Taken = produced /\ dstate = "reset"
        /\ Taken = 0 /\ (dstate = "open" \/ produced > 0) => SeenKey(h) = <<ISN, {"SYN", "ACK"}>>
    <3>1. CASE h = SynAck
      <4>1. {"SYN", "ACK"} \ {"RST"} = {"SYN", "ACK"} /\ {"SYN", "ACK"} # {"ACK"}
        OBVIOUS
      <4>2. SeenKey(h) = <<ISN, {"SYN", "ACK"}>>
        BY <1>15, <3>1, <4>1, ControlCells
      <4> QED BY <4>1, <4>2 DEF EarlyKey
    <3>2. CASE h = Fin /\ dstate = "finished" /\ produced = 0
      <4>1. {"FIN", "ACK"} \ {"RST"} # {"ACK"}
        OBVIOUS
      <4>2. SeenKey(h) # EarlyKey
        BY <1>15, <3>2, <4>1, ControlCells DEF EarlyKey
      <4> QED BY <3>2, <4>2
    <3>3. CASE h = Reset /\ dstate = "reset"
      <4>1. Taken = produced
        <5>1. CASE produced > 0
          BY <1>1, <1>2, <1>4, <1>5, <3>3, <5>1, ParseReset
        <5>2. CASE ~(produced > 0)
          <6>1. produced = 0 /\ Taken = 0
            BY <1>1, <5>2, UnitsType DEF Quiet
          <6> QED BY <6>1
        <5> QED BY <5>1, <5>2
      <4>2. ~(Taken = 0 /\ (dstate = "open" \/ produced > 0))
        BY <3>3, <4>1
      <4> QED BY <3>3, <4>1, <4>2
    <3> QED BY <1>1, <1>4, <1>5, <3>1, <3>2, <3>3, DrainKinds
  <2> QED BY <1>7, <1>8, <1>9, <2>1, <2>2
<1>17. Parsing'
  BY <1>13, <1>14, <1>16 DEF Parsing, EarlyKey
<1> QED BY <1>1, <1>7, <1>12, <1>17 DEF StreamInv

\* What the parse loop copies to prebuf is the frame's payload: the frame that
\* was moved over it, if there is one, is a repetition of it.
LEMMA EarlyPayload ==
  ASSUME QuietLine, RoomEnough, Types, StreamInv, ~misread, NEW h, ParseReady(h),
         Head(rx_buf) = Early, produced > 0,
         rx_buf' = AfterFrame(h), UNCHANGED <<cur, in>>
  PROVE  /\ PayloadAfterMove(h) \in Seq(Cell) /\ Len(PayloadAfterMove(h)) = produced
         /\ \A i \in 1..produced : PayloadAfterMove(h)[i] = Data(ISN + i)
<1>1. pc = "parse" /\ Steady /\ Parsing /\ Quiet /\ ParseReady(h)
  BY DEF StreamInv, Parsing, ParseReady
<1>2. h = Head(rx_buf)
  BY <1>1, FrontTaken
<1>3. /\ h \in Cell /\ h.hdr /\ h = Early /\ h \in DrainFrames /\ Unread[1] = h /\ rx_buf[1] = h
      /\ Unread # <<>> /\ rx_buf # <<>> /\ h.len < Len(rx_buf) /\ Len(rx_buf) <= Len(Unread)
      /\ \A i \in 1..Len(rx_buf) : Unread[i] = rx_buf[i]
      /\ Shorter(rx_buf', rx_buf)
  BY <1>1, <1>2, ParseStep
<1>4. h.seq = ISN + 1 /\ h.len = produced /\ h.flags = {"ACK"}
  BY <1>3 DEF Early, Header
<1>5. PICK n \in Nat \ {0} : n = produced
  BY UnitsType
<1>6. PICK r \in Nat : r = Len(rx_buf)
  BY UnreadType
<1>7. PICK u \in Nat : u = Len(Unread)
  BY UnreadType, LenProperties
<1>8. ISN \in Nat /\ n < r /\ r <= u
  BY <1>3, <1>4, <1>5, <1>6, <1>7, Sizes
<1>9. /\ AfterFrame(h) \in Seq(Cell) /\ Len(AfterFrame(h)) = r - (n + 1)
      /\ \A i \in 1..Len(AfterFrame(h)) : AfterFrame(h)[i] = rx_buf[n + 1 + i]
  BY <1>3, <1>4, <1>5, <1>6 DEF Shorter, ParseReady
<1>10. Whole(Unread) /\ Headers(Unread, DrainFrames) /\ Ordered(Unread)
  BY <1>1 DEF Steady, Quiet
<1>11. ASSUME NEW i \in 1..n PROVE rx_buf[i + 1] = Data(ISN + i)
  <2>1. 1 \in 1..u /\ i + 1 \in 1..r /\ 1 + i = i + 1 /\ h.seq + i - 1 = ISN + i
    BY <1>4, <1>8
  <2>2. Unread[1 + i] = Data(h.seq + i - 1)
    BY <1>3, <1>4, <1>5, <1>7, <1>10, <2>1, SMTT(30) DEF Whole
  <2> QED BY <1>3, <1>6, <2>1, <2>2
<1>12. ASSUME NEW i \in 1..n, i + 1 <= Len(AfterFrame(h)) PROVE AfterFrame(h)[i + 1] = Data(ISN + i)
  <2>1. i + 1 <= r - (n + 1)
    BY <1>9, <1>12
  <2>2. /\ 1 \in 1..u /\ n + 2 \in 1..u /\ n + 2 \in 1..r /\ n + 2 < u /\ 1 + n < u /\ 1 + n + 1 = n + 2
        /\ n + 1 + (i + 1) \in 1..r /\ n + 2 + i = n + 1 + (i + 1)
    BY <1>8, <2>1
  <2>3. PICK g : g = Unread[n + 2]
    OBVIOUS
  <2>4. g.hdr
    BY <1>3, <1>4, <1>5, <1>7, <1>10, <2>2, <2>3 DEF Whole
  <2>5. g \in DrainFrames
    BY <1>7, <1>10, <2>2, <2>3, <2>4 DEF Headers
  <2>6. "SYN" \notin g.flags
    BY <1>3, <1>4, <1>5, <1>7, <1>10, <2>2, <2>3 DEF Ordered
  <2>7. "RST" \notin g.flags
    BY <1>7, <1>10, <2>2, <2>3, <2>4 DEF Ordered
  <2>8. g = Early
    <3>1. g # SynAck
      BY <2>6, ControlCells
    <3>2. g # Reset
      BY <2>7, ControlCells
    <3> QED BY <1>1, <1>5, <2>5, <3>1, <3>2, DrainKinds
  <2>9. Unread[n + 2 + i] = Data(ISN + 1 + i - 1)
    <3>1. g.len = n /\ g.seq = ISN + 1
      BY <1>3, <1>4, <1>5, <2>8
    <3> QED BY <1>7, <1>10, <2>2, <2>3, <2>4, <3>1 DEF Whole
  <2>10. ISN + 1 + i - 1 = ISN + i
    BY <1>8
  <2>11. AfterFrame(h)[i + 1] = rx_buf[n + 1 + (i + 1)]
    <3>1. i + 1 \in 1..Len(AfterFrame(h))
      BY <1>8, <1>9, <2>1
    <3> QED BY <1>9, <3>1
  <2>12. rx_buf[n + 1 + (i + 1)] = Unread[n + 1 + (i + 1)]
    BY <1>3, <1>6, <2>2
  <2> QED BY <2>2, <2>9, <2>10, <2>11, <2>12
<1>13. /\ PayloadAfterMove(h) \in Seq(Cell) /\ DOMAIN PayloadAfterMove(h) = 1..n
       /\ \A i \in 1..n : PayloadAfterMove(h)[i] =
             IF i + 1 <= Len(AfterFrame(h)) THEN AfterFrame(h)[i + 1] ELSE rx_buf[i + 1]
  BY <1>2, <1>4, <1>5, PayloadType DEF PayloadAfterMove
<1>14. Len(PayloadAfterMove(h)) = n
  BY <1>13, LenProperties
<1> QED BY <1>5, <1>11, <1>12, <1>13, <1>14

\* Early data is taken once: it goes to prebuf and is acknowledged.
LEMMA StreamParseEarly ==
  ASSUME QuietLine, RoomEnough, Types, StreamInv, ~misread, NEW h, ParseFrame(h), Head(rx_buf) = Early, produced > 0
  PROVE  StreamInv'
<1>1. pc = "parse" /\ Steady /\ Parsing /\ Quiet /\ ParseReady(h) /\ SeenKey(h) \notin seen
  BY DEF StreamInv, Parsing, ParseFrame, ParseReady
<1>2. h = Head(rx_buf)
  BY <1>1, FrontTaken
<1>3. rx_buf' = AfterFrame(h) /\ UNCHANGED <<cur, in>>
  BY DEF ParseFrame
<1>4. /\ h \in Cell /\ h.hdr /\ h = Early /\ rx_buf[1] = h /\ rx_buf # <<>>
      /\ Whole(Unread') /\ Headers(Unread', DrainFrames) /\ Ordered(Unread')
      /\ Fresh(Unread, Place) =>
            h.seq = Place /\ Headers(Unread', FreshFrames) /\ Chained(Unread', h.seq + h.len, End)
      /\ Whole(rx_buf) => Whole(rx_buf')
  BY <1>1, <1>2, <1>3, ParseStep
<1>5. h.seq = ISN + 1 /\ h.len = produced /\ h.flags = {"ACK"} /\ h.seq + h.len = End
  BY <1>4 DEF Early, Header, End
<1>6. SeenKey(h) = EarlyKey
  <2>1. {"ACK"} \ {"RST"} = {"ACK"}
    OBVIOUS
  <2> QED BY <1>2, <1>5, <2>1 DEF SeenKey, EarlyKey
<1>7. delivered = <<>> /\ prebuf = <<>> /\ Taken = 0
  <2>1. Taken = 0
    BY <1>1, <1>6, UnitsType DEF Parsing
  <2>2. Units = <<>>
    BY <2>1, UnitsType, EmptySeq DEF Taken
  <2> QED BY <2>1, <2>2, NoUnits
<1>8. seen' = seen \cup {EarlyKey}
  <2>1. PICK synKey : synKey = <<ISN, {"SYN", "ACK"}>>
    OBVIOUS
  <2>2. seen \subseteq {synKey}
    BY <1>1, <1>7, <2>1 DEF Parsing
  <2>3. seen = {} \/ seen = {synKey}
    BY <2>2
  <2>4. Cardinality(seen) \in {0, 1}
    BY <2>3, FS_EmptySet, FS_Singleton
  <2>5. Cardinality(seen) < SeenCap
    BY <2>4, Sizes
  <2> QED BY <1>6, <2>5 DEF ParseFrame
<1>9. /\ PayloadAfterMove(h) \in Seq(Cell) /\ Len(PayloadAfterMove(h)) = produced
      /\ \A i \in 1..produced : PayloadAfterMove(h)[i] = Data(ISN + i)
  BY <1>1, <1>3, EarlyPayload
<1>10. prebuf' = PayloadAfterMove(h)
  <2>1. Len(prebuf) + h.len <= PrebufCap
    <3>1. Len(prebuf) = 0 /\ h.len = produced /\ produced \in Nat /\ produced <= MaxPay
      BY <1>1, <1>5, <1>7, UnitsType DEF Quiet
    <3> QED BY <3>1, Sizes
  <2>2. <<>> \o PayloadAfterMove(h) = PayloadAfterMove(h)
    BY <1>9, ConcatEmptySeq
  <2> QED BY <1>2, <1>7, <2>1, <2>2 DEF ParseFrame
<1>11. /\ UNCHANGED <<pc, cur, bufsz, delivered, devVars, in>>
       /\ rx_ack' = AckAfter(h) /\ SendOrFail({"ACK"}, 0, AckAfter(h))
  <2>1. h.len > 0
    BY <1>5
  <2> QED BY <1>2, <2>1 DEF ParseFrame
<1>12. UNCHANGED <<dstate, produced>> /\ End' = End /\ FreshFrames' = FreshFrames /\ Early' = Early
  BY <1>11, DeviceRests DEF devVars
<1>13. Units' = PayloadAfterMove(h) /\ Taken' = produced /\ Place' = End
  <2>1. Units' = <<>> \o PayloadAfterMove(h)
    BY <1>7, <1>10, <1>11 DEF Units
  <2>2. Units' = PayloadAfterMove(h)
    BY <1>9, <2>1, ConcatEmptySeq
  <2> QED BY <1>9, <2>2 DEF Taken, Place, End
<1>14. UNCHANGED budget \/ \E f \in FaultNames : Spend(f)
  BY <1>11 DEF SendOrFail, SendFrame, WriteFails, FaultNames
<1>15. Budgets'
  BY <1>1, <1>14, BudgetsKept DEF Steady
<1>16. Acked'
  <2>1. /\ Acked /\ Place = ISN + 1 /\ ISN + 1 <= End /\ End \in Nat /\ ISN + 1 \in Nat /\ rx_ack \in Nat
    BY <1>1, <1>7, UnitsType DEF Steady, Place, End
  <2>2. AckAfter(h) = rx_ack \/ AckAfter(h) = ISN + 1 \/ AckAfter(h) = End \/ Taken = produced
    BY <1>1, <1>4, <1>2, ParseAck DEF DrainFrames
  <2>3. rx_ack' = rx_ack \/ rx_ack' <= End
    BY <1>7, <1>11, <2>1, <2>2, UnitsType
  <2>4. rx_ack <= ISN + 1 \/ dstate \notin {"listen", "open"}
    BY <2>1 DEF Acked
  <2>5. rx_ack' <= End \/ dstate \notin {"listen", "open"}
    BY <2>1, <2>3, <2>4
  <2> QED BY <1>12, <1>13, <2>5 DEF Acked
<1>17. Steady'
  <2>1. Kept'
    BY <1>9, <1>13 DEF Kept
  <2>2. produced' <= StreamLen /\ Taken' <= produced'
    BY <1>1, <1>12, <1>13, UnitsType DEF Steady
  <2>3. dstate' = "open" => snd_nxt' = End'
    BY <1>1, <1>11, <1>12 DEF Steady, devVars
  <2> QED BY <1>4, <1>15, <1>16, <2>1, <2>2, <2>3 DEF Steady
<1>18. Quiet'
  <2>1. /\ tx_seq' = tx_seq
        /\ \A i \in 1..Len(out') : out'[i].seq = tx_seq /\ out'[i].flags = {"ACK"} /\ out'[i].len = 0
    <3>0. \A i \in 1..Len(out) : out[i].seq = tx_seq /\ out[i].flags = {"ACK"} /\ out[i].len = 0
      BY <1>1 DEF Quiet
    <3>1. tx_seq' = tx_seq
      <4>1. tx_seq < SeqMod
        BY <1>1, AfterSyn DEF Quiet
      <4> QED BY <1>11, <4>1, AckTakesNothing DEF SendOrFail, SendFrame, WriteFails
    <3>2. CASE out' = out
      BY <3>0, <3>1, <3>2
    <3>3. CASE out' = Append(out, Frame({"ACK"}, 0, AckAfter(h)))
      <4>1. PICK seg : /\ out' = Append(out, seg)
                       /\ seg.seq = tx_seq /\ seg.flags = {"ACK"} /\ seg.len = 0
        BY <3>3 DEF Frame
      <4>2. Len(out) \in Nat /\ out \in Seq(Segment)
        BY LenProperties DEF Types
      <4>3. /\ Len(out') = Len(out) + 1 /\ out'[Len(out) + 1] = seg
            /\ \A i \in 1..Len(out) : out'[i] = out[i]
        BY <4>1, <4>2
      <4> QED BY <3>0, <3>1, <4>1, <4>2, <4>3
    <3> QED BY <1>11, <3>2, <3>3 DEF SendOrFail, SendFrame, WriteFails
  <2>2. UNCHANGED <<delivered, cur, dstate, produced, rcv_nxt, sent, snd_una, tx_seq>>
    BY <1>11, <2>1 DEF devVars
  <2> QED BY <1>1, <1>4, <1>13, <2>1, <2>2, QuietParse
<1>19. \/ Fresh(Unread, Place)'
       \/ Whole(rx_buf') /\ Fresh(in, Resume)'
  <2>1. CASE Fresh(Unread, Place)
    <3>1. Chained(Unread', End, End) /\ Headers(Unread', FreshFrames)
      BY <1>4, <1>5, <2>1
    <3> QED BY <1>4, <1>12, <1>13, <3>1 DEF Fresh
  <2>2. CASE Whole(rx_buf) /\ Fresh(in, Resume)
    <3>1. HasEarly(rx_buf)
      <4>1. 1 \in 1..Len(rx_buf)
        BY <1>4, EmptySeq, UnreadType
      <4> QED BY <1>4, <4>1 DEF HasEarly
    <3>2. Resume = End /\ Resume' = End
      BY <1>12, <1>13, <3>1 DEF Resume
    <3>3. Fresh(in, Resume)'
      BY <1>11, <1>12, <2>2, <3>2, FreshSame
    <3> QED BY <1>4, <2>2, <3>3
  <2> QED BY <1>1, <2>1, <2>2 DEF Parsing
<1>20. Parsing'
  BY <1>8, <1>12, <1>13, <1>18, <1>19 DEF Parsing, EarlyKey
<1> QED BY <1>1, <1>11, <1>17, <1>20 DEF StreamInv

\* The parse loop takes the first complete frame.
LEMMA StreamParseFrame ==
  ASSUME QuietLine, RoomEnough, Types, StreamInv, ~misread, NEW h, ParseFrame(h)
  PROVE  StreamInv'
<1>1. CASE Head(rx_buf) # Early
  BY <1>1, StreamParseBare
<1>2. CASE Head(rx_buf) = Early
  <2>1. pc = "parse" /\ rx_buf # <<>> /\ Quiet
    BY PayloadType DEF ParseFrame, ParseReady, StreamInv, Parsing
  <2>2. produced > 0
    BY <1>2, <2>1, ParseHead, DrainKinds
  <2> QED BY <1>2, <2>2, StreamParseEarly
<1> QED BY <1>1, <1>2

-----------------------------------------------------------------------------
(* The callers of the session.                                             *)

\* What session_recv hands out of prebuf is with the caller then.
LEMMA PrebufHandedOut ==
  ASSUME Types, RecvPrebuf
  PROVE  Units' = Units
<1>1. PICK b \in BufSizes :
        /\ delivered' = delivered \o SubSeq(prebuf, 1, Least(Len(prebuf), b))
        /\ prebuf' = SubSeq(prebuf, Least(Len(prebuf), b) + 1, Len(prebuf))
  BY DEF RecvPrebuf
<1>2. PICK n : n = Least(Len(prebuf), b)
  OBVIOUS
<1>3. prebuf \in Seq(Cell) /\ delivered \in Seq(Cell) /\ prebuf # <<>>
  BY DEF Types, RecvPrebuf
<1>4. Len(prebuf) \in Nat \ {0} /\ b \in Nat \ {0}
  BY <1>3, EmptySeq, ConstantsAssumption
<1>5. n \in 1..Len(prebuf)
  BY <1>2, <1>4 DEF Least
<1>6. (delivered \o SubSeq(prebuf, 1, n)) \o SubSeq(prebuf, n + 1, Len(prebuf)) = delivered \o prebuf
  BY <1>3, <1>5, MoveKeeps
<1> QED BY <1>1, <1>2, <1>6 DEF Units

\* The calls that leave the wire alone: a receive from prebuf or one that
\* starts to read, a send and a close.
LEMMA StreamCall ==
  ASSUME QuietLine, RoomEnough, Types, StreamInv, RecvPrebuf \/ RecvCall \/ SendCall \/ CloseCall
  PROVE  StreamInv'
<1>1. pc = "idle" /\ Steady /\ Streaming /\ cur = <<>>
  BY DEF StreamInv, Streaming, RecvPrebuf, RecvCall, SendCall, CloseCall
<1>2. UNCHANGED <<rx_ack, rx_buf, cur, seen, devVars, in>>
  BY DEF RecvPrebuf, RecvCall, SendCall, CloseCall
<1>3. UNCHANGED <<dstate, produced>>
  BY <1>2 DEF devVars
<1>4. Unread' = Unread
  BY <1>2 DEF Unread
<1>5. UNCHANGED budget \/ \E f \in FaultNames : Spend(f)
  BY DEF RecvPrebuf, RecvCall, SendCall, CloseCall, SendOrFail, SendFrame, WriteFails, FaultNames
<1>6. Budgets'
  BY <1>1, <1>5, BudgetsKept DEF Steady
<1>7. /\ Units' = Units
      /\ pc' \in {"idle", "recv", "done"}
      /\ pc' = "recv" => prebuf' = <<>>
  <2>1. CASE RecvPrebuf
    <3>1. prebuf # <<>>
      BY <2>1 DEF RecvPrebuf
    <3> QED BY <1>1, <2>1, PrebufHandedOut DEF RecvPrebuf
  <2>2. CASE RecvCall
    BY <2>2 DEF RecvCall, Units
  <2>3. CASE SendCall \/ CloseCall
    BY <1>1, <2>3 DEF SendCall, CloseCall, Units
  <2> QED BY <2>1, <2>2, <2>3
<1>8. Taken' = Taken /\ Place' = Place
  BY <1>7 DEF Taken, Place
<1>9. End' = End
  BY <1>3, DeviceRests
<1>10. Steady'
  <2>1. Kept' /\ Acked' /\ produced' <= StreamLen /\ Taken' <= produced'
    BY <1>1, <1>2, <1>3, <1>7, <1>8 DEF Steady, Kept, Acked
  <2>2. Whole(Unread') /\ (dstate' = "open" => snd_nxt' = End')
    BY <1>1, <1>2, <1>4, <1>9 DEF Steady, devVars
  <2> QED BY <1>6, <2>1, <2>2 DEF Steady
<1>11. Fresh(Unread, Place)'
  BY <1>1, <1>3, <1>4, <1>8, FreshSame DEF Streaming
<1>12. Streaming'
  BY <1>1, <1>2, <1>3, <1>7, <1>11 DEF Streaming, Accepted
<1> QED BY <1>7, <1>10, <1>12 DEF StreamInv

\* The headers behind the first frame.
LEMMA HeadersDrop ==
  ASSUME NEW w \in Seq(Cell), w # <<>>, Whole(w), NEW r, Shorter(r, w), NEW S, Headers(w, S)
  PROVE  Headers(r, S)
<1>1. w[1].hdr
  BY DEF Whole
<1>2. PICK n : n = w[1].len
  OBVIOUS
<1> SUFFICES ASSUME NEW i \in 1..Len(r), r[i].hdr PROVE r[i] \in S
  BY DEF Headers
<1>3. n + 1 + i \in 1..Len(w) /\ r[i] = w[n + 1 + i]
  BY <1>1, <1>2, DroppedPlace
<1> QED BY <1>3 DEF Headers

\* The frame that session_recv has read is the next one of the stream.
LEMMA FrameInStream ==
  ASSUME QuietLine, RoomEnough, Types, StreamInv, pc = "recv", FrameRead, UNCHANGED in, NEW h, h = Head(cur)
  PROVE  /\ h \in Cell /\ h.seq = Place /\ h \in FreshFrames /\ Need = h.len
         /\ Payload \in Seq(Cell) /\ Len(Payload) = h.len
         /\ \A k \in 1..h.len : Payload[k] = Data(Place + k - 1)
         /\ Place + h.len <= End
         /\ Whole(Unread') /\ Chained(Unread', Place + h.len, End) /\ Headers(Unread', FreshFrames)
<1>1. Steady /\ Streaming /\ Fresh(Unread, Place)
  BY DEF StreamInv, Streaming
<1>2. /\ Unread # <<>> /\ Unread[1] = h /\ Need = h.len
      /\ Shorter(Unread', Unread)
      /\ Payload \in Seq(Cell) /\ Len(Payload) = h.len
      /\ \A k \in 1..h.len : Payload[k] = Unread[1 + k]
  BY UnreadFrame
<1>3. Unread \in Seq(Cell) /\ Len(Unread) \in Nat
  BY UnreadType, LenProperties
<1>4. 1 \in 1..Len(Unread) /\ h \in Cell
  <2>1. Len(Unread) \in Nat \ {0}
    BY <1>2, <1>3, EmptySeq
  <2>2. 1 \in 1..Len(Unread)
    BY <2>1
  <2> QED BY <1>2, <1>3, <2>2, ElementOfSeq
<1>5. h.hdr /\ h.seq = Place /\ h \in FreshFrames /\ Place + h.len <= End
  <2>1. h.hdr
    BY <1>1, <1>2 DEF Fresh, Whole
  <2> QED BY <1>1, <1>2, <1>4, <2>1 DEF Fresh, Chained, Headers
<1>6. ASSUME NEW k \in 1..h.len PROVE Payload[k] = Data(Place + k - 1)
  <2>1. Unread[1 + k] = Data(h.seq + k - 1)
    BY <1>1, <1>2, <1>4, <1>5 DEF Fresh, Whole
  <2> QED BY <1>2, <1>5, <2>1
<1>7. Whole(Unread') /\ Headers(Unread', FreshFrames)
  BY <1>1, <1>2, <1>3, WholeDrop, HeadersDrop DEF Fresh
<1>8. Chained(Unread', Place + h.len, End)
  <2>1. Chained(Unread', Unread[1].seq + Unread[1].len, End)
    BY <1>1, <1>2, <1>3, ChainedDrop DEF Fresh
  <2> QED BY <1>2, <1>5, <2>1
<1> QED BY <1>2, <1>4, <1>5, <1>6, <1>7, <1>8

\* A frame that ends the stream: nothing is left to take.
LEMMA StreamRecvControl ==
  ASSUME QuietLine, RoomEnough, Types, StreamInv, RecvControl
  PROVE  StreamInv'
<1>1. pc = "recv" /\ Steady /\ Streaming /\ FrameRead /\ UNCHANGED in
  BY DEF StreamInv, RecvControl
<1>2. PICK h : h = Head(cur)
  OBVIOUS
<1>3. /\ h \in Cell /\ h.seq = Place /\ h \in FreshFrames /\ Need = h.len
      /\ Whole(Unread') /\ Chained(Unread', Place + h.len, End) /\ Headers(Unread', FreshFrames)
  BY <1>1, <1>2, FrameInStream
<1>4. UNCHANGED <<prebuf, seen, bufsz, delivered, devVars, in>> /\ cur' = <<>> /\ rx_ack' = AckAfter(h)
  BY <1>1, <1>2 DEF RecvControl, FrameRead
<1>5. dstate \notin {"listen", "open"} /\ h.seq = End /\ h.len = 0 /\ h.flags \cap {"RST", "FIN"} # {}
  <2>1. CASE h.flags = {"ACK"} /\ h.len > 0
    <3>1. {"ACK"} \cap {"RST", "FIN"} = {} /\ "RST" \notin {"ACK"} /\ "FIN" \notin {"ACK"}
      OBVIOUS
    <3>2. Need = 0
      BY <1>2, <2>1, <3>1 DEF RecvControl
    <3> QED BY <1>3, <2>1, <3>2
  <2>2. CASE dstate \notin {"listen", "open"} /\ h \in {Fin, Reset}
    BY <2>2, ControlCells
  <2> QED BY <1>3, <2>1, <2>2 DEF FreshFrames
<1>6. pc' = "idle"
  BY <1>2, <1>5 DEF RecvControl
<1>7. Units' = Units /\ Taken' = Taken /\ Place' = Place
  BY <1>4, SameUnits
<1>8. UNCHANGED <<dstate, produced>> /\ End' = End /\ FreshFrames' = FreshFrames
  BY <1>4, DeviceRests DEF devVars
<1>9. Taken = produced
  BY <1>3, <1>5, UnitsType DEF Place, End
<1>10. UNCHANGED budget \/ \E f \in FaultNames : Spend(f)
  BY DEF RecvControl, SendOrFail, SendFrame, WriteFails, FaultNames
<1>11. Budgets'
  BY <1>1, <1>10, BudgetsKept DEF Steady
<1>12. Steady'
  <2>1. Acked'
    BY <1>5, <1>7, <1>8, <1>9 DEF Acked
  <2>2. Kept' /\ produced' <= StreamLen /\ Taken' <= produced'
    BY <1>1, <1>7, <1>8 DEF Steady, Kept
  <2>3. dstate' = "open" => snd_nxt' = End'
    BY <1>1, <1>4, <1>8 DEF Steady, devVars
  <2> QED BY <1>3, <1>11, <2>1, <2>2, <2>3 DEF Steady
<1>13. Fresh(Unread, Place)'
  <2>1. Place + h.len = Place
    BY <1>5, UnitsType
  <2> QED BY <1>3, <1>7, <1>8, <2>1 DEF Fresh
<1>14. Streaming'
  BY <1>1, <1>4, <1>6, <1>8, <1>13 DEF Streaming, Accepted
<1> QED BY <1>6, <1>12, <1>14 DEF StreamInv

\* Data is taken for the caller, whole and behind what it has.
LEMMA StreamRecvData ==
  ASSUME QuietLine, RoomEnough, Types, StreamInv, RecvData
  PROVE  StreamInv'
<1>1. pc = "recv" /\ Steady /\ Streaming /\ FrameRead /\ UNCHANGED in /\ prebuf = <<>>
  BY DEF StreamInv, RecvData, Streaming
<1>2. PICK h : h = Head(cur)
  OBVIOUS
<1>3. /\ h \in Cell /\ h.seq = Place /\ h \in FreshFrames /\ Need = h.len
      /\ Payload \in Seq(Cell) /\ Len(Payload) = h.len
      /\ \A k \in 1..h.len : Payload[k] = Data(Place + k - 1)
      /\ Place + h.len <= End
      /\ Whole(Unread') /\ Chained(Unread', Place + h.len, End) /\ Headers(Unread', FreshFrames)
  BY <1>1, <1>2, FrameInStream
<1>4. /\ UNCHANGED <<prebuf, seen, bufsz, devVars, in>> /\ cur' = <<>> /\ rx_ack' = AckAfter(h)
      /\ pc' = "idle" /\ h.flags \cap {"RST", "FIN"} = {}
      /\ delivered' = delivered \o Payload
  BY <1>1, <1>2 DEF RecvData, FrameRead
<1>5. h.flags = {"ACK"} /\ h.len > 0
  BY <1>3, <1>4, ControlCells DEF FreshFrames
<1>6. PICK n \in Nat \ {0} : n = h.len
  BY <1>3, <1>5, CellFields
<1>7. Units' = Units \o Payload
  <2>1. delivered \in Seq(Cell) /\ delivered \o Payload \in Seq(Cell)
    BY <1>3, ConcatProperties DEF Types
  <2> QED BY <1>1, <1>4, <2>1, ConcatEmptySeq DEF Units
<1>8. /\ Units' \in Seq(Cell) /\ Taken' = Taken + n
      /\ \A i \in 1..Taken : Units'[i] = Units[i]
      /\ \A i \in 1..n : Units'[Taken + i] = Payload[i]
  <2>1. Taken \in Nat /\ Units \in Seq(Cell) /\ Len(Units) = Taken /\ Len(Payload) = n
    BY <1>3, <1>6, UnitsType DEF Taken
  <2>2. /\ Units \o Payload \in Seq(Cell) /\ Len(Units \o Payload) = Taken + n
        /\ \A i \in 1..(Taken + n) : (Units \o Payload)[i] =
              IF i <= Taken THEN Units[i] ELSE Payload[i - Taken]
    BY <1>3, <2>1, ConcatProperties, ZenonT(30)
  <2>3. Taken' = Len(Units \o Payload)
    BY <1>7 DEF Taken
  <2>4. ASSUME NEW i \in 1..Taken PROVE (Units \o Payload)[i] = Units[i]
    BY <2>1, <2>2
  <2>5. ASSUME NEW i \in 1..n PROVE (Units \o Payload)[Taken + i] = Payload[i]
    <3>1. PICK j : j = Taken + i
      OBVIOUS
    <3>2. j \in 1..(Taken + n) /\ ~(j <= Taken) /\ j - Taken = i
      BY <2>1, <3>1
    <3>3. (Units \o Payload)[j] = Payload[j - Taken]
      BY <2>2, <3>2
    <3> QED BY <3>1, <3>2, <3>3
  <2> QED BY <1>7, <2>2, <2>3, <2>4, <2>5
<1>9. UNCHANGED <<dstate, produced>> /\ End' = End /\ FreshFrames' = FreshFrames
  BY <1>4, DeviceRests DEF devVars
<1>10. /\ Taken \in Nat /\ ISN \in Nat /\ produced \in Nat /\ End = ISN + 1 + produced
       /\ Place = ISN + 1 + Taken /\ produced <= StreamLen /\ StreamLen \in Nat /\ SeqMod \in Nat
       /\ ISN + StreamLen + 2 < SeqMod
  BY <1>1, UnitsType, Sizes DEF End, Place, Steady
<1>11. Place' = Place + n /\ Taken' <= produced' /\ Place + n <= End
  BY <1>3, <1>6, <1>8, <1>9, <1>10 DEF Place
<1>12. UNCHANGED budget \/ \E f \in FaultNames : Spend(f)
  BY DEF RecvData, SendOrFail, SendFrame, WriteFails, FaultNames
<1>13. Budgets'
  BY <1>1, <1>12, BudgetsKept DEF Steady
<1>14. Kept'
  <2> SUFFICES ASSUME NEW i \in 1..Taken' PROVE Units'[i] = Data(ISN + i)
    BY DEF Kept
  <2>1. CASE i <= Taken
    <3>1. i \in 1..Taken
      BY <1>8, <1>10, <2>1
    <3> QED BY <1>1, <1>8, <3>1 DEF Steady, Kept
  <2>2. CASE ~(i <= Taken)
    <3>1. i - Taken \in 1..n /\ Taken + (i - Taken) = i /\ Place + (i - Taken) - 1 = ISN + i
      BY <1>8, <1>10, <2>2
    <3>2. Payload[i - Taken] = Data(Place + (i - Taken) - 1)
      BY <1>3, <1>6, <3>1
    <3>3. Units'[Taken + (i - Taken)] = Payload[i - Taken]
      BY <1>8, <3>1
    <3> QED BY <3>1, <3>2, <3>3
  <2> QED BY <2>1, <2>2
<1>15. Acked'
  <2>1. Consumed(h) = n
    <3>1. "SYN" \notin h.flags /\ "FIN" \notin h.flags
      BY <1>5
    <3> QED BY <1>6, <3>1 DEF Consumed
  <2>2. h.seq + Consumed(h) = Place + n /\ Place + n < SeqMod
    BY <1>3, <1>10, <1>11, <2>1
  <2>3. rx_ack' = rx_ack \/ rx_ack' = Place + n
    BY <1>3, <1>4, <2>2, AckAfterIs
  <2>4. CASE rx_ack <= Place
    <3>1. rx_ack' <= Place + n
      BY <1>10, <2>3, <2>4, UnitsType
    <3> QED BY <1>11, <3>1 DEF Acked
  <2>5. CASE Taken = produced
    <3>1. Place + n <= Place
      BY <1>10, <1>11, <2>5
    <3> QED BY <1>10, <3>1
  <2> QED BY <1>1, <2>4, <2>5 DEF Steady, Acked
<1>16. Steady'
  <2>1. produced' <= StreamLen /\ (dstate' = "open" => snd_nxt' = End')
    BY <1>1, <1>4, <1>9 DEF Steady, devVars
  <2> QED BY <1>3, <1>11, <1>13, <1>14, <1>15, <2>1 DEF Steady
<1>17. Fresh(Unread, Place)'
  BY <1>3, <1>6, <1>9, <1>11 DEF Fresh
<1>18. Streaming'
  BY <1>1, <1>4, <1>9, <1>17 DEF Streaming, Accepted
<1> QED BY <1>4, <1>16, <1>18 DEF StreamInv

-----------------------------------------------------------------------------
(* The device.                                                             *)

\* What may be on the wire once stays so when the device ends its stream.
LEMMA FreshGrows ==
  ASSUME UNCHANGED produced, dstate \notin {"listen", "open"} => dstate' \notin {"listen", "open"},
         NEW w, NEW first, Fresh(w, first)
  PROVE  Fresh(w, first)' /\ FreshFrames \subseteq FreshFrames'
<1>1. End' = End
  BY DEF End
<1>2. Fin' = Fin /\ Reset' = Reset
  BY <1>1 DEF Fin, Reset
<1>3. FreshFrames \subseteq FreshFrames'
  BY <1>2 DEF FreshFrames
<1>4. Headers(w, FreshFrames')
  BY <1>3 DEF Fresh, Headers
<1> QED BY <1>1, <1>3, <1>4 DEF Fresh

\* Once the connection is accepted, the device takes what the host sends.
LEMMA StreamDevRecv ==
  ASSUME QuietLine, RoomEnough, Types, StreamInv, DevRecv
  PROVE  StreamInv'
<1>1. dstate # "listen" /\ out # <<>> /\ Steady
  BY DEF DevRecv, StreamInv
<1>2. pc \in {"drain", "parse", "idle", "recv", "done", "failed"} \/ pc = "undefined"
  <2>1. pc \notin {"flush", "syn", "handshake", "ack"}
    BY <1>1 DEF StreamInv, Opening
  <2> QED BY <2>1 DEF Types
<1>3. UNCHANGED <<pc, hostVars, snd_nxt, produced, sent, late, in, budget>> /\ out' = Tail(out)
  BY DEF DevRecv
<1>4. PICK f : f = Head(out)
  OBVIOUS
<1>5. /\ f \in Segment
      /\ snd_una' = IF f.ack > snd_una /\ f.ack <= snd_nxt THEN f.ack ELSE snd_una
      /\ rcv_nxt' = IF f.seq = rcv_nxt THEN Add(f.seq, TxSpace(f.flags, f.len)) ELSE rcv_nxt
      /\ dstate' = IF f.seq = rcv_nxt /\ "FIN" \in f.flags THEN "closed" ELSE dstate
  <2>1. f \in Segment
    BY <1>1, <1>4, TailOfSeq DEF Types
  <2> QED BY <1>4, <2>1 DEF DevRecv
<1>6. Unread' = Unread /\ Units' = Units /\ Taken' = Taken /\ Place' = Place
  BY <1>3, SameUnits DEF Unread, hostVars
<1>7. Budgets'
  BY <1>1, <1>3 DEF Steady, Budgets
<1>8. Steady'
  <2>1. dstate \notin {"listen", "open"} => dstate' \notin {"listen", "open"}
    BY <1>5
  <2>2. dstate' = "open" => snd_nxt' = End
    BY <1>1, <1>3, <1>5 DEF Steady
  <2> QED BY <1>1, <1>3, <1>6, <1>7, <2>1, <2>2, SteadySame DEF hostVars, Steady
<1>9. CASE pc \in {"drain", "parse"}
  <2>1. Quiet
    BY <1>9 DEF StreamInv, Draining, Parsing
  <2>2. f.seq = tx_seq /\ f.flags = {"ACK"} /\ f.len = 0 /\ tx_seq = rcv_nxt
    <3>1. 1 \in 1..Len(out) /\ f = out[1]
      <4>1. Len(out) \in Nat \ {0}
        BY <1>1, EmptySeq, LenProperties DEF Types
      <4> QED BY <1>1, <1>4, <4>1
    <3> QED BY <2>1, <3>1 DEF Quiet
  <2>3. tx_seq < SeqMod
    BY <2>1, AfterSyn DEF Quiet
  <2>4. rcv_nxt' = rcv_nxt /\ dstate' = dstate
    <3>1. Add(tx_seq, TxSpace({"ACK"}, 0)) = tx_seq
      BY <2>3, AckTakesNothing
    <3> QED BY <1>5, <2>2, <3>1
  <2>5. snd_una \in Nat /\ f.ack \in Nat /\ ISN \in Nat
    BY <1>5, Sizes DEF Types, Segment
  <2>6. snd_una' >= ISN /\ (snd_una > ISN => snd_una' > ISN)
    BY <1>5, <2>1, <2>5 DEF Quiet
  <2>7. \A i \in 1..Len(out') : out'[i].seq = tx_seq /\ out'[i].flags = {"ACK"} /\ out'[i].len = 0
    <3>1. out \in Seq(Segment) /\ Len(out) \in Nat \ {0}
      BY <1>1, EmptySeq, LenProperties DEF Types
    <3>2. Len(Tail(out)) = Len(out) - 1 /\ \A i \in 1..Len(Tail(out)) : Tail(out)[i] = out[i + 1]
      BY <1>1, <3>1, HeadTailProperties
    <3>3. PICK n \in Nat \ {0} : n = Len(out)
      BY <3>1
    <3>4. \A i \in 1..(n - 1) : i + 1 \in 1..n
      OBVIOUS
    <3>5. \A i \in 1..(n - 1) : out'[i] = out[i + 1] /\ i + 1 \in 1..Len(out)
      BY <1>3, <3>2, <3>3, <3>4
    <3>6. Len(out') = n - 1
      BY <1>3, <3>2, <3>3
    <3> QED BY <2>1, <3>5, <3>6 DEF Quiet
  <2>8. UNCHANGED <<dstate, produced, delivered, cur, tx_seq, rcv_nxt, sent, pc, prebuf, seen, rx_buf, in, budget>>
    BY <1>3, <2>4 DEF hostVars
  <2>9. /\ SynAck' = SynAck /\ Early' = Early /\ Fin' = Fin /\ DrainFrames' = DrainFrames
        /\ StillToCome' = StillToCome /\ End' = End
    BY <2>8, DeviceRests DEF SynAck
  <2>10. Quiet'
    <3>1. /\ (produced > 0 \/ dstate = "finished") => snd_una' > ISN
          /\ snd_una' >= ISN
      BY <2>1, <2>6 DEF Quiet
    <3> QED BY <1>6, <2>1, <2>7, <2>8, <2>9, <3>1 DEF Quiet
  <2>11. CASE pc = "drain"
    <3>1. Draining
      BY <2>11 DEF StreamInv
    <3>2. budget["poll"] > 0 => Fresh(Unread, Place)'
      BY <1>6, <2>8, <3>1, FreshSame DEF Draining
    <3>3. Draining'
      BY <1>6, <2>8, <2>9, <2>10, <3>1, <3>2 DEF Draining, HasEarly
    <3> QED BY <1>3, <1>8, <2>11, <3>3 DEF StreamInv
  <2>12. CASE pc = "parse"
    <3>1. Parsing
      BY <2>12 DEF StreamInv
    <3>2. \/ Fresh(Unread, Place)'
          \/ Whole(rx_buf') /\ Fresh(in, Resume)'
      <4>1. CASE Fresh(Unread, Place)
        BY <1>6, <2>8, <4>1, FreshSame
      <4>2. CASE Whole(rx_buf) /\ Fresh(in, Resume)
        <5>1. Resume' = Resume
          BY <1>6, <2>8, <2>9 DEF Resume, HasEarly
        <5> QED BY <2>8, <4>2, <5>1, FreshSame
      <4> QED BY <3>1, <4>1, <4>2 DEF Parsing
    <3>3. Parsing'
      BY <1>6, <2>8, <2>10, <3>1, <3>2 DEF Parsing, EarlyKey
    <3> QED BY <1>3, <1>8, <2>12, <3>3 DEF StreamInv
  <2> QED BY <1>9, <2>11, <2>12
<1>10. CASE pc \in {"idle", "recv", "done"}
  <2>1. Streaming
    BY <1>10 DEF StreamInv
  <2>2. dstate \notin {"listen", "open"} => dstate' \notin {"listen", "open"}
    BY <1>5
  <2>3. Fresh(Unread, Place)'
    BY <1>3, <1>6, <2>1, <2>2, FreshGrows DEF Streaming
  <2>4. Accepted'
    BY <1>5, <2>1 DEF Streaming, Accepted
  <2>5. Streaming'
    BY <1>3, <2>1, <2>3, <2>4 DEF Streaming, hostVars
  <2> QED BY <1>3, <1>8, <1>10, <2>5 DEF StreamInv
<1>11. CASE pc = "failed"
  <2>1. Failed'
    BY <1>1, <1>5, <1>6, <1>11 DEF StreamInv, Failed
  <2> QED BY <1>3, <1>8, <1>11, <2>1 DEF StreamInv
<1>12. CASE pc = "undefined"
  BY <1>3, <1>8, <1>12 DEF StreamInv
<1> QED BY <1>2, <1>9, <1>10, <1>11, <1>12

\* A new frame that starts where the stream ends continues it.
LEMMA FreshAppend ==
  ASSUME NEW w \in Seq(Cell), NEW h \in Cell, h.hdr, NEW v, Longer(v, w, h), NEW first,
         Fresh(w, first), h.seq = End, h.seq + h.len = End',
         FreshFrames \subseteq FreshFrames', h \in FreshFrames'
  PROVE  Whole(v) /\ Chained(v, first, End') /\ Headers(v, FreshFrames')
<1>1. Whole(w) /\ Chained(w, first, h.seq) /\ Headers(w, FreshFrames)
  BY DEF Fresh
<1>2. Headers(w, FreshFrames')
  BY <1>1 DEF Headers
<1>3. Whole(v) /\ Chained(v, first, h.seq + h.len) /\ Headers(v, FreshFrames')
  BY <1>1, <1>2, WholeAppend, ChainedAppend, HeadersAppend
<1> QED BY <1>3

\* A frame of the device, behind everything that is unread.
LEMMA DeviceWrites ==
  ASSUME QuietLine, RoomEnough, Types, Steady, NEW h \in Cell, h.hdr, h.seq + h.len < SeqMod,
         in' = in \o FrameCells(h), UNCHANGED hostVars
  PROVE  /\ Longer(Unread', Unread, h) /\ Longer(in', in, h) /\ Whole(Unread')
         /\ Units' = Units /\ Taken' = Taken /\ Place' = Place
<1>1. UNCHANGED <<cur, rx_buf, delivered, prebuf>>
  BY DEF hostVars
<1>2. h.seq \in Nat /\ h.len \in Nat /\ SeqMod \in Nat /\ h.seq + h.len <= SeqMod
  <2>1. h.seq \in Nat /\ h.len \in Nat
    BY CellFields
  <2>2. SeqMod \in Nat
    BY Sizes
  <2> QED BY <2>1, <2>2
<1>3. Unread' = Unread \o FrameCells(h)
  BY <1>1, UnreadGrows
<1>4. Longer(Unread', Unread, h) /\ Longer(in', in, h)
  BY <1>2, <1>3, UnreadType, Appended
<1>5. Whole(Unread')
  BY <1>4, UnreadType, WholeAppend DEF Steady
<1> QED BY <1>1, <1>4, <1>5, SameUnits

\* While the host has not sent a request, the service has sent at most one
\* frame, and nothing else is on the wire but SYN|ACKs before it.
LEMMA QuietSend ==
  ASSUME QuietLine, RoomEnough, Types, Quiet, MaySend
  PROVE  produced = 0 /\ Taken = 0 /\ sent = {SynAck} /\ dstate = "open" /\ DrainFrames = {SynAck}
<1>1. dstate = "open" /\ rcv_nxt = Add(TxInit, 1)
  BY DEF MaySend, Quiet
<1>2. Cardinality({h \in sent : "SYN" \notin h.flags}) < EarlyFrames
  <2>1. ~(rcv_nxt > Add(TxInit, 1))
    BY <1>1, AfterSyn
  <2> QED BY <2>1 DEF MaySend
<1>3. produced = 0
  <2> SUFFICES ASSUME produced # 0 PROVE FALSE
    OBVIOUS
  <2>1. produced > 0
    BY UnitsType
  <2>2. sent = {SynAck, Early}
    BY <1>1, <2>1 DEF Quiet
  <2>3. "SYN" \in SynAck.flags /\ "SYN" \notin Early.flags
    <3>1. Early.flags = {"ACK"}
      BY DEF Early, Header
    <3> QED BY <3>1, ControlCells
  <2>4. {h \in sent : "SYN" \notin h.flags} = {Early}
    <3>1. PICK e : e = Early
      OBVIOUS
    <3>2. PICK s : s = SynAck
      OBVIOUS
    <3>3. "SYN" \in s.flags /\ "SYN" \notin e.flags /\ sent = {s, e}
      BY <2>2, <2>3, <3>1, <3>2
    <3>4. {h \in {s, e} : "SYN" \notin h.flags} = {e}
      BY <3>3
    <3> QED BY <3>1, <3>3, <3>4
  <2>5. Cardinality({Early}) = 1
    BY FS_Singleton
  <2>6. Cardinality({Early}) < EarlyFrames
    BY <1>2, <2>4
  <2>7. 1 < EarlyFrames
    BY <2>5, <2>6
  <2> QED BY <2>7, Sizes
<1>4. Taken = 0 /\ sent = {SynAck} /\ DrainFrames = {SynAck}
  BY <1>1, <1>3 DEF Quiet, DrainFrames
<1> QED BY <1>1, <1>3, <1>4

\* rx_buf holds no early data while none has been sent.
LEMMA NoEarlyYet ==
  ASSUME Types, cur = <<>>, Headers(Unread, {SynAck}), NEW e, e.hdr, e.flags = {"ACK"}
  PROVE  ~\E i \in 1..Len(rx_buf) : rx_buf[i] = e
<1> SUFFICES ASSUME NEW i \in 1..Len(rx_buf), rx_buf[i] = e PROVE FALSE
  OBVIOUS
<1>1. Unread = rx_buf \o in /\ Len(rx_buf) \in Nat /\ Len(in) \in Nat /\ Len(Unread) = Len(rx_buf) + Len(in)
  BY UnreadType, UnreadBetween
<1>2. i \in 1..Len(Unread) /\ Unread[i] = rx_buf[i]
  <2>1. PICK a \in Nat : a = Len(rx_buf)
    BY <1>1
  <2>2. PICK b \in Nat : b = Len(in)
    BY <1>1
  <2>3. i \in 1..(a + b) /\ i <= a
    BY <2>1, <2>2
  <2>4. Unread[i] = rx_buf[i]
    BY <1>1, <2>1, <2>2, <2>3, UnreadType, ConcatProperties
  <2> QED BY <1>1, <2>1, <2>2, <2>3, <2>4
<1>3. e = SynAck
  BY <1>2 DEF Headers
<1>4. {"SYN", "ACK"} # {"ACK"}
  OBVIOUS
<1> QED BY <1>3, <1>4, ControlCells

\* The device writes the next frame of its stream, while the host rests.
NextFrame(h) ==
    /\ h \in Cell /\ h.hdr /\ h.seq = End /\ h.seq + h.len = End' /\ End' < SeqMod
    /\ in' = in \o FrameCells(h)
    /\ UNCHANGED <<pc, hostVars, snd_una, rcv_nxt, out, budget>>
    /\ dstate = "open" /\ dstate' \in {"open", "finished", "reset"}
    /\ dstate' = "open" => snd_nxt' = End'
    /\ produced' \in Nat /\ produced <= produced' /\ produced' <= StreamLen
    /\ h \in FreshFrames' /\ FreshFrames \subseteq FreshFrames'

\* It is behind all that is unread, and continues what was the rest of the stream.
LEMMA NextFrameIs ==
  ASSUME QuietLine, RoomEnough, Types, Steady, NEW h, NextFrame(h)
  PROVE  /\ Longer(Unread', Unread, h) /\ Longer(in', in, h)
         /\ Units' = Units /\ Taken' = Taken /\ Place' = Place
         /\ Steady'
         /\ \A first : Fresh(Unread, first) =>
               Whole(Unread') /\ Chained(Unread', first, End') /\ Headers(Unread', FreshFrames')
         /\ \A first : Fresh(in, first) =>
               Whole(in') /\ Chained(in', first, End') /\ Headers(in', FreshFrames')
<1>1. /\ h \in Cell /\ h.hdr /\ h.seq = End /\ h.seq + h.len = End' /\ h.seq + h.len < SeqMod
      /\ in' = in \o FrameCells(h) /\ UNCHANGED hostVars
      /\ h \in FreshFrames' /\ FreshFrames \subseteq FreshFrames'
  BY DEF NextFrame
<1>2. /\ Longer(Unread', Unread, h) /\ Longer(in', in, h) /\ Whole(Unread')
      /\ Units' = Units /\ Taken' = Taken /\ Place' = Place
  BY <1>1, DeviceWrites
<1>3. ASSUME NEW first, Fresh(Unread, first)
      PROVE  Whole(Unread') /\ Chained(Unread', first, End') /\ Headers(Unread', FreshFrames')
  BY <1>1, <1>2, <1>3, UnreadType, FreshAppend
<1>4. ASSUME NEW first, Fresh(in, first)
      PROVE  Whole(in') /\ Chained(in', first, End') /\ Headers(in', FreshFrames')
  BY <1>1, <1>2, <1>4, UnreadType, FreshAppend
<1>5. Steady'
  <2>1. Budgets' /\ Kept' /\ UNCHANGED rx_ack
    BY <1>2 DEF NextFrame, hostVars, Steady, Budgets, Kept
  <2>2. rx_ack <= Place
    BY DEF NextFrame, Steady, Acked
  <2>3. Acked'
    BY <1>2, <2>1, <2>2 DEF Acked
  <2>4. Taken' <= produced' /\ produced' <= StreamLen
    <3>1. produced <= produced' /\ produced' <= StreamLen /\ Taken <= produced
      BY DEF NextFrame, Steady
    <3>2. produced \in Nat /\ Taken \in Nat /\ produced' \in Nat
      BY UnitsType DEF NextFrame
    <3> QED BY <1>2, <3>1, <3>2
  <2>5. dstate' = "open" => snd_nxt' = End'
    BY DEF NextFrame
  <2> QED BY <1>2, <2>1, <2>3, <2>4, <2>5 DEF Steady
<1> QED BY <1>2, <1>3, <1>4, <1>5

\* In a session that is up the next frame just makes the rest longer, and after
\* session_connect has failed nobody reads it.
LEMMA NextStreaming ==
  ASSUME QuietLine, RoomEnough, Types, StreamInv, NEW h, NextFrame(h),
         pc \notin {"flush", "syn", "handshake", "ack", "drain", "parse"}
  PROVE  StreamInv'
<1>1. Steady' /\ Units' = Units /\ Place' = Place
  BY NextFrameIs DEF StreamInv
<1>2. Accepted' /\ dstate' # "listen" /\ UNCHANGED <<pc, cur, prebuf, bufsz>>
  BY DEF NextFrame, Accepted, hostVars
<1>3. ASSUME pc \in {"idle", "recv", "done"} PROVE Streaming'
  <2>1. Steady /\ Streaming /\ Fresh(Unread, Place)
    BY <1>3 DEF StreamInv, Streaming
  <2>2. Whole(Unread') /\ Chained(Unread', Place, End') /\ Headers(Unread', FreshFrames')
    BY <2>1, NextFrameIs
  <2>3. Fresh(Unread, Place)'
    BY <1>1, <2>2 DEF Fresh
  <2> QED BY <1>2, <2>1, <2>3 DEF Streaming
<1>4. ASSUME pc = "failed" PROVE Failed'
  BY <1>1, <1>2, <1>4 DEF StreamInv, Failed
<1> QED BY <1>1, <1>2, <1>3, <1>4 DEF StreamInv

\* In the drain and in the parse loop it must be one of the frames of the
\* drain, and leave room in rx_buf for what may still come.
LEMMA NextQuiet ==
  ASSUME QuietLine, RoomEnough, Types, StreamInv, NEW h, NextFrame(h), pc \in {"drain", "parse"},
         DrainFrames \subseteq DrainFrames', h \in DrainFrames', "SYN" \notin h.flags,
         "RST" \in h.flags => h.len = 0,
         produced' <= MaxPay, Taken \in {0, produced'},
         sent' = {SynAck} \cup (IF produced' > 0 THEN {Early'} ELSE {})
                          \cup (IF dstate' = "finished" THEN {Fin'} ELSE {}),
         dstate' = "finished" => produced' = 0,
         produced' > 0 \/ dstate' = "finished" => snd_una > ISN,
         StillToCome' \in Nat, StillToCome' + h.len + 1 <= StillToCome,
         produced' > 0 => h = Early' \/ (Early' = Early /\ produced > 0),
         pc = "parse" =>
            /\ Resume' = Resume
            /\ EarlyKey \in seen => Taken = produced' /\ (produced' > 0 \/ dstate' = "reset")
            /\ Taken = 0 /\ (dstate' = "open" \/ produced' > 0) => seen \subseteq {<<ISN, {"SYN", "ACK"}>>}
  PROVE  StreamInv'
<1>1. Steady /\ Quiet
  BY DEF StreamInv, Draining, Parsing
<1>2. /\ h \in Cell /\ h.hdr /\ dstate = "open" /\ dstate' \in {"open", "finished", "reset"}
      /\ UNCHANGED <<pc, tx_seq, rcv_nxt, snd_una, prebuf, delivered, rx_buf, cur, seen, out, budget>>
  BY DEF NextFrame, hostVars
<1>3. /\ Longer(Unread', Unread, h) /\ Longer(in', in, h)
      /\ Taken' = Taken /\ Place' = Place /\ Steady'
  BY <1>1, NextFrameIs
<1>4. SynAck' = SynAck /\ EarlyKey' = EarlyKey
  BY DEF SynAck, EarlyKey
<1>5. Headers(Unread', DrainFrames') /\ Ordered(Unread')
  <2>1. Headers(Unread, DrainFrames) /\ Ordered(Unread) /\ Whole(Unread) /\ Unread \in Seq(Cell)
    BY <1>1, UnreadType DEF Quiet, Steady
  <2>2. Headers(Unread, DrainFrames')
    BY <2>1 DEF Headers
  <2>3. ASSUME NEW i \in 1..Len(Unread), Unread[i].hdr PROVE "RST" \notin Unread[i].flags
    <3>1. Unread[i] \in DrainFrames
      BY <2>1, <2>3 DEF Headers
    <3>2. Early.flags = {"ACK"} /\ SynAck.flags = {"SYN", "ACK"}
      BY ControlCells DEF Early, Header
    <3> QED BY <1>1, <1>2, <3>1, <3>2, DrainKinds
  <2> QED BY <1>2, <1>3, <2>1, <2>2, <2>3, HeadersAppend, OrderedAppend
<1>6. Quiet'
  <2>1. /\ delivered' = <<>> /\ cur' = <<>> /\ dstate' \in {"open", "finished", "reset"}
        /\ Taken' \in {0, produced'} /\ produced' <= MaxPay
        /\ tx_seq' = Add(TxInit, 1) /\ rcv_nxt' = tx_seq'
        /\ snd_una' >= ISN
    BY <1>1, <1>2, <1>3 DEF Quiet
  <2>2. \A i \in 1..Len(out') : out'[i].seq = tx_seq' /\ out'[i].flags = {"ACK"} /\ out'[i].len = 0
    BY <1>1, <1>2 DEF Quiet
  <2>3. produced' > 0 \/ dstate' = "finished" => snd_una' > ISN
    BY <1>2
  <2> QED BY <1>4, <1>5, <2>1, <2>2, <2>3 DEF Quiet
<1>7. CASE pc = "drain"
  <2>1. Draining
    BY <1>7 DEF StreamInv
  <2>2. ASSUME produced' > 0 PROVE HasEarly(Unread)'
    <3>1. CASE h = Early'
      <4>1. Len(Unread) + 1 \in 1..Len(Unread') /\ Unread'[Len(Unread) + 1] = h
        <5>1. Len(Unread') = Len(Unread) + 1 + h.len /\ Unread'[Len(Unread) + 1] = h
          BY <1>3 DEF Longer
        <5>2. h.len \in Nat /\ Len(Unread) \in Nat
          BY <1>2, CellFields, UnreadType
        <5> QED BY <5>1, <5>2
      <4> QED BY <3>1, <4>1 DEF HasEarly
    <3>2. CASE Early' = Early /\ produced > 0
      <4>1. PICK i \in 1..Len(Unread) : Unread[i] = Early
        BY <2>1, <3>2 DEF Draining, HasEarly
      <4>2. i \in 1..Len(Unread') /\ Unread'[i] = Unread[i]
        <5>1. Len(Unread') = Len(Unread) + 1 + h.len /\ Unread'[i] = Unread[i]
          BY <1>3 DEF Longer
        <5>2. h.len \in Nat /\ Len(Unread) \in Nat
          BY <1>2, CellFields, UnreadType
        <5> QED BY <5>1, <5>2
      <4> QED BY <3>2, <4>1, <4>2 DEF HasEarly
    <3> QED BY <2>2, <3>1, <3>2
  <2>3. budget'["poll"] > 0 => Fresh(Unread, Place)'
    <3>1. ASSUME Fresh(Unread, Place) PROVE Fresh(Unread, Place)'
      BY <1>1, <1>3, <3>1, NextFrameIs DEF Fresh
    <3> QED BY <1>2, <2>1, <3>1 DEF Draining
  <2>4. Len(Unread') + RetxRoom(budget') + StillToCome' <= RxCap
    <3> DEFINE a == Len(Unread)
               b == RetxRoom(budget)
               c == StillToCome
               d == StillToCome'
               l == h.len
               e == Len(Unread')
    <3>1. /\ a \in Nat /\ b \in Nat /\ c \in Nat /\ d \in Nat /\ l \in Nat
          /\ a + b + c <= RxCap /\ d + l + 1 <= c /\ e = a + 1 + l
      <4>1. b \in Nat
        BY <1>1, <1>2, BudgetsKept DEF Steady
      <4>2. e = a + 1 + l
        <5>1. Len(Unread') = Len(Unread) + 1 + h.len
          BY <1>3 DEF Longer
        <5> QED BY <5>1
      <4>3. a \in Nat /\ c \in Nat /\ l \in Nat
        <5>1. a \in Nat /\ l \in Nat
          BY <1>2, CellFields, UnreadType, LenProperties
        <5>2. MaxPay + 2 \in Nat
          BY Sizes
        <5>3. c \in Nat
          BY <5>2 DEF StillToCome
        <5> QED BY <5>1, <5>3
      <4>4. a + b + c <= RxCap
        BY <2>1 DEF Draining
      <4> QED BY <4>1, <4>2, <4>3, <4>4
    <3>2. RetxRoom(budget') = b
      BY <1>2
    <3> HIDE DEF a, b, c, d, l, e
    <3>3. e + b + d <= RxCap
      BY <3>1, Sizes
    <3> QED BY <3>2, <3>3 DEF e, d
  <2>5. prebuf' = <<>>
    BY <1>2, <2>1 DEF Draining
  <2>6. Draining'
    BY <1>6, <2>2, <2>3, <2>4, <2>5 DEF Draining
  <2> QED BY <1>2, <1>3, <1>7, <2>6 DEF StreamInv
<1>8. CASE pc = "parse"
  <2>1. Parsing
    BY <1>8 DEF StreamInv
  <2>2. \/ Fresh(Unread, Place)'
        \/ Whole(rx_buf') /\ Fresh(in, Resume)'
    <3>1. CASE Fresh(Unread, Place)
      BY <1>1, <1>3, <3>1, NextFrameIs DEF Fresh
    <3>2. CASE Whole(rx_buf) /\ Fresh(in, Resume)
      <4>1. Whole(in') /\ Chained(in', Resume, End') /\ Headers(in', FreshFrames')
        BY <1>1, <3>2, NextFrameIs
      <4> QED BY <1>2, <1>8, <3>2, <4>1 DEF Fresh
    <3> QED BY <2>1, <3>1, <3>2 DEF Parsing
  <2>3. /\ Taken' > 0 => EarlyKey' \in seen'
        /\ EarlyKey' \in seen' => Taken' = produced' /\ (produced' > 0 \/ dstate' = "reset")
        /\ Taken' = 0 /\ (dstate' = "open" \/ produced' > 0) =>
              seen' \subseteq {<<ISN, {"SYN", "ACK"}>>}
    BY <1>2, <1>3, <1>4, <1>8, <2>1 DEF Parsing
  <2>4. Parsing'
    BY <1>6, <2>2, <2>3 DEF Parsing
  <2> QED BY <1>2, <1>3, <1>8, <2>4 DEF StreamInv
<1> QED BY <1>7, <1>8

\* The handshake is over when the service may send.
LEMMA SendingPhase ==
  ASSUME Types, StreamInv, MaySend
  PROVE  pc \notin {"flush", "syn", "handshake", "ack"}
<1>1. snd_una > ISN /\ snd_una \in Nat /\ ISN \in Nat
  BY ConstantsAssumption DEF MaySend, Types
<1>2. snd_una # ISN
  BY <1>1
<1> QED BY <1>2 DEF StreamInv, Opening

\* Data: before the first request it is the one early frame.
LEMMA StreamDevSend ==
  ASSUME QuietLine, RoomEnough, Types, StreamInv, DevSend
  PROVE  StreamInv'
<1>1. Steady /\ MaySend /\ dstate = "open" /\ pc \notin {"flush", "syn", "handshake", "ack"}
  BY SendingPhase DEF StreamInv, DevSend, MaySend
<1>2. PICK n \in 1..MaxPay :
        /\ produced + n <= StreamLen
        /\ produced' = produced + n
        /\ Emit(Header(snd_nxt, {"ACK"}, n))
  BY DEF DevSend
<1>3. UNCHANGED <<pc, hostVars, dstate, snd_una, rcv_nxt, late, out, budget>>
  BY DEF DevSend
<1>4. PICK h : h = Header(snd_nxt, {"ACK"}, n)
  OBVIOUS
<1>5. /\ n \in Nat \ {0} /\ n <= MaxPay /\ produced \in Nat /\ StreamLen \in Nat /\ ISN \in Nat
      /\ MaxPay \in Nat /\ SeqMod \in Nat /\ ISN + StreamLen + 2 < SeqMod
      /\ snd_nxt = End /\ End = ISN + 1 + produced
  BY <1>1, UnitsType, Sizes DEF Steady, End
<1>6. End' = End + n /\ End + n < SeqMod /\ End + n \in Nat /\ produced' \in Nat /\ produced <= produced'
  BY <1>2, <1>5 DEF End
<1>7. h \in Cell /\ h.hdr /\ h.seq = End /\ h.len = n /\ h.flags = {"ACK"}
  <2>1. {"ACK"} \in SUBSET Flags /\ n \in 0..MaxPay /\ snd_nxt \in Nat
    BY <1>5 DEF Flags
  <2>2. h \in Cell
    BY <1>4, <2>1, HeaderType
  <2> QED BY <1>4, <1>5, <2>2 DEF Header
<1>8. in' = in \o FrameCells(h) /\ sent' = sent \cup {h} /\ snd_nxt' = End + n
  <2>1. Consumed(h) = n
    <3>1. "SYN" \notin h.flags /\ "FIN" \notin h.flags
      BY <1>7
    <3> QED BY <1>5, <1>7, <3>1 DEF Consumed
  <2>2. Add(h.seq, Consumed(h)) = End + n
    BY <1>5, <1>6, <1>7, <2>1, AddSmall
  <2> QED BY <1>2, <1>4, <2>2 DEF Emit
<1>9. NextFrame(h)
  <2>1. FreshFrames \subseteq FreshFrames' /\ h \in FreshFrames'
    BY <1>1, <1>3, <1>5, <1>7 DEF FreshFrames
  <2> QED BY <1>1, <1>2, <1>3, <1>6, <1>7, <1>8, <2>1 DEF NextFrame
<1>10. CASE pc \notin {"drain", "parse"}
  BY <1>9, <1>1, <1>10, NextStreaming
<1>11. CASE pc \in {"drain", "parse"}
  <2>1. Quiet
    BY <1>11 DEF StreamInv, Draining, Parsing
  <2>2. produced = 0 /\ Taken = 0 /\ sent = {SynAck} /\ DrainFrames = {SynAck}
    BY <1>1, <2>1, QuietSend
  <2>3. produced' = n /\ produced' > 0 /\ dstate' = "open"
    BY <1>1, <1>2, <1>3, <1>5, <2>2
  <2>4. h = Early'
    <3>1. snd_nxt = ISN + 1
      BY <1>5, <2>2
    <3> QED BY <1>4, <2>3, <3>1 DEF Early
  <2>5. DrainFrames' = {SynAck, h} /\ sent' = {SynAck, h}
    <3>1. SynAck' = SynAck
      BY DEF SynAck
    <3> QED BY <1>8, <2>2, <2>3, <2>4, <3>1 DEF DrainFrames
  <2>6. StillToCome' = 1 /\ StillToCome' + h.len + 1 <= StillToCome
    <3>1. StillToCome' = 1 /\ StillToCome = MaxPay + 2
      BY <1>1, <2>2, <2>3 DEF StillToCome
    <3> QED BY <1>5, <1>7, <3>1
  <2>7. snd_una > ISN
    BY <1>1 DEF MaySend
  <2>8. ASSUME pc = "parse"
        PROVE  /\ Resume' = Resume
               /\ EarlyKey \in seen => Taken = produced' /\ (produced' > 0 \/ dstate' = "reset")
               /\ Taken = 0 /\ (dstate' = "open" \/ produced' > 0) =>
                     seen \subseteq {<<ISN, {"SYN", "ACK"}>>}
    <3>1. Parsing
      BY <2>8 DEF StreamInv
    <3>2. Headers(Unread, {SynAck}) /\ cur = <<>>
      BY <2>1, <2>2 DEF Quiet
    <3>3. ~HasEarly(rx_buf)
      <4>1. Early.hdr /\ Early.flags = {"ACK"}
        BY DEF Early, Header
      <4> QED BY <3>2, <4>1, NoEarlyYet DEF HasEarly
    <3>4. ~HasEarly(rx_buf)'
      <4>1. ~\E i \in 1..Len(rx_buf) : rx_buf[i] = h
        BY <1>7, <3>2, NoEarlyYet
      <4>2. rx_buf' = rx_buf
        BY <1>3 DEF hostVars
      <4> QED BY <2>4, <4>1, <4>2 DEF HasEarly
    <3>5. Taken' = Taken
      BY <1>3, SameUnits DEF hostVars
    <3>6. Resume' = Resume
      BY <2>2, <3>3, <3>4, <3>5 DEF Resume
    <3>7. EarlyKey \notin seen
      BY <1>1, <2>2, <3>1 DEF Parsing
    <3> QED BY <1>1, <2>2, <3>1, <3>6, <3>7 DEF Parsing
  <2>9. "SYN" \notin h.flags /\ "RST" \notin h.flags
    BY <1>7
  <2>10. sent' = {SynAck} \cup (IF produced' > 0 THEN {Early'} ELSE {})
                         \cup (IF dstate' = "finished" THEN {Fin'} ELSE {})
    BY <2>3, <2>4, <2>5
  <2>11. produced' <= MaxPay /\ Taken \in {0, produced'} /\ dstate' # "finished"
    BY <1>5, <2>2, <2>3
  <2> QED BY <1>9, <1>11, <2>2, <2>4, <2>5, <2>6, <2>7, <2>8, <2>9, <2>10, <2>11, NextQuiet
<1> QED BY <1>1, <1>10, <1>11

\* The end of the stream: before the first request there was no data then.
LEMMA StreamDevFin ==
  ASSUME QuietLine, RoomEnough, Types, StreamInv, DevFin
  PROVE  StreamInv'
<1>1. Steady /\ MaySend /\ dstate = "open" /\ pc \notin {"flush", "syn", "handshake", "ack"}
  BY SendingPhase DEF StreamInv, DevFin, MaySend
<1>2. /\ dstate' = "finished" /\ Emit(Header(snd_nxt, {"FIN", "ACK"}, 0))
      /\ UNCHANGED <<pc, hostVars, snd_una, rcv_nxt, produced, late, out, budget>>
  BY DEF DevFin
<1>3. /\ produced \in Nat /\ StreamLen \in Nat /\ ISN \in Nat
      /\ MaxPay \in Nat /\ SeqMod \in Nat /\ ISN + StreamLen + 2 < SeqMod
      /\ snd_nxt = End /\ End = ISN + 1 + produced /\ produced <= StreamLen
  BY <1>1, UnitsType, Sizes DEF Steady, End
<1>4. End' = End /\ Early' = Early /\ Fin' = Fin
  BY <1>2 DEF End, Early, Fin
<1>5. in' = in \o FrameCells(Fin) /\ sent' = sent \cup {Fin}
  BY <1>2, <1>3 DEF Emit, Fin
<1>6. Fin \in Cell /\ Fin.hdr /\ Fin.seq = End /\ Fin.len = 0 /\ Fin.flags = {"FIN", "ACK"}
  BY ControlCells
<1>7. NextFrame(Fin)
  <2>1. FreshFrames \subseteq FreshFrames' /\ Fin \in FreshFrames'
    BY <1>1, <1>2, <1>4 DEF FreshFrames
  <2>2. Fin.seq + Fin.len = End' /\ End' < SeqMod
    BY <1>3, <1>4, <1>6
  <2>3. produced' \in Nat /\ produced <= produced' /\ produced' <= StreamLen
    BY <1>2, <1>3
  <2> QED BY <1>1, <1>2, <1>5, <1>6, <2>1, <2>2, <2>3 DEF NextFrame
<1>8. CASE pc \notin {"drain", "parse"}
  BY <1>7, <1>1, <1>8, NextStreaming
<1>9. CASE pc \in {"drain", "parse"}
  <2>1. Quiet
    BY <1>9 DEF StreamInv, Draining, Parsing
  <2>2. produced = 0 /\ Taken = 0 /\ sent = {SynAck} /\ DrainFrames = {SynAck}
    BY <1>1, <2>1, QuietSend
  <2>3. produced' = 0 /\ ~(produced' > 0)
    BY <1>2, <2>2
  <2>4. DrainFrames' = {SynAck, Fin} /\ sent' = {SynAck, Fin}
    <3>1. SynAck' = SynAck
      BY DEF SynAck
    <3> QED BY <1>2, <1>4, <1>5, <2>2, <2>3, <3>1 DEF DrainFrames
  <2>5. StillToCome' \in Nat /\ StillToCome' + Fin.len + 1 <= StillToCome
    <3>1. StillToCome' = 0 /\ StillToCome = MaxPay + 2
      BY <1>1, <1>2, <2>2 DEF StillToCome
    <3> QED BY <1>3, <1>6, <3>1
  <2>6. snd_una > ISN
    BY <1>1 DEF MaySend
  <2>7. ASSUME pc = "parse"
        PROVE  /\ Resume' = Resume
               /\ EarlyKey \in seen => Taken = produced' /\ (produced' > 0 \/ dstate' = "reset")
               /\ Taken = 0 /\ (dstate' = "open" \/ produced' > 0) =>
                     seen \subseteq {<<ISN, {"SYN", "ACK"}>>}
    <3>1. Parsing
      BY <2>7 DEF StreamInv
    <3>2. Taken' = Taken /\ rx_buf' = rx_buf
      BY <1>2, SameUnits DEF hostVars
    <3>3. Resume' = Resume
      BY <1>4, <3>2 DEF Resume, HasEarly
    <3>4. EarlyKey \notin seen
      BY <1>1, <2>2, <3>1 DEF Parsing
    <3> QED BY <1>2, <2>3, <3>3, <3>4
  <2>8. "SYN" \notin Fin.flags /\ "RST" \notin Fin.flags
    BY <1>6
  <2>9. sent' = {SynAck} \cup (IF produced' > 0 THEN {Early'} ELSE {})
                        \cup (IF dstate' = "finished" THEN {Fin'} ELSE {})
    BY <1>2, <1>4, <2>3, <2>4
  <2>10. produced' <= MaxPay /\ Taken \in {0, produced'}
    BY <1>3, <2>2, <2>3
  <2> QED BY <1>7, <1>9, <2>2, <2>3, <2>4, <2>5, <2>6, <2>7, <2>8, <2>9, <2>10, NextQuiet
<1> QED BY <1>1, <1>8, <1>9

\* A reset may come at any time once the connection is open.
LEMMA StreamDevReset ==
  ASSUME QuietLine, RoomEnough, Types, StreamInv, DevReset
  PROVE  StreamInv'
<1>1. Steady /\ dstate = "open" /\ dstate' = "reset"
  BY DEF StreamInv, DevReset
<1>2. UNCHANGED <<pc, hostVars, snd_una, snd_nxt, rcv_nxt, produced, sent, late, out, budget>>
  BY DEF DevReset
<1>3. /\ produced \in Nat /\ StreamLen \in Nat /\ ISN \in Nat
      /\ MaxPay \in Nat /\ SeqMod \in Nat /\ ISN + StreamLen + 2 < SeqMod
      /\ snd_nxt = End /\ End = ISN + 1 + produced /\ produced <= StreamLen
  BY <1>1, UnitsType, Sizes DEF Steady, End
<1>4. End' = End /\ Early' = Early /\ Reset' = Reset
  BY <1>2 DEF End, Early, Reset
<1>5. in' = in \o FrameCells(Reset)
  BY <1>3 DEF DevReset, Reset
<1>6. Reset \in Cell /\ Reset.hdr /\ Reset.seq = End /\ Reset.len = 0 /\ Reset.flags = {"RST", "ACK"}
  BY ControlCells
<1>7. NextFrame(Reset)
  <2>1. FreshFrames \subseteq FreshFrames' /\ Reset \in FreshFrames'
    BY <1>1, <1>4 DEF FreshFrames
  <2>2. Reset.seq + Reset.len = End' /\ End' < SeqMod
    BY <1>3, <1>4, <1>6
  <2>3. produced' \in Nat /\ produced <= produced' /\ produced' <= StreamLen
    BY <1>2, <1>3
  <2> QED BY <1>1, <1>2, <1>5, <1>6, <2>1, <2>2, <2>3 DEF NextFrame
<1>8. CASE pc \notin {"flush", "syn", "handshake", "ack", "drain", "parse"}
  BY <1>7, <1>8, NextStreaming
<1>9. CASE pc \in {"drain", "parse"}
  <2>1. Quiet
    BY <1>9 DEF StreamInv, Draining, Parsing
  <2>2. DrainFrames \subseteq DrainFrames' /\ Reset \in DrainFrames'
    <3>1. SynAck' = SynAck
      BY DEF SynAck
    <3> QED BY <1>1, <1>2, <1>4, <3>1 DEF DrainFrames
  <2>3. StillToCome' \in Nat /\ StillToCome' + Reset.len + 1 <= StillToCome
    <3>1. StillToCome' = 0 /\ StillToCome \in {MaxPay + 2, 1}
      BY <1>1 DEF StillToCome
    <3> QED BY <1>3, <1>6, <3>1
  <2>4. produced' > 0 \/ dstate' = "finished" => snd_una > ISN
    BY <1>1, <1>2, <2>1 DEF Quiet
  <2>5. ASSUME pc = "parse"
        PROVE  /\ Resume' = Resume
               /\ EarlyKey \in seen => Taken = produced' /\ (produced' > 0 \/ dstate' = "reset")
               /\ Taken = 0 /\ (dstate' = "open" \/ produced' > 0) =>
                     seen \subseteq {<<ISN, {"SYN", "ACK"}>>}
    <3>1. Parsing
      BY <2>5 DEF StreamInv
    <3>2. Taken' = Taken /\ rx_buf' = rx_buf
      BY <1>2, SameUnits DEF hostVars
    <3>3. Resume' = Resume
      BY <1>4, <3>2 DEF Resume, HasEarly
    <3> QED BY <1>1, <1>2, <3>1, <3>3 DEF Parsing
  <2>6. "SYN" \notin Reset.flags
    BY <1>6
  <2>7. sent' = {SynAck} \cup (IF produced' > 0 THEN {Early'} ELSE {})
                        \cup (IF dstate' = "finished" THEN {Fin'} ELSE {})
    BY <1>1, <1>2, <1>4, <2>1 DEF Quiet
  <2>8. /\ produced' <= MaxPay /\ Taken \in {0, produced'} /\ dstate' # "finished"
        /\ produced' > 0 => Early' = Early /\ produced > 0
    BY <1>1, <1>2, <1>4, <2>1 DEF Quiet
  <2> QED BY <1>6, <1>7, <1>9, <2>2, <2>3, <2>4, <2>5, <2>6, <2>7, <2>8, NextQuiet
<1>10. CASE pc \in {"flush", "syn", "handshake", "ack"}
  <2>1. Opening /\ pc \in {"handshake", "ack"}
    BY <1>1, <1>10 DEF StreamInv, Opening
  <2>2. Steady' /\ Units' = Units
    BY <1>1, <1>2, <1>7, NextFrameIs, SameUnits DEF hostVars
  <2>3. Longer(Unread', Unread, Reset) /\ Unread' = Unread \o <<Reset>>
    <3>1. FrameCells(Reset) = <<Reset>>
      BY <1>6, BareCells
    <3>2. UNCHANGED <<cur, rx_buf>>
      BY <1>2 DEF hostVars
    <3>3. Unread' = Unread \o FrameCells(Reset)
      BY <1>5, <1>6, <3>2, UnreadGrows
    <3> QED BY <1>1, <1>7, <3>1, <3>3, NextFrameIs
  <2>4. SynAck' = SynAck
    BY DEF SynAck
  <2>5. /\ pc = "handshake" => Unread' = <<SynAck, Reset>>
        /\ pc = "ack" => Unread' = <<Reset>>
    <3>1. /\ pc = "handshake" => Unread = <<SynAck>>
          /\ pc = "ack" => Unread = <<>>
      BY <1>1, <2>1 DEF Opening
    <3>2. <<SynAck>> \o <<Reset>> = <<SynAck, Reset>> /\ <<>> \o <<Reset>> = <<Reset>>
      <4>1. SynAck \in Cell /\ <<Reset>> \in Seq(Cell) /\ Len(<<Reset>>) = 1
        BY <1>6, ControlCells
      <4>2. PICK v : v = <<SynAck>> \o <<Reset>>
        OBVIOUS
      <4>3. /\ v \in Seq(Cell) /\ Len(v) = 2 /\ v[1] = SynAck
            /\ v[1 + 1] = Reset
        BY <4>1, <4>2, ConsProperties
      <4>4. /\ <<SynAck, Reset>> \in Seq(Cell) /\ Len(<<SynAck, Reset>>) = 2
            /\ <<SynAck, Reset>>[1] = SynAck /\ <<SynAck, Reset>>[2] = Reset
        BY <1>6, <4>1
      <4>5. \A i \in 1..2 : v[i] = <<SynAck, Reset>>[i]
        BY <4>3, <4>4
      <4>6. v = <<SynAck, Reset>>
        BY <4>3, <4>4, <4>5, SeqEqual
      <4> QED BY <4>1, <4>2, <4>6, ConcatEmptySeq
    <3> QED BY <2>3, <3>1, <3>2
  <2>6. dstate' # "listen"
    BY <1>1
  <2>7. Opening'
    <3>1. UNCHANGED <<pc, tx_seq, cur, rx_ack, snd_una, snd_nxt, rcv_nxt, produced, sent, out>>
      BY <1>2 DEF hostVars
    <3> QED BY <1>1, <1>4, <2>1, <2>2, <2>4, <2>5, <2>6, <3>1 DEF Opening
  <2> QED BY <1>2, <1>10, <2>2, <2>7 DEF StreamInv
<1> QED BY <1>8, <1>9, <1>10

\* In the drain a frame may be repeated: there is room for it, and it is one
\* of those that the parse loop recognises.
LEMMA StreamDevRetransmit ==
  ASSUME QuietLine, RoomEnough, Types, StreamInv, DevRetransmit
  PROVE  StreamInv'
<1>1. pc = "drain" /\ Steady /\ Draining /\ Quiet /\ dstate \in {"open", "finished"}
  BY DEF DevRetransmit, QuietLine, StreamInv, Draining
<1>2. PICK h \in sent : h.seq = snd_una /\ in' = in \o FrameCells(h)
  BY DEF DevRetransmit
<1>3. Spend("retransmit") /\ UNCHANGED <<pc, hostVars, devVars, out>>
  BY DEF DevRetransmit
<1>4. /\ Budgets' /\ budget["poll"] = 0
      /\ RetxRoom(budget) \in Nat /\ RetxRoom(budget') = RetxRoom(budget) - (MaxPay + 1)
      /\ ~(budget'["poll"] > 0)
  <2>1. "retransmit" \in FaultNames
    BY DEF FaultNames
  <2>2. /\ Budgets' /\ budget["poll"] = 0 /\ budget'["poll"] <= budget["poll"]
        /\ RetxRoom(budget) \in Nat /\ RetxRoom(budget') = RetxRoom(budget) - (MaxPay + 1)
    BY <1>1, <1>3, <2>1, SpendBudgets DEF Steady
  <2>3. budget'["poll"] \in Nat
    BY <1>1, <1>3, <2>1, BudgetsKept DEF Steady
  <2> QED BY <2>2, <2>3
<1>5. /\ End \in Nat /\ ISN \in Nat /\ produced \in Nat /\ produced <= StreamLen /\ StreamLen \in Nat
      /\ End = ISN + 1 + produced /\ ISN + StreamLen + 2 < SeqMod /\ SeqMod \in Nat
  BY <1>1, UnitsType, Sizes DEF End, Steady
<1>6. h \in DrainFrames /\ h \in Cell /\ h.hdr /\ h.seq + h.len < SeqMod
  <2>1. h \in DrainFrames /\ h \in Cell
    BY <1>1, <1>2 DEF Quiet, DrainFrames, Types
  <2>2. CASE h = Early /\ Early.seq = ISN + 1 /\ Early.len = produced
    <3>1. Early.hdr
      BY DEF Early, Header
    <3> QED BY <1>5, <2>1, <2>2, <3>1
  <2>3. CASE h = SynAck
    BY <1>5, <2>1, <2>3, ControlCells
  <2>4. CASE h = Fin
    BY <1>5, <2>1, <2>4, ControlCells
  <2> QED BY <1>1, <2>1, <2>2, <2>3, <2>4, DrainKinds
<1>7. /\ Longer(Unread', Unread, h) /\ Whole(Unread')
      /\ Units' = Units /\ Taken' = Taken /\ Place' = Place
  BY <1>1, <1>2, <1>3, <1>6, DeviceWrites
<1>8. UNCHANGED <<pc, tx_seq, rx_ack, prebuf, rx_buf, cur, delivered, dstate, snd_una, snd_nxt, rcv_nxt, produced, sent, out>>
  BY <1>3 DEF hostVars, devVars
<1>9. /\ End' = End /\ Early' = Early /\ Fin' = Fin /\ DrainFrames' = DrainFrames
      /\ StillToCome' = StillToCome /\ SynAck' = SynAck
  BY <1>8, DeviceRests DEF SynAck
<1>10. Steady'
  BY <1>1, <1>4, <1>7, <1>8, SteadyHost
<1>11. Headers(Unread', DrainFrames) /\ Ordered(Unread')
  <2>1. Headers(Unread, DrainFrames) /\ Ordered(Unread) /\ Whole(Unread) /\ Unread \in Seq(Cell)
    BY <1>1, UnreadType DEF Quiet, Steady
  <2>2. \A g \in DrainFrames : "RST" \notin g.flags
    <3>1. Early.flags = {"ACK"} /\ SynAck.flags = {"SYN", "ACK"} /\ Fin.flags = {"FIN", "ACK"}
      BY ControlCells DEF Early, Header
    <3>2. dstate # "reset"
      BY <1>1
    <3> QED BY <3>1, <3>2 DEF DrainFrames
  <2>3. ASSUME NEW i \in 1..Len(Unread), Unread[i].hdr PROVE "RST" \notin Unread[i].flags
    BY <2>1, <2>2, <2>3 DEF Headers
  <2>4. ASSUME "SYN" \in h.flags, NEW i \in 1..Len(Unread), Unread[i].hdr PROVE "SYN" \in Unread[i].flags
    <3>1. h = SynAck
      <4>1. Early.flags = {"ACK"} /\ Fin.flags = {"FIN", "ACK"}
        BY ControlCells DEF Early, Header
      <4> QED BY <1>1, <1>6, <2>4, <4>1, DrainKinds
    <3>2. ~(snd_una > ISN)
      BY <1>2, <1>5, <3>1, ControlCells
    <3>3. ~(produced > 0) /\ dstate # "finished" /\ dstate # "reset"
      BY <1>1, <3>2 DEF Quiet
    <3>4. DrainFrames = {SynAck}
      BY <3>3 DEF DrainFrames
    <3>5. Unread[i] = SynAck
      BY <2>1, <2>4, <3>4 DEF Headers
    <3> QED BY <3>5, ControlCells
  <2>5. "RST" \in h.flags => h.len = 0
    BY <1>6, <2>2
  <2> QED BY <1>6, <1>7, <2>1, <2>3, <2>4, <2>5, HeadersAppend, OrderedAppend
<1>12. Quiet'
  BY <1>1, <1>7, <1>8, <1>9, <1>11 DEF Quiet
<1>13. /\ Len(Unread') = Len(Unread) + 1 + h.len /\ h.len \in Nat /\ h.len <= MaxPay /\ Len(Unread) \in Nat
       /\ \A i \in 1..Len(Unread) : Unread'[i] = Unread[i]
  BY <1>6, <1>7, CellFields, UnreadType, LenProperties DEF Longer
<1>14. ASSUME produced > 0 PROVE HasEarly(Unread)'
  <2>1. PICK i \in 1..Len(Unread) : Unread[i] = Early
    BY <1>1, <1>14 DEF Draining, HasEarly
  <2>2. i \in 1..Len(Unread')
    BY <1>13
  <2> QED BY <1>9, <1>13, <2>1, <2>2 DEF HasEarly
<1>15. Len(Unread') + RetxRoom(budget') + StillToCome' <= RxCap
  <2> DEFINE a == Len(Unread)
             b == RetxRoom(budget)
             c == StillToCome
             l == h.len
             e == Len(Unread')
             f == RetxRoom(budget')
  <2>1. c \in Nat
    <3>1. MaxPay + 2 \in Nat
      BY Sizes
    <3> QED BY <3>1 DEF StillToCome
  <2>2. a + b + c <= RxCap
    BY <1>1 DEF Draining
  <2>3. /\ a \in Nat /\ b \in Nat /\ l \in Nat /\ l <= MaxPay
        /\ e = a + 1 + l /\ f = b - (MaxPay + 1)
    BY <1>4, <1>13
  <2>4. StillToCome' = c
    BY <1>9
  <2> HIDE DEF a, b, c, l, e, f
  <2>5. e + f + c <= RxCap
    BY <2>1, <2>2, <2>3, Sizes
  <2> QED BY <2>4, <2>5 DEF e, f
<1>16. Draining'
  BY <1>1, <1>4, <1>8, <1>12, <1>14, <1>15 DEF Draining
<1> QED BY <1>1, <1>8, <1>10, <1>16 DEF StreamInv

\* No pure acknowledgement and nothing from an earlier session arrives.
LEMMA StreamDevQuiet ==
  ASSUME QuietLine, RoomEnough, Types, StreamInv, DevPureAck \/ LateArrives
  PROVE  StreamInv'
<1>1. budget["pureack"] = 0 /\ Stale = {}
  BY DEF StreamInv, Steady, Budgets, QuietLine
<1>2. ~DevPureAck
  BY <1>1 DEF DevPureAck, Spend
<1>3. ~LateArrives
  BY <1>1 DEF LateArrives
<1> QED BY <1>2, <1>3

\* A step that changes nothing.
LEMMA StreamStutter ==
  ASSUME StreamInv, UNCHANGED vars
  PROVE  StreamInv'
<1>1. UNCHANGED <<pc, hostVars, devVars, in, out, budget>>
  BY DEF vars
<1>2. UNCHANGED <<tx_seq, rx_ack, prebuf, rx_buf, cur, seen, bufsz, delivered>>
  BY <1>1 DEF hostVars
<1>3. UNCHANGED <<dstate, snd_una, snd_nxt, rcv_nxt, produced, sent, late>>
  BY <1>1 DEF devVars
<1>4. Units' = Units /\ Taken' = Taken /\ Place' = Place
  BY <1>2, SameUnits
<1>5. /\ End' = End /\ Early' = Early /\ Fin' = Fin /\ Reset' = Reset
      /\ FreshFrames' = FreshFrames /\ DrainFrames' = DrainFrames /\ StillToCome' = StillToCome
  BY <1>3, DeviceRests
<1>6. Unread' = Unread
  BY <1>1, <1>2 DEF Unread
<1>7. SynAck' = SynAck /\ Refusal' = Refusal /\ SynSegment' = SynSegment /\ EarlyKey' = EarlyKey
  BY DEF SynAck, Refusal, SynSegment, EarlyKey
<1>8. Budgets'
  BY <1>1 DEF StreamInv, Steady, Budgets
<1>9. Steady'
  BY <1>2, <1>3, <1>6, <1>8, SteadyHost DEF StreamInv, Steady
<1>10. \A w, first : Fresh(w, first) => Fresh(w, first)'
  BY <1>5 DEF Fresh
<1>11. (Opening => Opening') /\ (Failed => Failed')
  <2>1. Listening' = Listening
    BY <1>1, <1>3, <1>6, <1>7 DEF Listening
  <2> QED BY <1>1, <1>2, <1>3, <1>4, <1>5, <1>6, <1>7, <2>1 DEF Opening, Failed
<1>12. Quiet => Quiet'
  BY <1>1, <1>2, <1>3, <1>4, <1>5, <1>6, <1>7 DEF Quiet
<1>13. Draining => Draining'
  BY <1>1, <1>2, <1>3, <1>4, <1>5, <1>6, <1>10, <1>12 DEF Draining, HasEarly
<1>14. Resume' = Resume
  BY <1>2, <1>4, <1>5 DEF Resume, HasEarly
<1>15. Parsing => Parsing'
  BY <1>1, <1>2, <1>3, <1>4, <1>6, <1>7, <1>10, <1>12, <1>14 DEF Parsing
<1>16. Streaming => Streaming'
  BY <1>1, <1>2, <1>3, <1>4, <1>6, <1>10 DEF Streaming, Accepted
<1> QED BY <1>1, <1>9, <1>11, <1>13, <1>15, <1>16 DEF StreamInv

-----------------------------------------------------------------------------
(* The invariant, and what follows from it.                                *)

LEMMA StreamNext ==
  ASSUME QuietLine, RoomEnough, Types, StreamInv, ~misread, pc # "undefined", [Next]_vars
  PROVE  StreamInv'
<1>1. CASE ConnectStep
  <2>1. ASSUME NEW h \in FrontHeaders, ParseDuplicate(h) \/ ParseFrame(h) PROVE StreamInv'
    BY <2>1, StreamParseDuplicate, StreamParseFrame
  <2> QED BY <1>1, <2>1, StreamFlush, StreamSyn, StreamAck, StreamDrainPoll, StreamDrainEnd,
        StreamParseStop DEF ConnectStep
<1>2. CASE ReadStep
  BY <1>2, StreamReading, StreamReadFails, StreamHandshake, StreamRecvControl, StreamRecvData
     DEF ReadStep
<1>3. CASE RecvStep \/ SendCall \/ CloseCall
  BY <1>3, StreamCall DEF RecvStep
<1>4. CASE DevStep
  BY <1>4, StreamAccept, StreamDevRecv, StreamDevSend, StreamDevFin, StreamDevReset,
     StreamDevRetransmit, StreamDevQuiet DEF DevStep
<1>5. CASE UNCHANGED vars
  BY <1>5, StreamStutter
<1> QED BY <1>1, <1>2, <1>3, <1>4, <1>5 DEF Next

\* A reader that is in step finds headers, and stays in step.
LEMMA StaysInStep ==
  ASSUME QuietLine, RoomEnough, Types, StreamInv, ~misread, [Next]_vars
  PROVE  ~misread'
<1> USE DEF hostVars
<1>1. CASE ConnectStep
  <2>1. ASSUME NEW h \in FrontHeaders, ParseDuplicate(h) \/ ParseFrame(h) PROVE ~misread'
    <3>1. ParseReady(h)
      BY <2>1 DEF ParseDuplicate, ParseFrame
    <3>2. h = Head(rx_buf) /\ TakenAsHeader(h)
      BY <3>1, FrontTaken DEF ParseReady
    <3> QED BY <3>2 DEF TakenAsHeader
  <2>2. ~ParseWild
    <3>1. ASSUME ParseWild PROVE FALSE
      <4>1. pc = "parse" /\ MayMisread /\ rx_buf # <<>>
        BY <3>1 DEF ParseWild, MayMisread
      <4> QED BY <4>1, ParseHead
    <3> QED BY <3>1
  <2> QED BY <1>1, <2>1, <2>2 DEF ConnectStep, FlushPoll, FlushEnd, SendSyn, SendHandshakeAck,
        DrainPoll, DrainEnd, ParseStop, ParseDropByte
<1>2. CASE ReadStep
  <2>1. CASE ReadHeader
    <3>1. cur = <<>> /\ rx_buf # <<>> /\ Steady
      BY <2>1 DEF ReadHeader, StreamInv
    <3>2. FrontHeaders = {Head(rx_buf)} /\ ~MayMisread
      BY <3>1, FrontIs
    <3> QED BY <2>1, <3>2 DEF ReadHeader, TakenAsHeader
  <2> QED BY <1>2, <2>1 DEF ReadStep, ReadChunk, ReadFails, HandshakeFrame, RecvControl, RecvData
<1>3. CASE RecvStep \/ SendCall \/ CloseCall
  BY <1>3 DEF RecvStep, RecvPrebuf, RecvCall, SendCall, CloseCall
<1>4. CASE DevStep
  BY <1>4 DEF DevStep, DevAccept, DevRefuse, DevRecv, DevSend, DevFin, DevReset, DevPureAck,
     DevRetransmit, LateArrives
<1>5. CASE UNCHANGED vars
  BY <1>5 DEF vars
<1> QED BY <1>1, <1>2, <1>3, <1>4, <1>5 DEF Next

\* The types hold in every state, whatever else a proof starts from.
LEMMA TypesAlways == Spec => []Types
<1>1. TypeOK => Types
  BY DEF TypeOK
<1> QED BY <1>1, TypeCorrect, PTL

LEMMA StreamAlways ==
  ASSUME QuietLine, RoomEnough
  PROVE  Spec => [](Types /\ StreamInv /\ ~misread)
<1>1. Init => StreamInv /\ ~misread
  BY StreamInit DEF Init
<1>2. TypeOK /\ StreamInv /\ ~misread /\ [Next]_vars => StreamInv' /\ ~misread'
  BY StreamNext, StaysInStep DEF TypeOK, BuffersFit
<1> QED BY <1>1, <1>2, TypeCorrect, TypesAlways, PTL DEF Spec

\* Whole frames are what the reader expects, between frames and within one.
LEMMA WholeIsFramed ==
  ASSUME Types, StreamInv, ~misread
  PROVE  FramingKept
<1> DEFINE unread == rx_buf \o in
           need == IF cur = <<>> THEN 0 ELSE Head(cur).len
<1>1. Whole(Unread) /\ unread \in Seq(Cell) /\ Len(unread) \in Nat
  BY UnreadType, LenProperties DEF StreamInv, Steady
<1>2. CASE cur = <<>>
  <2>1. need = 0 /\ Unread = unread
    BY <1>2, UnreadBetween
  <2>2. Len(unread) > 0 => unread[1].hdr
    <3>1. Unread # <<>> => Unread[1].hdr
      BY <1>1 DEF Whole
    <3>2. unread = <<>> => Len(unread) = 0
      BY EmptySeq
    <3> QED BY <2>1, <3>1, <3>2
  <2> HIDE DEF unread, need
  <2>3. Len(unread) >= need /\ (\A i \in 1..need : ~unread[i].hdr)
    BY <1>1, <2>1
  <2>4. Len(unread) > need => unread[need + 1].hdr
    <3>1. need + 1 = 1
      BY <2>1
    <3> QED BY <2>1, <2>2, <3>1
  <2> QED BY <2>3, <2>4 DEF FramingKept, unread, need
<1>3. CASE cur # <<>>
  <2>1. PICK h : h = Head(cur)
    OBVIOUS
  <2>2. h \in Cell /\ Unread = <<h>> \o unread /\ Unread[1] = h
    BY <1>3, <2>1, UnreadInFrame
  <2>3. /\ Unread \in Seq(Cell) /\ Len(Unread) = Len(unread) + 1
        /\ \A i \in 1..Len(unread) : Unread[i + 1] = unread[i]
    BY <1>1, <2>2, ConsProperties
  <2>4. PICK n \in Nat : n = h.len
    BY <2>2, CellFields
  <2>5. need = n /\ Unread # <<>>
    BY <1>3, <2>1, <2>4, UnreadInFrame
  <2>6. 1 \in 1..Len(Unread) /\ h.hdr
    <3>1. 1 \in 1..Len(Unread)
      BY <1>1, <2>3
    <3>2. Unread[1].hdr
      BY <1>1, <2>5 DEF Whole
    <3> QED BY <2>2, <3>1, <3>2
  <2>7. /\ 1 + n <= Len(Unread)
        /\ \A k \in 1..n : Unread[1 + k] = Data(h.seq + k - 1)
        /\ 1 + n < Len(Unread) => Unread[1 + n + 1].hdr
    BY <1>1, <2>2, <2>4, <2>6 DEF Whole
  <2> HIDE DEF unread, need
  <2>8. Len(unread) >= n
    BY <1>1, <2>3, <2>7
  <2>9. ASSUME NEW i \in 1..n PROVE ~unread[i].hdr
    <3>1. i \in 1..Len(unread) /\ 1 + i = i + 1
      BY <1>1, <2>8
    <3>2. unread[i] = Data(h.seq + i - 1)
      BY <2>3, <2>7, <3>1
    <3> QED BY <3>2 DEF Data
  <2>10. ASSUME Len(unread) > n PROVE unread[n + 1].hdr
    <3>1. n + 1 \in 1..Len(unread) /\ 1 + n + 1 = (n + 1) + 1 /\ 1 + n < Len(Unread)
      BY <1>1, <2>3, <2>10
    <3>2. Unread[(n + 1) + 1] = unread[n + 1] /\ Unread[1 + n + 1].hdr
      BY <2>3, <2>7, <3>1
    <3> QED BY <3>1, <3>2
  <2> QED BY <2>5, <2>8, <2>9, <2>10 DEF FramingKept, unread, need
<1> QED BY <1>2, <1>3

\* The reader of the session stays in step with the device's frames, however
\* the transfers split and join them: after the flush and the drain, and after
\* each frame that session_recv_frame reads, the next cell is a header.
THEOREM FramesStayWhole ==
  ASSUME QuietLine, RoomEnough
  PROVE  Spec => []FramingKept
<1>1. Types /\ StreamInv /\ ~misread => FramingKept
  BY WholeIsFramed
<1> QED BY <1>1, StreamAlways, PTL

\* What a caller's buffer had no room for: each place in missed lies behind
\* places that are not, in a run that starts with the frame, and the buffer of
\* the session_recv in progress is one that callers pass.
HandInv ==
    /\ missed \subseteq 1..Len(delivered)
    /\ \A i \in missed : HandedOn(i)
    /\ pc = "recv" => bufsz \in BufSizes

\* More of delivered, nothing more missed.
LEMMA HandGrows ==
  ASSUME HandInv, missed' = missed, Len(delivered) \in Nat, Len(delivered') \in Nat,
         Len(delivered) <= Len(delivered'), pc' = "recv" => bufsz' \in BufSizes
  PROVE  HandInv'
<1>1. missed' \subseteq 1..Len(delivered')
  BY DEF HandInv
<1>2. ASSUME NEW i \in missed' PROVE HandedOn(i)'
  BY <1>2 DEF HandInv, HandedOn
<1> QED BY <1>1, <1>2 DEF HandInv

\* The payload that session_recv takes, of at most MaxPay units.
LEMMA PayloadTaken ==
  ASSUME Types, RecvData
  PROVE  /\ Need \in 1..MaxPay /\ Len(delivered) \in Nat
         /\ Len(delivered') = Len(delivered) + Need /\ Payload \in Seq(Cell)
<1>1. Need = Head(cur).len /\ cur # <<>> /\ Len(rx_buf) >= Need /\ Need > 0
      /\ delivered' = delivered \o Payload
  BY DEF RecvData, FrameRead, Need
<1>2. cur \in Seq(Cell) /\ rx_buf \in Seq(Cell) /\ delivered \in Seq(Cell)
  BY DEF Types
<1>3. Head(cur) \in Cell
  BY <1>1, <1>2, HeadTailProperties
<1>4. PICK n \in 0..MaxPay : n = Need
  BY <1>1, <1>3 DEF Cell
<1>5. MaxPay \in Nat /\ Len(rx_buf) \in Nat
  BY <1>2, ConstantsAssumption, LenProperties
<1>6. n \in 1..MaxPay /\ n <= Len(rx_buf)
  BY <1>1, <1>4, <1>5
<1>7. Payload = SubSeq(rx_buf, 1, n) /\ 1 \in Nat \ {0}
  BY <1>4 DEF Payload
<1>8. Payload \in Seq(Cell)
  BY <1>2, <1>6, <1>7, PartOfSeq
<1>9. Len(Payload) = n
  <2>1. n \in Nat /\ 1 \in 1..n
    BY <1>5, <1>6
  <2> QED BY <1>2, <1>5, <1>6, <1>7, <2>1, SubSeqProperties
<1> QED BY <1>1, <1>2, <1>4, <1>6, <1>8, <1>9, ConcatProperties, LenProperties

\* A frame of n units behind the first l, with room for b of them.
LEMMA RunMissed ==
  ASSUME HandInv, NEW n \in 1..MaxPay, NEW b \in BufSizes,
         Len(delivered) \in Nat, Len(delivered') = Len(delivered) + n,
         missed' = missed \cup {Len(delivered) + i : i \in (b + 1)..n}, pc' = "idle"
  PROVE  HandInv'
<1>1. PICK l \in Nat : l = Len(delivered)
  OBVIOUS
<1>2. b \in Nat \ {0} /\ MaxPay \in Nat
  BY ConstantsAssumption
<1>3. missed \subseteq 1..l /\ missed' = missed \cup {l + i : i \in (b + 1)..n} /\ n \in Nat
  BY <1>1, <1>2 DEF HandInv
<1>4. \A j \in 1..l : j \in missed' <=> j \in missed
  BY <1>2, <1>3
<1>5. \A k \in 1..n : l + k \in missed' <=> k >= b + 1
  <2>1. ASSUME NEW k \in 1..n PROVE l + k \in missed' <=> k >= b + 1
    <3>1. l + k \notin missed
      BY <1>3
    <3>2. l + k \in {l + i : i \in (b + 1)..n} <=> k >= b + 1
      BY <1>2, <1>3
    <3> QED BY <1>3, <3>1, <3>2
  <2> QED BY <2>1
<1>6. missed' \subseteq 1..Len(delivered')
  <2>1. Len(delivered') = l + n
    BY <1>1
  <2>2. 1..l \subseteq 1..(l + n) /\ {l + i : i \in (b + 1)..n} \subseteq 1..(l + n)
    BY <1>2, <1>3
  <2> QED BY <1>3, <2>1, <2>2
<1>7. ASSUME NEW i \in missed' PROVE HandedOn(i)'
  <2>1. CASE i \in missed
    <3>1. i \in 1..l
      BY <1>3, <2>1
    <3>2. PICK c \in BufSizes, s \in 1..i :
            i < s + MaxPay /\ \A j \in s..i : j \in missed <=> j >= s + c
      BY <2>1 DEF HandInv, HandedOn
    <3>3. s..i \subseteq 1..l
      BY <3>1
    <3>4. \A j \in s..i : j \in missed' <=> j >= s + c
      BY <1>4, <3>2, <3>3
    <3> QED BY <3>2, <3>4 DEF HandedOn
  <2>2. CASE i \notin missed
    <3>1. PICK k \in (b + 1)..n : i = l + k
      BY <1>3, <2>2
    <3>2. PICK s : s = l + 1
      OBVIOUS
    <3>3. s \in 1..i /\ i < s + MaxPay
      BY <1>2, <1>3, <3>1, <3>2
    <3>4. ASSUME NEW j \in s..i PROVE j \in missed' <=> j >= s + b
      <4>1. j - l \in 1..n /\ l + (j - l) = j
        BY <1>2, <1>3, <3>1, <3>2
      <4>2. j \in missed' <=> j - l >= b + 1
        BY <1>5, <4>1
      <4>3. j - l >= b + 1 <=> j >= s + b
        BY <1>2, <3>1, <3>2
      <4> QED BY <4>2, <4>3
    <3> QED BY <3>3, <3>4 DEF HandedOn
  <2> QED BY <2>1, <2>2
<1> QED BY <1>6, <1>7 DEF HandInv

LEMMA HandNext ==
  ASSUME Types, HandInv, [Next]_vars
  PROVE  HandInv'
<1> USE DEF hostVars
<1>1. Len(delivered) \in Nat
  BY LenProperties DEF Types
<1>2. CASE RecvData
  <2>1. Need \in 1..MaxPay /\ Len(delivered') = Len(delivered) + Need
    BY <1>2, PayloadTaken
  <2>2. /\ pc = "recv" /\ pc' = "idle"
        /\ missed' = missed \cup {Len(delivered) + i : i \in (bufsz + 1)..Need}
    BY <1>2 DEF RecvData
  <2>3. bufsz \in BufSizes
    BY <2>2 DEF HandInv
  <2> QED BY <1>1, <2>1, <2>2, <2>3, RunMissed
<1>3. CASE RecvPrebuf
  <2>1. PICK b \in BufSizes :
          delivered' = delivered \o SubSeq(prebuf, 1, Least(Len(prebuf), b))
    BY <1>3 DEF RecvPrebuf
  <2>2. PICK n : n = Least(Len(prebuf), b)
    OBVIOUS
  <2>3. prebuf \in Seq(Cell) /\ delivered \in Seq(Cell) /\ Len(prebuf) \in Nat /\ b \in Nat
    BY ConstantsAssumption, LenProperties DEF Types
  <2>4. n \in Nat /\ n <= Len(prebuf) /\ 1 \in Nat \ {0}
    BY <2>2, <2>3 DEF Least
  <2>5. SubSeq(prebuf, 1, n) \in Seq(Cell)
    BY <2>3, <2>4, PartOfSeq
  <2>6. PICK m \in Nat : m = Len(SubSeq(prebuf, 1, n))
    BY <2>5, LenProperties
  <2>7. Len(delivered') = Len(delivered) + m
    BY <2>1, <2>2, <2>3, <2>5, <2>6, ConcatProperties
  <2>8. UNCHANGED <<pc, bufsz, missed>>
    BY <1>3 DEF RecvPrebuf
  <2>9. Len(delivered') \in Nat /\ Len(delivered) <= Len(delivered')
    BY <1>1, <2>7
  <2> QED BY <1>1, <2>8, <2>9, HandGrows DEF HandInv
<1>4. ASSUME UNCHANGED <<delivered, missed>>, pc' = "recv" => bufsz' \in BufSizes
      PROVE  HandInv'
  BY <1>1, <1>4, HandGrows
<1>5. CASE ConnectStep
  <2>1. UNCHANGED <<delivered, missed, bufsz>> /\ pc' # "recv"
    BY <1>5 DEF ConnectStep, FlushPoll, FlushEnd, SendSyn, SendHandshakeAck, DrainPoll,
       DrainEnd, ParseStop, ParseDropByte, ParseWild, ParseReady, ParseDuplicate, ParseFrame
  <2> QED BY <1>4, <2>1
<1>6. CASE ReadChunk \/ ReadFails \/ ReadHeader \/ HandshakeFrame \/ RecvControl
  <2>1. UNCHANGED <<delivered, missed, bufsz>> /\ (pc' = "recv" => pc = "recv")
    BY <1>6 DEF ReadChunk, ReadFails, ReadHeader, HandshakeFrame, RecvControl, AfterFailure,
       Reading
  <2> QED BY <1>4, <2>1 DEF HandInv
<1>7. CASE RecvCall \/ SendCall \/ CloseCall
  <2>1. UNCHANGED <<delivered, missed>> /\ (pc' = "recv" => bufsz' \in BufSizes)
    BY <1>7 DEF RecvCall, SendCall, CloseCall
  <2> QED BY <1>4, <2>1
<1>8. CASE DevStep \/ UNCHANGED vars
  <2>1. UNCHANGED <<pc, delivered, missed, bufsz>>
    BY <1>8 DEF DevStep, DevAccept, DevRefuse, DevRecv, DevSend, DevFin, DevReset, DevPureAck,
       DevRetransmit, LateArrives, vars
  <2> QED BY <1>4, <2>1 DEF HandInv
<1> QED BY <1>2, <1>3, <1>5, <1>6, <1>7, <1>8 DEF Next, ReadStep, RecvStep

LEMMA HandAlways == Spec => []HandInv
<1>1. Init => HandInv
  BY DEF Init, HandInv
<1>2. Types /\ HandInv /\ [Next]_vars => HandInv'
  BY HandNext
<1> QED BY <1>1, <1>2, TypesAlways, PTL DEF Spec

\* A unit below rx_ack is one that the host has taken, at its own place.
LEMMA AckedIsTaken ==
  ASSUME Types, StreamInv, HandInv
  PROVE  AckedIsKept
<1> SUFFICES ASSUME NEW p \in (ISN + 1)..(ISN + produced), p < rx_ack
             PROVE  \E i \in 1..Taken : Units[i] = Data(p) /\ HandedOn(i)
  BY DEF AckedIsKept, Taken
<1>1. /\ Taken \in Nat /\ produced \in Nat /\ rx_ack \in Nat /\ ISN \in Nat
      /\ Place = ISN + 1 + Taken
  BY UnitsType DEF Place
<1>2. rx_ack <= Place \/ Taken = produced
  BY DEF StreamInv, Steady, Acked
<1>3. PICK i \in 1..Taken : p = ISN + i
  <2>1. p - ISN \in 1..Taken /\ p = ISN + (p - ISN)
    BY <1>1, <1>2
  <2> QED BY <2>1
<1>4. Units[i] = Data(ISN + i)
  BY DEF StreamInv, Steady, Kept
<1>5. HandedOn(i)
  BY DEF HandInv, HandedOn
<1> QED BY <1>3, <1>4, <1>5

\* The host acknowledges no byte that it has not kept: when rx_ack is moved
\* past a frame, by session_recv_frame or by the parse loop of session_connect,
\* all of its payload is in prebuf or with the caller, whatever the sizes of
\* the callers' buffers, but for the last units of a frame whose first ones
\* have filled the buffer that session_recv was given.
THEOREM NothingAckedIsLost ==
  ASSUME QuietLine, RoomEnough
  PROVE  Spec => []AckedIsKept
<1>1. Types /\ StreamInv /\ HandInv => AckedIsKept
  BY AckedIsTaken
<1> QED BY <1>1, StreamAlways, HandAlways, PTL

-----------------------------------------------------------------------------
(* The session implements the safety part of ReliableStream.  The unit     *)
(* that is taken at place i is unit i, so what the abstract reader has     *)
(* taken is the sequence of the first numbers, which only grows.           *)

Numbers(n) == [i \in 1..n |-> i]

LEMMA NumbersType ==
  ASSUME NEW n \in Nat
  PROVE  Numbers(n) \in Seq(Nat) /\ Len(Numbers(n)) = n
<1>1. Numbers(n) \in [1..n -> Nat]
  BY DEF Numbers
<1>2. Numbers(n) \in Seq(Nat)
  BY <1>1, FunctionIsSeq
<1>3. DOMAIN Numbers(n) = 1..n
  BY DEF Numbers
<1> QED BY <1>2, <1>3, LenProperties

\* A run of the next n numbers, put behind the first t.
LEMMA NumbersGrow ==
  ASSUME NEW t \in Nat, NEW n \in Nat
  PROVE  Numbers(t + n) = Numbers(t) \o [i \in 1..n |-> Len(Numbers(t)) + i]
<1> DEFINE run == [i \in 1..n |-> Len(Numbers(t)) + i]
           all == Numbers(t) \o run
<1>1. Numbers(t) \in Seq(Nat) /\ Len(Numbers(t)) = t
  BY NumbersType
<1>2. run \in Seq(Nat) /\ Len(run) = n
  <2>1. run \in [1..n -> Nat] /\ DOMAIN run = 1..n
    BY <1>1
  <2>2. run \in Seq(Nat)
    BY <2>1, FunctionIsSeq
  <2> QED BY <2>1, <2>2, LenProperties
<1> HIDE DEF run
<1>3. /\ all \in Seq(Nat) /\ Len(all) = t + n
      /\ \A i \in 1..(t + n) : all[i] = IF i <= t THEN Numbers(t)[i] ELSE run[i - t]
  BY <1>1, <1>2, ConcatProperties
<1>4. t + n \in Nat
  OBVIOUS
<1>5. Numbers(t + n) \in Seq(Nat) /\ Len(Numbers(t + n)) = t + n
  BY <1>4, NumbersType
<1>6. ASSUME NEW i \in 1..(t + n) PROVE Numbers(t + n)[i] = all[i]
  <2>1. Numbers(t + n)[i] = i
    BY DEF Numbers
  <2>2. CASE i <= t
    <3>1. i \in 1..t
      BY <2>2
    <3>2. Numbers(t)[i] = i
      BY <3>1 DEF Numbers
    <3> QED BY <1>3, <2>1, <2>2, <3>2
  <2>3. CASE ~(i <= t)
    <3>1. i - t \in 1..n
      BY <2>3
    <3>2. run[i - t] = t + (i - t)
      BY <1>1, <3>1 DEF run
    <3>3. t + (i - t) = i
      OBVIOUS
    <3> QED BY <1>3, <2>1, <2>3, <3>2, <3>3
  <2> QED BY <2>2, <2>3
<1> HIDE DEF all
<1>7. Numbers(t + n) = all
  BY <1>3, <1>5, <1>6, SeqEqual
<1> QED BY <1>7 DEF all, run

\* The abstract reader's sequence, as MuxSession maps it.
UnitNumbers(u) == [i \in 1..Len(u) |-> LET c == u[i] IN IF c.hdr THEN 0 ELSE c.seq - ISN]

LEMMA UnitsAreNumbers ==
  ASSUME NEW u \in Seq(Cell), \A i \in 1..Len(u) : u[i] = Data(ISN + i)
  PROVE  UnitNumbers(u) = Numbers(Len(u))
<1>1. ISN \in Nat /\ Len(u) \in Nat
  BY ConstantsAssumption, LenProperties
<1>2. ASSUME NEW i \in 1..Len(u)
      PROVE (LET c == u[i] IN IF c.hdr THEN 0 ELSE c.seq - ISN) = i
  <2>1. u[i] = Data(ISN + i)
    OBVIOUS
  <2>2. PICK c : c = u[i]
    OBVIOUS
  <2>3. c.hdr = FALSE /\ c.seq = ISN + i
    BY <2>1, <2>2 DEF Data
  <2>4. c.seq - ISN = i
    BY <1>1, <2>3
  <2> QED BY <2>2, <2>3, <2>4
<1> QED BY <1>2 DEF UnitNumbers, Numbers

\* The mapped sequence, in a state and in the next one.
Mapped == UnitNumbers(Units)
Up == pc \notin {"failed", "done", "undefined"}

LEMMA MappedIsNumbers ==
  ASSUME Types, StreamInv
  PROVE  Mapped = Numbers(Taken) /\ Taken \in Nat /\ produced \in Nat /\ Taken <= produced
<1>1. Units \in Seq(Cell) /\ Taken \in Nat /\ produced \in Nat
  BY UnitsType
<1>2. (\A i \in 1..Len(Units) : Units[i] = Data(ISN + i)) /\ Taken <= produced
  BY DEF StreamInv, Steady, Kept, Taken
<1>3. UnitNumbers(Units) = Numbers(Len(Units))
  BY <1>1, <1>2, UnitsAreNumbers
<1> QED BY <1>1, <1>2, <1>3 DEF Mapped, Taken

\* Three kinds of steps: the device sends, the host takes, and all the others,
\* after which the host may be down.
Takes == (\E h \in FrontHeaders : ParseFrame(h)) \/ RecvData
Rests == Units' = Units /\ UNCHANGED <<produced, missed>> /\ (Up \/ pc' = pc)

LEMMA StepKinds ==
  ASSUME Types, [Next]_vars
  PROVE  DevSend \/ Takes \/ Rests
<1> USE DEF Takes, Rests, Up, hostVars, devVars, Units
<1>1. CASE ConnectStep
  BY <1>1 DEF ConnectStep, FlushPoll, FlushEnd, SendSyn, SendHandshakeAck, DrainPoll, DrainEnd,
     ParseStop, ParseDropByte, ParseWild, ParseDuplicate, ParseReady
<1>2. CASE ReadStep
  BY <1>2 DEF ReadStep, ReadChunk, ReadFails, ReadHeader, HandshakeFrame, RecvControl, Reading
<1>3. CASE RecvStep \/ SendCall \/ CloseCall
  BY <1>3, PrebufHandedOut DEF RecvStep, RecvPrebuf, RecvCall, SendCall, CloseCall
<1>4. CASE DevStep
  BY <1>4 DEF DevStep, DevAccept, DevRefuse, DevRecv, DevFin, DevReset, DevPureAck,
     DevRetransmit, LateArrives
<1>5. CASE UNCHANGED vars
  BY <1>5 DEF vars
<1> QED BY <1>1, <1>2, <1>3, <1>4, <1>5 DEF Next

\* What the host has taken it keeps: a take only adds to it.
LEMMA TakesGrow ==
  ASSUME QuietLine, RoomEnough, Types, StreamInv, Types', Takes
  PROVE  Taken <= Taken' /\ produced' = produced /\ Up /\ Up'
<1>1. /\ delivered \in Seq(Cell) /\ prebuf \in Seq(Cell) /\ rx_buf \in Seq(Cell)
      /\ delivered' \in Seq(Cell) /\ prebuf' \in Seq(Cell)
  BY DEF Types
<1>2. /\ Len(delivered) \in Nat /\ Len(prebuf) \in Nat
      /\ Len(delivered') \in Nat /\ Len(prebuf') \in Nat
  BY <1>1, LenProperties
<1>3. Taken = Len(delivered) + Len(prebuf) /\ Taken' = Len(delivered') + Len(prebuf')
  BY <1>1, ConcatProperties DEF Taken, Units
<1>4. CASE \E h \in FrontHeaders : ParseFrame(h)
  <2>1. PICK h \in FrontHeaders : ParseFrame(h)
    BY <1>4
  <2>2. /\ UNCHANGED <<pc, delivered, produced>> /\ pc = "parse" /\ ParseReady(h)
        /\ prebuf' = prebuf \/ prebuf' = prebuf \o PayloadAfterMove(h)
    BY <2>1 DEF ParseFrame, ParseReady, devVars
  <2>3. Len(prebuf) <= Len(prebuf')
    <3>1. CASE prebuf' = prebuf
      BY <1>2, <3>1
    <3>2. CASE prebuf' = prebuf \o PayloadAfterMove(h)
      <4>1. PayloadAfterMove(h) \in Seq(Cell)
        BY <2>2, PayloadType
      <4>2. /\ Len(PayloadAfterMove(h)) \in Nat
            /\ Len(prebuf') = Len(prebuf) + Len(PayloadAfterMove(h))
        BY <1>1, <3>2, <4>1, LenProperties, ConcatProperties
      <4> QED BY <1>2, <4>2
    <3> QED BY <2>2, <3>1, <3>2
  <2> QED BY <1>2, <1>3, <2>2, <2>3 DEF Up
<1>5. CASE RecvData
  <2>1. UNCHANGED <<prebuf, produced>> /\ pc = "recv" /\ pc' = "idle"
    BY <1>5 DEF RecvData, devVars
  <2>2. PICK n \in 1..MaxPay : n = Need
    BY <1>5, PayloadTaken
  <2>3. Len(delivered') = Len(delivered) + n /\ MaxPay \in Nat
    BY <1>5, <2>2, PayloadTaken, ConstantsAssumption
  <2>4. Taken <= Taken'
    BY <1>2, <1>3, <2>1, <2>3
  <2> QED BY <2>1, <2>4 DEF Up
<1> QED BY <1>4, <1>5 DEF Takes

\* What a take adds to missed: the last units of a frame for which the buffer
\* of session_recv, of a size that callers pass, has no room, and nothing when
\* a frame is put in prebuf.
LEMMA TakesMiss ==
  ASSUME Types, StreamInv, HandInv, Takes, NEW n \in Nat, Taken' = Taken + n, n <= produced
  PROVE  \E r \in BufSizes \cup {produced} :
             missed' = missed \cup {Taken + i : i \in (r + 1)..n}
<1>1. produced \in Nat
  BY DEF Types
<1>2. CASE \E h \in FrontHeaders : ParseFrame(h)
  <2>1. missed' = missed
    BY <1>2 DEF ParseFrame
  <2>2. (produced + 1)..n = {}
    BY <1>1
  <2>3. {Taken + i : i \in (produced + 1)..n} = {}
    BY <2>2
  <2> QED BY <2>1, <2>3
<1>3. CASE RecvData
  <2>1. /\ missed' = missed \cup {Len(delivered) + i : i \in (bufsz + 1)..Need}
        /\ prebuf = <<>> /\ prebuf' = prebuf /\ bufsz \in BufSizes
    BY <1>3 DEF RecvData, StreamInv, Streaming, HandInv
  <2>2. delivered \in Seq(Cell) /\ delivered' \in Seq(Cell)
    <3>1. delivered' = delivered \o Payload /\ Payload \in Seq(Cell)
      BY <1>3, PayloadTaken DEF RecvData
    <3>2. delivered \in Seq(Cell)
      BY DEF Types
    <3> QED BY <3>1, <3>2, ConcatProperties
  <2>3. Units = delivered /\ Units' = delivered'
    BY <2>1, <2>2, ConcatEmptySeq DEF Units
  <2>4. Taken = Len(delivered) /\ Taken' = Len(delivered')
    BY <2>3 DEF Taken
  <2>5. PICK m \in 1..MaxPay : m = Need
    BY <1>3, PayloadTaken
  <2>6. n = m
    <3>1. Taken' = Taken + m /\ Taken \in Nat /\ MaxPay \in Nat
      BY <1>3, <2>4, <2>5, PayloadTaken, ConstantsAssumption
    <3> QED BY <3>1
  <2>7. missed' = missed \cup {Taken + i : i \in (bufsz + 1)..n}
    BY <2>1, <2>4, <2>5, <2>6
  <2> QED BY <2>1, <2>7
<1> QED BY <1>2, <1>3 DEF Takes

\* A take is a run of the abstract reader: as many units as it adds, and room
\* for as many as the caller's buffer has.
LEMMA TakesRun ==
  ASSUME QuietLine, RoomEnough, Types, StreamInv, HandInv, Types', StreamInv', Takes
  PROVE  /\ UNCHANGED <<produced, Up>> /\ Up
         /\ \/ UNCHANGED <<Mapped, missed>>
            \/ \E n \in 1..(produced - Len(Mapped)), r \in BufSizes \cup {produced} :
                  /\ Mapped' = Mapped \o [i \in 1..n |-> Len(Mapped) + i]
                  /\ missed' = missed \cup {Len(Mapped) + i : i \in (r + 1)..n}
<1>1. Taken <= Taken' /\ produced' = produced /\ Up /\ Up'
  BY TakesGrow
<1>2. Up' = Up
  BY <1>1 DEF Up
<1>3. Mapped = Numbers(Taken) /\ Taken \in Nat /\ produced \in Nat
  BY MappedIsNumbers
<1>4. Mapped' = Numbers(Taken') /\ Taken' \in Nat /\ Taken' <= produced'
  <2>1. Units' \in Seq(Cell) /\ Taken' \in Nat
    <3>1. delivered' \in Seq(Cell) /\ prebuf' \in Seq(Cell)
      BY DEF Types
    <3> QED BY <3>1, ConcatProperties, LenProperties DEF Units, Taken
  <2>2. (\A i \in 1..Len(Units') : Units'[i] = Data(ISN + i)) /\ Taken' <= produced'
    BY DEF StreamInv, Steady, Kept, Taken
  <2>3. UnitNumbers(Units') = Numbers(Len(Units'))
    BY <2>1, <2>2, UnitsAreNumbers
  <2> QED BY <2>1, <2>2, <2>3 DEF Mapped, Taken
<1>5. PICK t \in Nat : t = Taken
  BY <1>3
<1>6. PICK n \in Nat : Taken' = t + n
  <2>1. PICK e \in Nat : e = Taken'
    BY <1>4
  <2>2. t <= e
    BY <1>1, <1>5, <2>1
  <2>3. e - t \in Nat /\ e = t + (e - t)
    BY <2>2
  <2> QED BY <2>1, <2>3
<1>7. Mapped = Numbers(t) /\ Mapped' = Numbers(t + n) /\ Len(Mapped) = t
  BY <1>3, <1>4, <1>5, <1>6, NumbersType
<1>8. Mapped' = Mapped \o [i \in 1..n |-> Len(Mapped) + i]
  BY <1>7, NumbersGrow
<1>9. t + n <= produced /\ n <= produced
  BY <1>1, <1>3, <1>4, <1>6
<1>10. PICK r \in BufSizes \cup {produced} :
          missed' = missed \cup {Len(Mapped) + i : i \in (r + 1)..n}
  BY <1>5, <1>6, <1>7, <1>9, TakesMiss
<1>11. CASE n = 0
  <2>1. r \in Nat
    BY <1>3, ConstantsAssumption
  <2>2. (r + 1)..n = {}
    BY <1>11, <2>1
  <2>3. missed' = missed
    BY <1>10, <2>2
  <2>4. Mapped' = Mapped
    BY <1>7, <1>11
  <2> QED BY <1>1, <1>2, <2>3, <2>4
<1>12. CASE n # 0
  <2>1. n \in 1..(produced - Len(Mapped))
    BY <1>3, <1>7, <1>9, <1>12
  <2> QED BY <1>1, <1>2, <1>8, <1>10, <2>1
<1> QED BY <1>11, <1>12

\* Every step of the session is one of the stream, or leaves it alone.
LEMMA StreamSimulates ==
  ASSUME QuietLine, RoomEnough, Types, StreamInv, HandInv, Types', StreamInv', [Next]_vars
  PROVE  [Stream!Next]_(Stream!vars)
<1> USE DEF Stream!vars
<1>1. CASE DevSend
  <2>1. PICK n \in 1..MaxPay : produced + n <= StreamLen /\ produced' = produced + n
    BY <1>1 DEF DevSend
  <2>2. UNCHANGED <<delivered, prebuf, missed, pc>>
    BY <1>1 DEF DevSend, hostVars
  <2>3. produced' \in (produced + 1)..StreamLen
    <3>1. MaxPay \in Nat /\ StreamLen \in Nat
      BY ConstantsAssumption
    <3>2. produced \in Nat
      BY DEF Types
    <3> QED BY <2>1, <3>1, <3>2
  <2>4. UNCHANGED <<Mapped, missed, Up>>
    BY <2>2 DEF Mapped, UnitNumbers, Units, Up
  <2> QED BY <2>3, <2>4 DEF Stream!Next, Stream!Produce, Mapped, UnitNumbers, Up
<1>2. CASE Takes
  <2>1. /\ UNCHANGED <<produced, Up>> /\ Up
        /\ \/ UNCHANGED <<Mapped, missed>>
           \/ \E n \in 1..(produced - Len(Mapped)), r \in BufSizes \cup {produced} :
                 /\ Mapped' = Mapped \o [i \in 1..n |-> Len(Mapped) + i]
                 /\ missed' = missed \cup {Len(Mapped) + i : i \in (r + 1)..n}
    BY <1>2, TakesRun
  <2> QED BY <2>1, Zenon DEF Stream!Next, Stream!TakeRun, Mapped, UnitNumbers, Up
<1>3. CASE Rests
  <2>1. UNCHANGED <<Mapped, produced, missed>>
    BY <1>3 DEF Rests, Mapped, UnitNumbers
  <2>2. CASE UNCHANGED Up
    BY <2>1, <2>2 DEF Mapped, UnitNumbers, Up
  <2>3. CASE Up /\ ~Up'
    BY <2>1, <2>3 DEF Mapped, UnitNumbers, Up, Stream!Next, Stream!GoDown
  <2>4. (Up /\ ~Up') \/ UNCHANGED Up
    BY <1>3 DEF Rests, Up
  <2> QED BY <2>2, <2>3, <2>4
<1> QED BY <1>1, <1>2, <1>3, StepKinds

\* The session is a reliable stream, in the safety part of ImplementsStream:
\* whatever session_connect, session_recv and the device do, the caller gets
\* the units that the service has sent, in order, each once and none missing
\* but those for which its own buffer had no room, until the host gives up.
THEOREM SessionIsStream ==
  ASSUME QuietLine, RoomEnough
  PROVE  Spec => Stream!Spec
<1>1. Init => Stream!Init
  <2>1. ASSUME Init PROVE Stream!Init
    <3>1. Units = <<>> /\ produced = 0 /\ missed = {} /\ pc = "flush"
      BY <2>1, ConcatEmptySeq, EmptySeq DEF Init, Units
    <3>2. Mapped = <<>>
      BY <3>1, EmptySeq DEF Mapped, UnitNumbers
    <3> QED BY <3>1, <3>2 DEF Stream!Init, Mapped, UnitNumbers
  <2> QED BY <2>1
<1>2. (Types /\ StreamInv /\ HandInv) /\ (Types /\ StreamInv /\ HandInv)' /\ [Next]_vars
      => [Stream!Next]_(Stream!vars)
  BY StreamSimulates
<1> QED BY <1>1, <1>2, StreamAlways, HandAlways, PTL DEF Spec, Stream!Spec
=============================================================================
