-------------------------- MODULE MuxSessionProofs --------------------------
(* Theorems about MuxSession, for every value of its constants.            *)
EXTENDS MuxSession, SequenceTheorems, FiniteSetTheorems, TLAPS

-----------------------------------------------------------------------------
(* Lemmas on cells and sequences.                                          *)

\* A part of a sequence is a sequence over the same set: what the buffers
\* keep after a transfer or a frame is taken off.
LEMMA PartOfSeq ==
  ASSUME NEW S, NEW s \in Seq(S), NEW a \in Nat \ {0}, NEW b \in Nat, b <= Len(s)
  PROVE  SubSeq(s, a, b) \in Seq(S)
  BY SMT

\* A non-empty sequence has its head in the set and its tail over it.
LEMMA TailOfSeq ==
  ASSUME NEW S, NEW s \in Seq(S), s # <<>>
  PROVE  Tail(s) \in Seq(S) /\ Head(s) \in S
  BY SMT

\* A function on 1..n is a sequence.
LEMMA FunctionIsSeq ==
  ASSUME NEW S, NEW n \in Nat, NEW f \in [1..n -> S]
  PROVE  f \in Seq(S)
  BY SeqDef

\* Sequence numbers stay natural numbers, also when they wrap.
LEMMA AddType ==
  ASSUME NEW s \in Nat, NEW n \in Nat
  PROVE  Add(s, n) \in Nat
  BY ConstantsAssumption DEF Add

\* What the device writes for a frame is a sequence of cells.
LEMMA FrameCellsType ==
  ASSUME NEW h \in Cell
  PROVE  FrameCells(h) \in Seq(Cell)
<1> DEFINE body == [i \in 1..h.len |-> Data(Add(h.seq, i - 1))]
<1>1. h.len \in Nat /\ h.seq \in Nat
  BY ConstantsAssumption DEF Cell
<1>2. ASSUME NEW i \in 1..h.len PROVE Data(Add(h.seq, i - 1)) \in Cell
  <2>1. i - 1 \in Nat
    BY <1>1
  <2>2. Add(h.seq, i - 1) \in Nat
    BY <1>1, <2>1, AddType
  <2> QED BY <2>2, ConstantsAssumption DEF Data, Cell
<1>3. body \in [1..h.len -> Cell]
  BY <1>2
<1>4. body \in Seq(Cell)
  BY <1>1, <1>3, FunctionIsSeq
<1>5. <<h>> \in Seq(Cell)
  OBVIOUS
<1> QED BY <1>4, <1>5, ConcatProperties DEF FrameCells

\* The headers that the device writes are cells.
LEMMA HeaderType ==
  ASSUME NEW seq \in Nat, NEW flags \in SUBSET Flags, NEW n \in 0..MaxPay
  PROVE  Header(seq, flags, n) \in Cell
  BY DEF Header, Cell

\* rx_ack stays a natural number after a frame.
LEMMA AckType ==
  ASSUME NEW h, h.seq \in Nat, h.len \in Nat, rx_ack \in Nat
  PROVE  AckAfter(h) \in Nat
<1>1. h.seq \in Nat /\ Consumed(h) \in Nat
  BY DEF Consumed
<1>2. Add(h.seq, Consumed(h)) \in Nat
  BY <1>1, AddType
<1> QED BY <1>2 DEF AckAfter

\* One bulk transfer: rx_buf stays a sequence of cells, and so does the rest.
LEMMA TransferType ==
  ASSUME NEW S, in \in Seq(S), NEW k \in Transfers, Take(k)
  PROVE  in' \in Seq(S) /\ Chunk(k) \in Seq(S)
<1>1. k \in Nat \ {0} /\ k <= Len(in) /\ Len(in) \in Nat
  BY ConstantsAssumption DEF Transfers
<1>2. SubSeq(in, 1, k) \in Seq(S)
  BY <1>1, PartOfSeq
<1>3. SubSeq(in, k + 1, Len(in)) \in Seq(S)
  BY <1>1, PartOfSeq
<1> QED BY <1>2, <1>3 DEF Take, Chunk

\* usb_pipe_poll moves cells from the endpoint to rx_buf, or drops them.
LEMMA PollType ==
  ASSUME NEW S, in \in Seq(S), rx_buf \in Seq(S), NEW k \in Transfers, Poll(k)
  PROVE  in' \in Seq(S) /\ rx_buf' \in Seq(S)
<1>1. in' \in Seq(S) /\ Chunk(k) \in Seq(S)
  BY TransferType DEF Poll
<1>2. rx_buf \o Chunk(k) \in Seq(S)
  BY <1>1, ConcatProperties
<1> QED BY <1>1, <1>2 DEF Poll

\* Spending a fault keeps the bounds natural numbers.
LEMMA SpendType ==
  ASSUME NEW f \in FaultNames, budget \in [FaultNames -> Nat], Spend(f)
  PROVE  budget' \in [FaultNames -> Nat]
<1>1. budget[f] \in Nat /\ budget[f] > 0
  BY DEF Spend
<1>2. budget[f] - 1 \in Nat
  BY <1>1
<1> QED BY <1>2 DEF Spend

\* Sending keeps the types of what the host sends from.
LEMMA SendType ==
  ASSUME Types, NEW flags \in SUBSET Flags, NEW n \in 0..MaxPay, NEW ack \in Nat,
         SendOrFail(flags, n, ack)
  PROVE  /\ tx_seq' \in Nat /\ out' \in Seq(Segment)
         /\ budget' \in [FaultNames -> Nat] /\ reached' \in BOOLEAN
<1>0. Frame(flags, n, ack) \in Segment
  BY DEF Types, Segment, Frame
<1>1. CASE SendFrame(flags, n, ack)
  <2>1. TxSpace(flags, n) \in Nat
    BY ConstantsAssumption DEF TxSpace
  <2>2. Add(tx_seq, TxSpace(flags, n)) \in Nat
    BY <2>1, AddType DEF Types
  <2> QED BY <1>0, <1>1, <2>2, AppendProperties DEF SendFrame, Types
<1>2. CASE WriteFails(flags, n, ack)
  <2>1. budget' \in [FaultNames -> Nat]
    BY <1>2, SpendType DEF WriteFails, FaultNames, Types
  <2>2. /\ tx_seq' = tx_seq
        /\ (out' = out /\ reached' = reached)
              \/ (out' = Append(out, Frame(flags, n, ack)) /\ reached' = TRUE)
    BY <1>2 DEF WriteFails
  <2>3. out' \in Seq(Segment)
    <3>1. out \in Seq(Segment)
      BY DEF Types
    <3>2. out' = out \/ out' = Append(out, Frame(flags, n, ack))
      BY <2>2
    <3> QED BY <1>0, <3>1, <3>2, AppendProperties
  <2>4. reached' \in BOOLEAN
    <3>1. reached \in BOOLEAN
      BY DEF Types
    <3>2. reached' = reached \/ reached' = TRUE
      BY <2>2
    <3> QED BY <3>1, <3>2, Zenon
  <2>5. tx_seq' \in Nat
    BY <2>2 DEF Types
  <2> QED BY <2>1, <2>3, <2>4, <2>5
<1> QED BY <1>1, <1>2 DEF SendOrFail

\* The control frames of the code: SYN, ACK and FIN|ACK, without payload.
LEMMA ControlType ==
  ASSUME Types, NEW flags \in {{"SYN"}, {"ACK"}, {"FIN", "ACK"}}, NEW ack \in Nat,
         SendOrFail(flags, 0, ack)
  PROVE  /\ tx_seq' \in Nat /\ out' \in Seq(Segment)
         /\ budget' \in [FaultNames -> Nat] /\ reached' \in BOOLEAN
<1>1. flags \in SUBSET Flags
  BY DEF Flags
<1>2. 0 \in 0..MaxPay
  BY ConstantsAssumption
<1> QED BY <1>1, <1>2, SendType

-----------------------------------------------------------------------------
(* Type correctness.                                                       *)

\* The initial state has its types.
LEMMA InitType == Init => Types
<1> SUFFICES ASSUME Init PROVE Types
  OBVIOUS
<1>1. in \in Seq(Cell)
  <2>1. Stale \subseteq Seq(Cell)
    BY ConstantsAssumption
  <2>2. <<>> \in Seq(Cell)
    OBVIOUS
  <2>3. in \in Stale \cup {<<>>}
    BY DEF Init
  <2> QED BY <2>1, <2>2, <2>3
<1>2. late \in Nat /\ budget \in [FaultNames -> Nat]
  BY ConstantsAssumption DEF Init
<1>3. misread \in BOOLEAN /\ reached \in BOOLEAN /\ missed \subseteq Nat
  BY DEF Init
<1> QED BY <1>1, <1>2, <1>3, ConstantsAssumption DEF Init, Types

\* What the reader takes for a header has its fields, and is a cell where it
\* is not longer than a frame may be.
LEMMA FrontType ==
  ASSUME Types, NEW h \in FrontHeaders
  PROVE  /\ rx_buf # <<>> /\ h.hdr /\ h.seq \in Nat /\ h.len \in Nat
         /\ h.flags \in SUBSET Flags
         /\ h.len <= MaxPay => h \in Cell
<1>1. CASE rx_buf # <<>> /\ Head(rx_buf).hdr /\ h = Head(rx_buf)
  <2>1. h \in Cell /\ h.hdr
    BY <1>1, TailOfSeq DEF Types
  <2> QED BY <1>1, <2>1, ConstantsAssumption DEF Cell
<1>2. CASE MayMisread /\ h \in Misreads
  <2>1. h \in WildHeader
    BY <1>2, ConstantsAssumption
  <2>2. h.hdr /\ h.seq \in Nat /\ h.len \in Nat /\ h.flags \in SUBSET Flags
    BY <2>1 DEF WildHeader
  <2>3. ASSUME h.len <= MaxPay PROVE h \in Cell
    <3>1. h.len \in 0..MaxPay
      BY <2>2, <2>3, ConstantsAssumption
    <3> QED BY <2>1, <3>1 DEF WildHeader, Cell
  <2> QED BY <1>2, <2>2, <2>3 DEF MayMisread
<1> QED BY <1>1, <1>2 DEF FrontHeaders

\* A complete frame at the head of rx_buf: its header, what follows it and
\* what session_connect copies to prebuf have their types.
LEMMA PayloadType ==
  ASSUME Types, NEW h, ParseReady(h)
  PROVE  /\ h.seq \in Nat /\ h.len \in Nat /\ h.len < Len(rx_buf) /\ rx_buf # <<>>
         /\ AfterFrame(h) \in Seq(Cell) /\ PayloadAfterMove(h) \in Seq(Cell)
         /\ Len(PayloadAfterMove(h)) = h.len
<1>1. h \in FrontHeaders /\ h.len < Len(rx_buf)
  BY DEF ParseReady
<1> DEFINE n == h.len
<1>2. n \in Nat /\ n < Len(rx_buf) /\ h.seq \in Nat /\ rx_buf # <<>>
  BY <1>1, FrontType
<1>3. AfterFrame(h) \in Seq(Cell)
  BY <1>2, PartOfSeq DEF AfterFrame, Types
<1>4. ASSUME NEW i \in 1..n
      PROVE  (IF i + 1 <= Len(AfterFrame(h)) THEN AfterFrame(h)[i + 1] ELSE rx_buf[i + 1]) \in Cell
  <2>1. i + 1 \in 1..Len(rx_buf)
    BY <1>2 DEF Types
  <2>2. rx_buf[i + 1] \in Cell
    BY <2>1, ElementOfSeq DEF Types
  <2>3. i + 1 <= Len(AfterFrame(h)) => AfterFrame(h)[i + 1] \in Cell
    BY <1>3, ElementOfSeq
  <2> QED BY <2>2, <2>3
<1>5. PayloadAfterMove(h) \in [1..n -> Cell]
  BY <1>4 DEF PayloadAfterMove
<1>6. PayloadAfterMove(h) \in Seq(Cell) /\ Len(PayloadAfterMove(h)) = n
  BY <1>2, <1>5, FunctionIsSeq
<1> QED BY <1>2, <1>3, <1>6

\* The steps of session_connect outside its reads keep the types.
LEMMA ConnectType == Types /\ ConnectStep => Types'
<1> SUFFICES ASSUME Types, ConnectStep PROVE Types'
  OBVIOUS
<1> USE DEF hostVars, devVars
<1>1. CASE FlushPoll \/ DrainPoll
  <2>1. PICK k \in Transfers : Poll(k)
    BY <1>1 DEF FlushPoll, DrainPoll
  <2>2. in' \in Seq(Cell) /\ rx_buf' \in Seq(Cell)
    BY <2>1, PollType DEF Types
  <2> QED BY <1>1, <2>2 DEF FlushPoll, DrainPoll, Types
<1>2. CASE FlushEnd \/ DrainEnd
  <2>1. budget' \in [FaultNames -> Nat]
    BY <1>2, SpendType DEF FlushEnd, DrainEnd, PollNothing, FaultNames, Types
  <2>2. CASE FlushEnd
    BY <2>1, <2>2 DEF FlushEnd, Types
  <2>3. CASE DrainEnd
    BY <2>1, <2>3 DEF DrainEnd, Types
  <2> QED BY <1>2, <2>2, <2>3
<1>3. CASE SendSyn
  <2>1. rx_ack \in Nat
    BY DEF Types
  <2>2. SendOrFail({"SYN"}, 0, rx_ack)
    BY <1>3 DEF SendSyn, SendOrFail
  <2>3. tx_seq' \in Nat /\ out' \in Seq(Segment) /\ budget' \in [FaultNames -> Nat]
        /\ reached' \in BOOLEAN
    BY <2>1, <2>2, ControlType
  <2> QED BY <1>3, <2>3 DEF SendSyn, Types
<1>4. CASE SendHandshakeAck
  <2>1. rx_ack \in Nat
    BY DEF Types
  <2>2. SendOrFail({"ACK"}, 0, rx_ack)
    BY <1>4 DEF SendHandshakeAck, SendOrFail
  <2>3. tx_seq' \in Nat /\ out' \in Seq(Segment) /\ budget' \in [FaultNames -> Nat]
        /\ reached' \in BOOLEAN
    BY <2>1, <2>2, ControlType
  <2> QED BY <1>4, <2>3 DEF SendHandshakeAck, Types
<1>5. CASE ParseStop
  BY <1>5 DEF ParseStop, Types
<1>6. CASE ParseDropByte
  BY <1>6, TailOfSeq DEF ParseDropByte, MayMisread, Types
<1>7. CASE ParseWild
  BY <1>7 DEF ParseWild, Types
<1>8. ASSUME NEW h, ParseDuplicate(h) PROVE Types'
  <2>1. ParseReady(h) /\ rx_buf' = AfterFrame(h)
    BY <1>8 DEF ParseDuplicate
  <2>2. rx_buf' \in Seq(Cell) /\ misread' \in BOOLEAN
    BY <2>1, PayloadType DEF ParseReady, TakenAsHeader
  <2> QED BY <1>8, <2>2 DEF ParseDuplicate, Types
<1>9. ASSUME NEW h, ParseFrame(h) PROVE Types'
  <2>0. ParseReady(h) /\ misread' \in BOOLEAN
    BY <1>9 DEF ParseFrame, ParseReady, TakenAsHeader
  <2>1. /\ h.seq \in Nat /\ h.len \in Nat
        /\ AfterFrame(h) \in Seq(Cell) /\ PayloadAfterMove(h) \in Seq(Cell)
    BY <2>0, PayloadType
  <2>2. AckAfter(h) \in Nat
    BY <2>1, AckType DEF Types
  <2>3. tx_seq' \in Nat /\ out' \in Seq(Segment) /\ budget' \in [FaultNames -> Nat]
        /\ reached' \in BOOLEAN
    <3>1. CASE h.len > 0
      <4>1. SendOrFail({"ACK"}, 0, AckAfter(h))
        BY <1>9, <3>1 DEF ParseFrame
      <4> QED BY <4>1, <2>2, ControlType
    <3>2. CASE ~(h.len > 0)
      BY <1>9, <3>2 DEF ParseFrame, Types
    <3> QED BY <3>1, <3>2
  <2>4. prebuf' \in Seq(Cell)
    <3>1. prebuf \o PayloadAfterMove(h) \in Seq(Cell)
      BY <2>1, ConcatProperties DEF Types
    <3> QED BY <1>9, <3>1 DEF ParseFrame, Types
  <2> QED BY <1>9, <2>0, <2>1, <2>2, <2>3, <2>4 DEF ParseFrame, Types
<1> QED BY <1>1, <1>2, <1>3, <1>4, <1>5, <1>6, <1>7, <1>8, <1>9 DEF ConnectStep

\* A frame that session_recv_frame has read whole: its header, its payload,
\* and what it leaves in the buffer have their types.
LEMMA FrameReadType ==
  ASSUME Types, FrameRead
  PROVE  /\ Head(cur) \in Cell /\ Need \in 0..MaxPay /\ Payload \in Seq(Cell)
         /\ rx_buf' \in Seq(Cell) /\ rx_ack' \in Nat /\ cur' = <<>>
<1>1. Head(cur) \in Cell
  BY TailOfSeq DEF FrameRead, Types
<1>2. Need \in 0..MaxPay /\ Need = Head(cur).len
  BY <1>1 DEF FrameRead, Need, Cell
<1>3. Need \in Nat /\ Need <= Len(rx_buf) /\ Len(rx_buf) \in Nat
  <2>1. MaxPay \in Nat
    BY ConstantsAssumption
  <2>2. Len(rx_buf) \in Nat
    BY LenProperties DEF Types
  <2>3. Len(rx_buf) >= Need
    BY DEF FrameRead
  <2> QED BY <1>2, <2>1, <2>2, <2>3
<1>4. Payload \in Seq(Cell) /\ SubSeq(rx_buf, Need + 1, Len(rx_buf)) \in Seq(Cell)
  <2>1. Need + 1 \in Nat \ {0} /\ rx_buf \in Seq(Cell)
    BY <1>3 DEF Types
  <2> QED BY <1>3, <2>1, PartOfSeq DEF Payload
<1>5. AckAfter(Head(cur)) \in Nat
  <2>1. Head(cur).seq \in Nat /\ Head(cur).len \in Nat
    BY <1>1, ConstantsAssumption DEF Cell
  <2>2. rx_ack \in Nat
    BY DEF Types
  <2> QED BY <2>1, <2>2, AckType
<1> QED BY <1>1, <1>2, <1>4, <1>5 DEF FrameRead

\* The steps of a blocking read, and what is done with the frame, keep the types.
LEMMA ReadType == Types /\ ReadStep => Types'
<1> SUFFICES ASSUME Types, ReadStep PROVE Types'
  OBVIOUS
<1> USE DEF hostVars, devVars
<1>1. CASE ReadChunk
  <2>1. PICK k \in Transfers :
          /\ Take(k)
          /\ IF Len(rx_buf) + k > RxCap
             THEN pc' = AfterFailure /\ cur' = <<>> /\ UNCHANGED rx_buf
             ELSE rx_buf' = rx_buf \o Chunk(k) /\ UNCHANGED <<pc, cur>>
    BY <1>1 DEF ReadChunk
  <2>2. in' \in Seq(Cell) /\ Chunk(k) \in Seq(Cell)
    BY <2>1, TransferType DEF Types
  <2>3. rx_buf \o Chunk(k) \in Seq(Cell)
    BY <2>2, ConcatProperties DEF Types
  <2>4. /\ pc' = pc \/ pc' = "failed" \/ pc' = "idle"
        /\ cur' = cur \/ cur' = <<>>
        /\ rx_buf' \in Seq(Cell)
    BY <2>1, <2>3 DEF AfterFailure, Types
  <2>5. UNCHANGED <<tx_seq, rx_ack, prebuf, bufsz, delivered, missed, misread, devVars, out, budget, reached>>
    BY <1>1 DEF ReadChunk
  <2>6. cur' \in Seq(Cell) /\ Len(cur') <= 1
    <3>1. CASE cur' = cur
      BY <3>1 DEF Types
    <3>2. CASE cur' = <<>>
      BY <3>2
    <3> QED BY <2>4, <3>1, <3>2
  <2>7. pc' \in {"flush", "syn", "handshake", "ack", "drain", "parse", "idle", "recv", "failed",
             "done", "undefined"}
    BY <2>4 DEF Types
  <2> QED BY <2>2, <2>4, <2>5, <2>6, <2>7 DEF Types
<1>2. CASE ReadFails
  <2>1. budget' \in [FaultNames -> Nat]
    BY <1>2, SpendType DEF ReadFails, FaultNames, Types
  <2> QED BY <1>2, <2>1 DEF ReadFails, AfterFailure, Types
<1>3. CASE ReadHeader
  <2>1. Tail(rx_buf) \in Seq(Cell)
    BY <1>3, TailOfSeq DEF ReadHeader, Types
  <2>2. /\ pc' = pc \/ pc' = "failed" \/ pc' = "idle"
        /\ rx_buf' = Tail(rx_buf)
        /\ UNCHANGED <<tx_seq, rx_ack, prebuf, bufsz, delivered, missed, devVars, in, out, budget,
                       reached>>
    BY <1>3 DEF ReadHeader, AfterFailure
  <2>3. pc' \in {"flush", "syn", "handshake", "ack", "drain", "parse", "idle", "recv", "failed",
             "done", "undefined"}
    BY <2>2 DEF Types
  <2>4. cur' \in Seq(Cell) /\ Len(cur') <= 1 /\ misread' \in BOOLEAN
    <3>1. CASE UNCHANGED cur /\ misread' = TRUE
      BY <3>1 DEF Types
    <3>2. ASSUME NEW h \in FrontHeaders, h.len <= MaxFrame, cur' = <<h>>, TakenAsHeader(h)
          PROVE  cur' \in Seq(Cell) /\ Len(cur') <= 1 /\ misread' \in BOOLEAN
      <4>1. h \in Cell
        BY <3>2, FrontType DEF MaxFrame
      <4> QED BY <3>2, <4>1 DEF TakenAsHeader
    <3> QED BY <1>3, <3>1, <3>2 DEF ReadHeader
  <2> QED BY <2>1, <2>2, <2>3, <2>4 DEF Types
<1>4. CASE HandshakeFrame
  <2>1. rx_buf' \in Seq(Cell) /\ rx_ack' \in Nat /\ cur' = <<>>
    BY <1>4, FrameReadType DEF HandshakeFrame
  <2>2. pc' \in {"failed", "ack", "handshake"}
    <3> DEFINE f == Head(cur).flags
    <3>1. CASE "RST" \in f
      BY <1>4, <3>1 DEF HandshakeFrame
    <3>2. CASE "RST" \notin f /\ {"SYN", "ACK"} \subseteq f
      BY <1>4, <3>2 DEF HandshakeFrame
    <3>3. CASE "RST" \notin f /\ ~({"SYN", "ACK"} \subseteq f)
      BY <1>4, <3>3 DEF HandshakeFrame
    <3> QED BY <3>1, <3>2, <3>3
  <2> QED BY <1>4, <2>1, <2>2 DEF HandshakeFrame, Types
<1>5. CASE RecvControl
  <2>1. rx_buf' \in Seq(Cell) /\ rx_ack' \in Nat /\ cur' = <<>>
    BY <1>5, FrameReadType DEF RecvControl
  <2>2. tx_seq' \in Nat /\ out' \in Seq(Segment) /\ budget' \in [FaultNames -> Nat]
        /\ reached' \in BOOLEAN
    <3>1. CASE UNCHANGED <<tx_seq, out, budget, reached>>
      BY <3>1 DEF Types
    <3>2. CASE SendOrFail({"FIN", "ACK"}, 0, rx_ack')
      BY <2>1, <3>2, ControlType
    <3> QED BY <1>5, <3>1, <3>2 DEF RecvControl
  <2> QED BY <1>5, <2>1, <2>2 DEF RecvControl, Types
<1>6. CASE RecvData
  <2>1. /\ rx_buf' \in Seq(Cell) /\ rx_ack' \in Nat /\ cur' = <<>>
        /\ Need \in 0..MaxPay /\ Payload \in Seq(Cell)
    BY <1>6, FrameReadType DEF RecvData
  <2>2. tx_seq' \in Nat /\ out' \in Seq(Segment) /\ budget' \in [FaultNames -> Nat]
        /\ reached' \in BOOLEAN
    BY <1>6, <2>1, ControlType DEF RecvData
  <2>3. delivered' \in Seq(Cell) /\ missed' \subseteq Nat
    <3>1. /\ delivered' = delivered \o Payload
          /\ missed' = missed \cup {Len(delivered) + i : i \in (bufsz + 1)..Need}
      BY <1>6 DEF RecvData
    <3>2. Len(delivered) \in Nat /\ bufsz \in Nat
      BY LenProperties DEF Types
    <3>3. \A i \in (bufsz + 1)..Need : Len(delivered) + i \in Nat
      BY <2>1, <3>2, ConstantsAssumption
    <3> QED BY <2>1, <3>1, <3>3, ConcatProperties DEF Types
  <2>4. pc' = "idle" /\ UNCHANGED <<prebuf, bufsz, misread, devVars, in>>
    BY <1>6 DEF RecvData
  <2> QED BY <2>1, <2>2, <2>3, <2>4 DEF Types
<1> QED BY <1>1, <1>2, <1>3, <1>4, <1>5, <1>6 DEF ReadStep

\* The calls of session_recv, session_send_frame and session_close keep the types.
LEMMA CallerType == Types /\ (RecvStep \/ SendCall \/ CloseCall) => Types'
<1> SUFFICES ASSUME Types, RecvStep \/ SendCall \/ CloseCall PROVE Types'
  OBVIOUS
<1> USE DEF hostVars, devVars
<1>1. CASE RecvPrebuf
  <2>1. PICK b \in BufSizes :
          /\ delivered' = delivered \o SubSeq(prebuf, 1, Least(Len(prebuf), b))
          /\ prebuf' = SubSeq(prebuf, Least(Len(prebuf), b) + 1, Len(prebuf))
    BY <1>1 DEF RecvPrebuf
  <2> DEFINE n == Least(Len(prebuf), b)
  <2>2. n \in Nat /\ n <= Len(prebuf) /\ n + 1 \in Nat \ {0} /\ Len(prebuf) \in Nat
    <3>1. b \in Nat
      BY ConstantsAssumption
    <3>2. Len(prebuf) \in Nat
      BY LenProperties DEF Types
    <3> QED BY <3>1, <3>2 DEF Least
  <2>3. SubSeq(prebuf, 1, n) \in Seq(Cell) /\ SubSeq(prebuf, n + 1, Len(prebuf)) \in Seq(Cell)
    <3> HIDE DEF n
    <3> QED BY <2>2, PartOfSeq DEF Types
  <2>4. delivered' \in Seq(Cell) /\ prebuf' \in Seq(Cell)
    BY <2>1, <2>3, ConcatProperties DEF Types
  <2> QED BY <1>1, <2>4 DEF RecvPrebuf, Types
<1>2. CASE RecvCall
  BY <1>2, ConstantsAssumption DEF RecvCall, Types
<1>3. CASE SendCall
  <2>1. PICK n \in 1..MaxPay : SendOrFail({"ACK"}, n, rx_ack)
    BY <1>3 DEF SendCall
  <2>2. {"ACK"} \in SUBSET Flags /\ n \in 0..MaxPay
    BY ConstantsAssumption DEF Flags
  <2>3. rx_ack \in Nat
    BY DEF Types
  <2>4. tx_seq' \in Nat /\ out' \in Seq(Segment) /\ budget' \in [FaultNames -> Nat]
        /\ reached' \in BOOLEAN
    BY <2>1, <2>2, <2>3, SendType
  <2> QED BY <1>3, <2>4 DEF SendCall, Types
<1>4. CASE CloseCall
  <2>1. rx_ack \in Nat
    BY DEF Types
  <2>2. tx_seq' \in Nat /\ out' \in Seq(Segment) /\ budget' \in [FaultNames -> Nat]
        /\ reached' \in BOOLEAN
    BY <1>4, <2>1, ControlType DEF CloseCall
  <2> QED BY <1>4, <2>2 DEF CloseCall, Types
<1> QED BY <1>1, <1>2, <1>3, <1>4 DEF RecvStep

\* A frame that the device sends and remembers keeps the types.
LEMMA EmitType ==
  ASSUME Types, NEW seq \in Nat, NEW flags \in SUBSET Flags, NEW n \in 0..MaxPay,
         Emit(Header(seq, flags, n))
  PROVE  in' \in Seq(Cell) /\ sent' \subseteq Cell /\ snd_nxt' \in Nat
<1> DEFINE h == Header(seq, flags, n)
<1>1. h \in Cell
  BY HeaderType
<1>2. h.seq \in Nat /\ Consumed(h) \in Nat
  BY <1>1, ConstantsAssumption DEF Cell, Consumed
<1> HIDE DEF h
<1>3. FrameCells(h) \in Seq(Cell)
  BY <1>1, FrameCellsType
<1>4. Add(h.seq, Consumed(h)) \in Nat
  BY <1>2, AddType
<1>5. in \o FrameCells(h) \in Seq(Cell)
  BY <1>3, ConcatProperties DEF Types
<1> QED BY <1>1, <1>4, <1>5 DEF Emit, Types, h

\* A frame without payload may follow what is on the wire.
LEMMA ControlFrameType ==
  ASSUME Types, NEW seq \in Nat, NEW flags \in SUBSET Flags
  PROVE  in \o FrameCells(Header(seq, flags, 0)) \in Seq(Cell)
<1>1. Header(seq, flags, 0) \in Cell
  BY HeaderType, ConstantsAssumption
<1>2. FrameCells(Header(seq, flags, 0)) \in Seq(Cell)
  BY <1>1, FrameCellsType
<1> QED BY <1>2, ConcatProperties DEF Types

\* Every step of the device keeps the types.
LEMMA DevType == Types /\ DevStep => Types'
<1> SUFFICES ASSUME Types, DevStep PROVE Types'
  OBVIOUS
<1> USE DEF hostVars, devVars
<1>0. /\ \A f \in {{"SYN", "ACK"}, {"RST", "ACK"}, {"ACK"}, {"FIN", "ACK"}} : f \in SUBSET Flags
      /\ ISN \in Nat /\ snd_nxt \in Nat /\ 0 \in Nat /\ 0 \in 0..MaxPay
  BY ConstantsAssumption DEF Flags, Types
<1>1. ASSUME out # <<>>
      PROVE Head(out) \in Segment /\ Tail(out) \in Seq(Segment)
  BY <1>1, TailOfSeq DEF Types
<1>2. CASE DevAccept
  <2>1. in' \in Seq(Cell) /\ sent' \subseteq Cell /\ snd_nxt' \in Nat
    BY <1>0, <1>2, EmitType DEF DevAccept
  <2>2. Head(out).seq \in Nat /\ out' \in Seq(Segment)
    BY <1>1, <1>2 DEF DevAccept, Segment
  <2>3. rcv_nxt' \in Nat
    BY <1>2, <2>2, AddType DEF DevAccept
  <2> QED BY <1>2, <2>1, <2>2, <2>3 DEF DevAccept, Types
<1>3. CASE DevRefuse
  <2>1. in' \in Seq(Cell)
    BY <1>0, <1>3, ControlFrameType DEF DevRefuse
  <2> QED BY <1>1, <1>3, <2>1 DEF DevRefuse, Types
<1>4. CASE DevRecv
  <2> DEFINE f == Head(out)
  <2>1. f \in Segment /\ out' \in Seq(Segment)
    BY <1>1, <1>4 DEF DevRecv
  <2>2. f.ack \in Nat /\ f.seq \in Nat /\ TxSpace(f.flags, f.len) \in Nat
    BY <2>1, ConstantsAssumption DEF Segment, TxSpace
  <2>3. Add(f.seq, TxSpace(f.flags, f.len)) \in Nat
    BY <2>2, AddType
  <2>4. snd_una' \in {f.ack, snd_una} /\ rcv_nxt' \in {Add(f.seq, TxSpace(f.flags, f.len)), rcv_nxt}
        /\ dstate' \in {"closed", dstate}
    BY <1>4 DEF DevRecv
  <2>5. UNCHANGED <<pc, hostVars, snd_nxt, produced, sent, late, in, budget, reached>>
    BY <1>4 DEF DevRecv
  <2> QED BY <2>1, <2>2, <2>3, <2>4, <2>5 DEF Types
<1>5. CASE DevSend
  <2>1. PICK n \in 1..MaxPay : produced' = produced + n /\ Emit(Header(snd_nxt, {"ACK"}, n))
    BY <1>5 DEF DevSend
  <2>2. n \in 0..MaxPay /\ n \in Nat
    BY ConstantsAssumption
  <2>3. in' \in Seq(Cell) /\ sent' \subseteq Cell /\ snd_nxt' \in Nat
    BY <1>0, <2>1, <2>2, EmitType
  <2>4. produced' \in Nat
    BY <2>1, <2>2 DEF Types
  <2> QED BY <1>5, <2>3, <2>4 DEF DevSend, Types
<1>6. CASE DevFin
  <2>1. in' \in Seq(Cell) /\ sent' \subseteq Cell /\ snd_nxt' \in Nat
    BY <1>0, <1>6, EmitType DEF DevFin
  <2> QED BY <1>6, <2>1 DEF DevFin, Types
<1>7. CASE DevReset
  <2>1. in' \in Seq(Cell)
    BY <1>0, <1>7, ControlFrameType DEF DevReset
  <2> QED BY <1>7, <2>1 DEF DevReset, Types
<1>8. CASE DevPureAck
  <2>1. in' \in Seq(Cell)
    BY <1>0, <1>8, ControlFrameType DEF DevPureAck
  <2>2. budget' \in [FaultNames -> Nat]
    BY <1>8, SpendType DEF DevPureAck, FaultNames, Types
  <2> QED BY <1>8, <2>1, <2>2 DEF DevPureAck, Types
<1>9. CASE DevRetransmit
  <2>1. PICK h \in sent : in' = in \o FrameCells(h)
    BY <1>9 DEF DevRetransmit
  <2>2. FrameCells(h) \in Seq(Cell)
    BY FrameCellsType DEF Types
  <2>3. in' \in Seq(Cell)
    BY <2>1, <2>2, ConcatProperties DEF Types
  <2>4. budget' \in [FaultNames -> Nat]
    BY <1>9, SpendType DEF DevRetransmit, FaultNames, Types
  <2> QED BY <1>9, <2>3, <2>4 DEF DevRetransmit, Types
<1>10. CASE LateArrives
  <2>1. PICK t \in Stale : in' = in \o t
    BY <1>10 DEF LateArrives
  <2>2. in' \in Seq(Cell)
    BY <2>1, ConcatProperties, ConstantsAssumption DEF Types
  <2>3. late' \in Nat
    BY <1>10 DEF LateArrives, Types
  <2> QED BY <1>10, <2>2, <2>3 DEF LateArrives, Types
<1> QED BY <1>2, <1>3, <1>4, <1>5, <1>6, <1>7, <1>8, <1>9, <1>10 DEF DevStep

\* Init, the buffers: they are empty.
LEMMA InitFits == Init => BuffersFit
  BY ConstantsAssumption, FS_EmptySet DEF Init, BuffersFit

\* What is appended to rx_buf was measured first, what is taken off it only
\* makes it shorter.
LEMMA ReceiveFits ==
  ASSUME Types, BuffersFit, Next
  PROVE  Len(rx_buf') <= RxCap
<1> USE DEF hostVars, devVars
<1>0. rx_buf \in Seq(Cell) /\ Len(rx_buf) \in Nat /\ Len(rx_buf) <= RxCap /\ RxCap \in Nat
  BY LenProperties, ConstantsAssumption DEF Types, BuffersFit
<1>1. ASSUME NEW k \in Transfers, Len(rx_buf) + k <= RxCap
      PROVE  Len(rx_buf \o Chunk(k)) <= RxCap
  <2>1. k \in Nat /\ k <= Len(in) /\ in \in Seq(Cell)
    BY ConstantsAssumption DEF Transfers, Types
  <2>2. Chunk(k) \in Seq(Cell) /\ Len(Chunk(k)) = k
    BY <2>1 DEF Chunk
  <2> QED BY <1>0, <1>1, <2>1, <2>2, ConcatProperties
<1>2. CASE FlushPoll \/ DrainPoll
  <2>1. PICK k \in Transfers : Poll(k)
    BY <1>2 DEF FlushPoll, DrainPoll
  <2> QED BY <1>0, <1>1, <2>1 DEF Poll
<1>3. CASE ReadChunk
  <2>1. PICK k \in Transfers :
          /\ Len(rx_buf) + k > RxCap => UNCHANGED rx_buf
          /\ ~(Len(rx_buf) + k > RxCap) => rx_buf' = rx_buf \o Chunk(k)
    BY <1>3 DEF ReadChunk
  <2>2. k \in Nat
    BY ConstantsAssumption DEF Transfers
  <2> QED BY <1>0, <1>1, <2>1, <2>2
<1>4. CASE ParseDropByte \/ ReadHeader
  <2>1. rx_buf # <<>> /\ rx_buf' = Tail(rx_buf)
    BY <1>4 DEF ParseDropByte, ReadHeader, MayMisread
  <2>2. Len(Tail(rx_buf)) = Len(rx_buf) - 1
    BY <1>0, <2>1, HeadTailProperties
  <2> QED BY <1>0, <2>1, <2>2
<1>5. ASSUME NEW n \in Nat, n <= Len(rx_buf), rx_buf' = SubSeq(rx_buf, n + 1, Len(rx_buf))
      PROVE  Len(rx_buf') <= RxCap
  <2>1. Len(SubSeq(rx_buf, n + 1, Len(rx_buf))) = Len(rx_buf) - n
    BY <1>0, <1>5
  <2> QED BY <1>0, <1>5, <2>1
<1>6. ASSUME NEW h, ParseDuplicate(h) \/ ParseFrame(h) PROVE Len(rx_buf') <= RxCap
  <2>1. ParseReady(h) /\ rx_buf' = AfterFrame(h)
    BY <1>6 DEF ParseDuplicate, ParseFrame
  <2>2. h.len \in Nat /\ h.len < Len(rx_buf)
    BY <2>1, PayloadType
  <2>3. rx_buf' = SubSeq(rx_buf, h.len + 2, Len(rx_buf))
    BY <2>1 DEF AfterFrame
  <2>4. h.len + 1 \in Nat /\ h.len + 1 <= Len(rx_buf) /\ (h.len + 1) + 1 = h.len + 2
    BY <1>0, <2>2
  <2> QED BY <1>5, <2>3, <2>4
<1>7. CASE HandshakeFrame \/ RecvControl \/ RecvData
  <2>1. FrameRead
    BY <1>7 DEF HandshakeFrame, RecvControl, RecvData
  <2>2. Need \in Nat /\ Need <= Len(rx_buf)
    BY <1>0, <2>1, FrameReadType, ConstantsAssumption DEF FrameRead
  <2>3. rx_buf' = SubSeq(rx_buf, Need + 1, Len(rx_buf))
    BY <2>1 DEF FrameRead
  <2> QED BY <1>5, <2>2, <2>3
<1>8. CASE FlushEnd \/ ReadFails
  BY <1>0, <1>8 DEF FlushEnd, ReadFails
<1>9. CASE \/ SendSyn \/ SendHandshakeAck \/ DrainEnd \/ ParseStop \/ ParseWild \/ RecvPrebuf
           \/ RecvCall \/ SendCall \/ CloseCall \/ DevStep
  <2>1. UNCHANGED rx_buf
    BY <1>9 DEF SendSyn, SendHandshakeAck, DrainEnd, ParseStop, ParseWild, RecvPrebuf, RecvCall,
       SendCall, CloseCall, DevStep, DevAccept, DevRefuse, DevRecv, DevSend, DevFin, DevReset,
       DevPureAck, DevRetransmit, LateArrives
  <2> QED BY <1>0, <2>1
<1> QED BY <1>2, <1>3, <1>4, <1>6, <1>7, <1>8, <1>9 DEF Next, ConnectStep, ReadStep, RecvStep

\* Only the drain adds to prebuf and to the table of seen frames, and it looks
\* at their sizes first; session_recv only takes from prebuf.
LEMMA DrainFits ==
  ASSUME Types, BuffersFit, Next
  PROVE  Len(prebuf') <= PrebufCap /\ IsFiniteSet(seen') /\ Cardinality(seen') <= SeenCap
<1> USE DEF hostVars, devVars
<1>0. /\ prebuf \in Seq(Cell) /\ Len(prebuf) \in Nat /\ Len(prebuf) <= PrebufCap
      /\ PrebufCap \in Nat /\ SeenCap \in Nat
      /\ IsFiniteSet(seen) /\ Cardinality(seen) \in Nat /\ Cardinality(seen) <= SeenCap
  BY LenProperties, FS_CardinalityType, ConstantsAssumption DEF Types, BuffersFit
<1>1. CASE DrainEnd
  BY <1>0, <1>1, FS_EmptySet DEF DrainEnd
<1>2. ASSUME NEW h, ParseFrame(h)
      PROVE  Len(prebuf') <= PrebufCap /\ IsFiniteSet(seen') /\ Cardinality(seen') <= SeenCap
  <2>1. /\ ParseReady(h)
        /\ seen' = seen \/ (Cardinality(seen) < SeenCap /\ seen' = seen \cup {SeenKey(h)})
        /\ prebuf' = prebuf
           \/ (Len(prebuf) + h.len <= PrebufCap /\ prebuf' = prebuf \o PayloadAfterMove(h))
    BY <1>2 DEF ParseFrame
  <2>2. IsFiniteSet(seen') /\ Cardinality(seen') <= SeenCap
    <3>1. CASE seen' = seen
      BY <1>0, <3>1
    <3>2. CASE Cardinality(seen) < SeenCap /\ seen' = seen \cup {SeenKey(h)}
      <4>1. Cardinality(seen \cup {SeenKey(h)}) \in {Cardinality(seen), Cardinality(seen) + 1}
        BY <1>0, FS_AddElement
      <4> QED BY <1>0, <3>2, <4>1, FS_AddElement
    <3> QED BY <2>1, <3>1, <3>2
  <2>3. Len(prebuf') <= PrebufCap
    <3>1. CASE prebuf' = prebuf
      BY <1>0, <3>1
    <3>2. CASE Len(prebuf) + h.len <= PrebufCap /\ prebuf' = prebuf \o PayloadAfterMove(h)
      <4>1. PayloadAfterMove(h) \in Seq(Cell) /\ Len(PayloadAfterMove(h)) = h.len /\ h.len \in Nat
        BY <2>1, PayloadType
      <4> QED BY <1>0, <3>2, <4>1, ConcatProperties
    <3> QED BY <2>1, <3>1, <3>2
  <2> QED BY <2>2, <2>3
<1>3. CASE RecvPrebuf
  <2>1. PICK b \in BufSizes : prebuf' = SubSeq(prebuf, Least(Len(prebuf), b) + 1, Len(prebuf))
    BY <1>3 DEF RecvPrebuf
  <2> DEFINE n == Least(Len(prebuf), b)
  <2>2. n \in Nat /\ n <= Len(prebuf)
    BY <1>0, ConstantsAssumption DEF Least
  <2> HIDE DEF n
  <2>3. Len(SubSeq(prebuf, n + 1, Len(prebuf))) = Len(prebuf) - n
    BY <1>0, <2>2
  <2>4. UNCHANGED seen
    BY <1>3 DEF RecvPrebuf
  <2> QED BY <1>0, <2>1, <2>2, <2>3, <2>4 DEF n
<1>4. CASE \/ FlushPoll \/ FlushEnd \/ SendSyn \/ SendHandshakeAck \/ DrainPoll \/ ParseStop
           \/ ParseDropByte \/ ParseWild \/ (\E h : ParseDuplicate(h)) \/ ReadStep \/ RecvCall
           \/ SendCall \/ CloseCall \/ DevStep
  <2>1. UNCHANGED <<prebuf, seen>>
    BY <1>4 DEF FlushPoll, FlushEnd, SendSyn, SendHandshakeAck, DrainPoll, ParseStop,
       ParseDropByte, ParseWild, ParseDuplicate, ReadStep, ReadChunk, ReadFails, ReadHeader,
       HandshakeFrame,
       RecvControl, RecvData, RecvCall, SendCall, CloseCall, DevStep, DevAccept, DevRefuse,
       DevRecv, DevSend, DevFin, DevReset, DevPureAck, DevRetransmit, LateArrives
  <2> QED BY <1>0, <2>1
<1> QED BY <1>1, <1>2, <1>3, <1>4 DEF Next, ConnectStep, RecvStep

\* The parse loop moves memory outside its buffer only where it takes payload
\* for a header.
LEMMA WildIsMisread ==
  ASSUME Types, BuffersFit, Next
  PROVE  pc' = "undefined" => misread'
<1> USE DEF hostVars, devVars
<1>1. CASE ParseWild
  BY <1>1 DEF ParseWild
<1>2. CASE UNCHANGED <<pc, misread>>
  BY <1>2 DEF BuffersFit
<1>3. CASE pc' # "undefined"
  BY <1>3
<1>4. CASE ConnectStep /\ ~ParseWild
  <2>1. \/ FlushPoll \/ FlushEnd \/ SendSyn \/ SendHandshakeAck \/ DrainPoll \/ DrainEnd
        \/ ParseStop \/ ParseDropByte \/ \E h : ParseDuplicate(h) \/ ParseFrame(h)
    BY <1>4 DEF ConnectStep
  <2> QED BY <2>1, <1>3 DEF FlushPoll, FlushEnd, SendSyn, SendHandshakeAck, DrainPoll, DrainEnd,
         ParseStop, ParseDropByte, ParseDuplicate, ParseFrame, ParseReady
<1>5. CASE ReadStep
  <2>1. CASE ReadChunk \/ ReadFails \/ ReadHeader
    BY <1>3, <2>1 DEF ReadChunk, ReadFails, ReadHeader, Reading, AfterFailure
  <2>2. CASE HandshakeFrame \/ RecvControl \/ RecvData
    BY <1>3, <2>2 DEF HandshakeFrame, RecvControl, RecvData
  <2> QED BY <1>5, <2>1, <2>2 DEF ReadStep
<1>6. CASE RecvStep \/ SendCall \/ CloseCall
  BY <1>3, <1>6 DEF RecvStep, RecvPrebuf, RecvCall, SendCall, CloseCall
<1>7. CASE DevStep
  BY <1>2, <1>7 DEF DevStep, DevAccept, DevRefuse, DevRecv, DevSend, DevFin, DevReset,
     DevPureAck, DevRetransmit, LateArrives
<1> QED BY <1>1, <1>4, <1>5, <1>6, <1>7 DEF Next

\* Every variable keeps its type and every buffer its size, whatever the device
\* sends, whatever fails and however small the buffers are; the parse loop of
\* session_connect leaves its buffer only after payload was read as a header
\* (the length of 2^31 or more that mux.c compares as a negative number).
THEOREM TypeCorrect == Spec => []TypeOK
<1>1. Init => TypeOK
  BY InitType, InitFits DEF TypeOK
<1>2. TypeOK /\ [Next]_vars => TypeOK'
  <2>1. TypeOK /\ Next => TypeOK'
    <3> SUFFICES ASSUME TypeOK, Next PROVE TypeOK'
      OBVIOUS
    <3>1. Types'
      BY ConnectType, ReadType, CallerType, DevType DEF Next, TypeOK
    <3>2. BuffersFit'
      BY ReceiveFits, DrainFits, WildIsMisread DEF TypeOK, BuffersFit
    <3> QED BY <3>1, <3>2 DEF TypeOK
  <2>2. TypeOK /\ UNCHANGED vars => TypeOK'
    BY DEF TypeOK, Types, BuffersFit, vars, hostVars, devVars
  <2> QED BY <2>1, <2>2
<1> QED BY <1>1, <1>2, PTL DEF Spec

-----------------------------------------------------------------------------
(* Acknowledgements and the handshake.                                     *)

\* In a sound state no sequence number wraps, so a sound header moves rx_ack
\* at most to snd_nxt.
LEMMA SoundAck ==
  ASSUME NoWrap, IInv, ~misread, NEW h \in SoundCell, h.hdr
  PROVE  AckAfter(h) \in Nat /\ AckAfter(h) <= snd_nxt
<1>1. snd_nxt \in Nat /\ rx_ack \in Nat /\ rx_ack <= snd_nxt /\ produced \in Nat
  BY DEF IInv, Types, AckInv
<1>2. snd_nxt < SeqMod
  BY <1>1, ConstantsAssumption DEF NoWrap, IInv, DeviceSent
<1>3. h.seq \in Nat /\ Consumed(h) \in Nat
  BY ConstantsAssumption DEF SoundCell, Cell, Consumed
<1>4. Consumed(h) > 0 => h.seq + Consumed(h) <= snd_nxt
  BY DEF SoundCell
<1> QED BY <1>1, <1>2, <1>3, <1>4, ConstantsAssumption DEF AckAfter, Add

\* The device only ever sends more, and never takes back an acceptance.
LEMMA SoundGrows ==
  ASSUME snd_nxt \in Nat, snd_nxt' \in Nat, snd_nxt <= snd_nxt', Accepted => Accepted'
  PROVE  SoundCell \subseteq SoundCell' /\ SoundSegment \subseteq SoundSegment'
<1>1. ASSUME NEW c \in SoundCell PROVE c \in SoundCell'
  <2>1. c.seq \in Nat /\ Consumed(c) \in Nat
    BY ConstantsAssumption DEF SoundCell, Cell, Consumed
  <2> QED BY <2>1 DEF SoundCell
<1>2. ASSUME NEW f \in SoundSegment PROVE f \in SoundSegment'
  BY DEF SoundSegment, Segment
<1> QED BY <1>1, <1>2

\* A frame the device writes is sound when its header is.
LEMMA SoundFrame ==
  ASSUME NEW h \in SoundCell
  PROVE  FrameCells(h) \in Seq(SoundCell)
<1> DEFINE body == [i \in 1..h.len |-> Data(Add(h.seq, i - 1))]
<1>1. h.len \in Nat /\ h.seq \in Nat
  BY ConstantsAssumption DEF SoundCell, Cell
<1>2. ASSUME NEW i \in 1..h.len PROVE Data(Add(h.seq, i - 1)) \in SoundCell
  <2>1. i - 1 \in Nat
    BY <1>1
  <2>2. Add(h.seq, i - 1) \in Nat
    BY <1>1, <2>1, AddType
  <2> QED BY <2>2, ConstantsAssumption DEF Data, Cell, SoundCell
<1>3. body \in [1..h.len -> SoundCell]
  BY <1>2
<1>4. body \in Seq(SoundCell)
  BY <1>1, <1>3, FunctionIsSeq
<1>5. <<h>> \in Seq(SoundCell)
  OBVIOUS
<1> QED BY <1>4, <1>5, ConcatProperties DEF FrameCells

\* A frame without payload is its header alone.
LEMMA BareFrame ==
  ASSUME NEW S, NEW h \in S, h.len = 0
  PROVE  FrameCells(h) \in Seq(S)
<1> DEFINE body == [i \in 1..h.len |-> Data(Add(h.seq, i - 1))]
<1>1. 1..h.len = {}
  OBVIOUS
<1>2. body \in [1..h.len -> S]
  BY <1>1
<1>3. body \in Seq(S)
  BY <1>2, FunctionIsSeq
<1>4. <<h>> \in Seq(S)
  OBVIOUS
<1> QED BY <1>3, <1>4, ConcatProperties DEF FrameCells

\* Where a header lies at the front of the buffer and the reader is in step,
\* it is taken for nothing else; nor is payload then read as a header.
LEMMA InStep ==
  ASSUME rx_buf # <<>>, Head(rx_buf).hdr, ~misread
  PROVE  FrontHeaders = {Head(rx_buf)} /\ ~MayMisread
  BY DEF FrontHeaders, MayMisread

\* What was taken for a header is the first cell, as long as no payload was.
LEMMA TakenIsHeader ==
  ASSUME NEW h \in FrontHeaders, TakenAsHeader(h), ~misread'
  PROVE  ~misread /\ rx_buf # <<>> /\ h = Head(rx_buf)
  BY DEF FrontHeaders, MayMisread, TakenAsHeader

\* A frame the host sends carries rx_ack, or the value rx_ack is about to take.
LEMMA SoundSend ==
  ASSUME Types, NEW flags \in SUBSET Flags, NEW n \in 0..MaxPay, NEW ack \in Nat,
         SendOrFail(flags, n, ack)
  PROVE  /\ budget["poll"] = 0 => budget'["poll"] = 0
         /\ out \in Seq(SoundSegment) /\ ack <= snd_nxt => out' \in Seq(SoundSegment)
<1>1. budget["poll"] = 0 => budget'["poll"] = 0
  BY DEF SendOrFail, SendFrame, WriteFails, Spend, Types, FaultNames
<1>2. out' = out \/ out' = Append(out, Frame(flags, n, ack))
  BY DEF SendOrFail, SendFrame, WriteFails
<1>3. ASSUME out \in Seq(SoundSegment), ack <= snd_nxt PROVE out' \in Seq(SoundSegment)
  <2>1. Frame(flags, n, ack) \in SoundSegment
    BY <1>3 DEF Types, Segment, SoundSegment, Frame
  <2> QED BY <1>2, <1>3, <2>1, AppendProperties
<1> QED BY <1>1, <1>3

\* A control frame that acknowledges no more than rx_ack is sound.
LEMMA SoundControl ==
  ASSUME Types, NEW flags \in {{"SYN"}, {"ACK"}, {"FIN", "ACK"}}, NEW ack \in Nat,
         SendOrFail(flags, 0, ack)
  PROVE  /\ budget["poll"] = 0 => budget'["poll"] = 0
         /\ out \in Seq(SoundSegment) /\ ack <= snd_nxt => out' \in Seq(SoundSegment)
<1>1. flags \in SUBSET Flags /\ 0 \in 0..MaxPay
  BY ConstantsAssumption DEF Flags
<1> QED BY <1>1, SoundSend

\* A fault other than a failing poll leaves the polls alone.
LEMMA PollsKept ==
  ASSUME budget \in [FaultNames -> Nat], budget["poll"] = 0, NEW f \in FaultNames, Spend(f)
  PROVE  budget'["poll"] = 0
  BY DEF Spend, FaultNames

\* Nothing has been sent or received: the strengthening holds at first.
LEMMA InitSound == NoStray /\ Init => IInv
<1> SUFFICES ASSUME NoStray, Init PROVE IInv
  OBVIOUS
<1>1. Types
  BY InitType
<1>2. budget["poll"] = 0
  BY DEF Init, NoStray
<1>3. DeviceSent
  BY ConstantsAssumption DEF Init, DeviceSent
<1>4. SoundPipes
  BY DEF Init, SoundPipes
<1>5. HandshakeSound /\ CurIsHeader
  BY DEF Init, HandshakeSound, Connected, CurIsHeader
<1>6. AckInv /\ OpeningInv
  BY ConstantsAssumption DEF Init, AckInv, OpeningInv
<1> QED BY <1>1, <1>2, <1>3, <1>4, <1>5, <1>6 DEF IInv

\* What a step of the host has to preserve: the device's state is untouched.
LEMMA HostKeeps ==
  ASSUME IInv, Types', UNCHANGED devVars, budget'["poll"] = 0,
         pc' # "flush" => in' \in Seq(SoundCell) /\ rx_buf' \in Seq(SoundCell),
         ~misread' => /\ cur' \in Seq(SoundCell)
                      /\ rx_ack' <= snd_nxt
                      /\ out' \in Seq(SoundSegment),
         Connected' => Accepted, CurIsHeader', OpeningInv'
  PROVE  IInv'
<1>1. UNCHANGED <<dstate, snd_nxt, produced, sent>>
  BY DEF devVars
<1>2. SoundCell' = SoundCell /\ SoundSegment' = SoundSegment /\ (Accepted' <=> Accepted)
  BY <1>1 DEF SoundCell, SoundSegment, Accepted
<1>3. DeviceSent'
  BY <1>1 DEF IInv, DeviceSent
<1>4. SoundPipes' /\ AckInv'
  BY <1>1, <1>2 DEF IInv, SoundPipes, AckInv
<1>5. HandshakeSound'
  BY <1>2 DEF HandshakeSound, Accepted
<1> QED BY <1>3, <1>4, <1>5 DEF IInv

\* Past the handshake the opening asks for nothing.
LEMMA PastOpening ==
  ASSUME pc' \notin {"flush", "syn", "handshake"}
  PROVE  OpeningInv'
  BY DEF OpeningInv

\* What a step of the device has to preserve: the host's state is untouched,
\* and until the handshake is over it writes nothing but bare headers.
LEMMA DeviceKeeps ==
  ASSUME IInv, Types', UNCHANGED <<pc, hostVars>>, budget'["poll"] = 0,
         snd_nxt <= snd_nxt', Accepted => Accepted', DeviceSent',
         sent' \subseteq SoundCell',
         pc # "flush" => in' \in Seq(SoundCell'),
         out' = out \/ (out # <<>> /\ out' = Tail(out)),
         pc = "flush" => dstate' = "listen",
         pc \in {"flush", "syn", "handshake"} => snd_una' = ISN /\ sent' \subseteq OpeningCell,
         pc \in {"syn", "handshake"} => in' \in Seq(OpeningCell)
  PROVE  IInv'
<1>1. UNCHANGED <<pc, rx_ack, cur, rx_buf, misread>>
  BY DEF hostVars
<1>2. snd_nxt \in Nat /\ snd_nxt' \in Nat /\ rx_ack \in Nat /\ out \in Seq(Segment)
  BY DEF IInv, Types
<1>3. SoundCell \subseteq SoundCell' /\ SoundSegment \subseteq SoundSegment'
  BY <1>2, SoundGrows
<1>4. pc' # "flush" => in' \in Seq(SoundCell') /\ rx_buf' \in Seq(SoundCell')
  BY <1>1, <1>3, SeqMonotonic DEF IInv, SoundPipes
<1>5. SoundPipes'
  BY <1>4 DEF SoundPipes
<1>6. AckInv'
  <2> SUFFICES ASSUME ~misread'
               PROVE  cur' \in Seq(SoundCell') /\ rx_ack' <= snd_nxt' /\ out' \in Seq(SoundSegment')
    BY DEF AckInv
  <2>1. cur \in Seq(SoundCell) /\ rx_ack <= snd_nxt /\ out \in Seq(SoundSegment)
    BY <1>1 DEF IInv, AckInv
  <2>2. out' \in Seq(SoundSegment)
    BY <2>1, TailOfSeq
  <2>3. cur' \in Seq(SoundCell') /\ out' \in Seq(SoundSegment')
    BY <1>1, <1>3, <2>1, <2>2, SeqMonotonic
  <2> QED BY <1>1, <1>2, <2>1, <2>3
<1>7. HandshakeSound' /\ CurIsHeader'
  BY <1>1 DEF IInv, HandshakeSound, Connected, Accepted, CurIsHeader
<1>8. OpeningInv'
  <2>1. ASSUME pc \in {"syn", "handshake"}, NEW i \in 1..Len(out') PROVE out'[i].ack <= ISN
    <3>1. \A j \in 1..Len(out) : out[j].ack <= ISN
      BY <2>1 DEF IInv, OpeningInv
    <3>2. CASE out' = out
      BY <2>1, <3>1, <3>2
    <3>3. CASE out # <<>> /\ out' = Tail(out)
      <4>1. i + 1 \in 1..Len(out) /\ out'[i] = out[i + 1]
        BY <1>2, <2>1, <3>3, HeadTailProperties
      <4> QED BY <3>1, <4>1
    <3> QED BY <3>2, <3>3
  <2>2. pc = "flush" => out' = <<>>
    BY DEF IInv, OpeningInv
  <2>3. (~misread' /\ rx_ack' <= ISN) \/ pc \notin {"flush", "syn", "handshake"}
    BY <1>1 DEF IInv, OpeningInv
  <2>4. pc \in {"flush", "syn"} => cur' = <<>>
    BY <1>1 DEF IInv, OpeningInv
  <2>5. pc \in {"syn", "handshake"} => {in', rx_buf', cur'} \subseteq Seq(OpeningCell)
    BY <1>1 DEF IInv, OpeningInv
  <2> QED BY <1>1, <2>1, <2>2, <2>3, <2>4, <2>5 DEF OpeningInv
<1> QED BY <1>5, <1>6, <1>7, <1>8 DEF IInv

\* The steps together.
LEMMA NextType == Types /\ Next => Types'
  BY ConnectType, ReadType, CallerType, DevType DEF Next

\* session_connect, outside its reads: stale cells are gone when the flush
\* ends, and a parsed frame moves rx_ack at most to snd_nxt.
LEMMA ConnectSound == NoWrap /\ IInv /\ ConnectStep => IInv'
<1> SUFFICES ASSUME NoWrap, IInv, ConnectStep PROVE IInv'
  OBVIOUS
<1>0. /\ Types /\ Types' /\ budget["poll"] = 0 /\ rx_ack \in Nat /\ rx_buf \in Seq(Cell)
      /\ Connected => Accepted
      /\ cur' = cur => CurIsHeader'
  BY ConnectType DEF IInv, HandshakeSound, Types, Accepted, CurIsHeader
<1>a. pc # "flush" => in \in Seq(SoundCell) /\ rx_buf \in Seq(SoundCell)
  BY DEF IInv, SoundPipes
<1>b. <<>> \in Seq(SoundCell) /\ <<>> \in Seq(OpeningCell)
  OBVIOUS
<1>c. ~misread => cur \in Seq(SoundCell) /\ rx_ack <= snd_nxt /\ out \in Seq(SoundSegment)
  BY DEF IInv, AckInv
<1>1. CASE FlushPoll
  <2>1. pc = "flush" /\ pc' = "flush" /\ UNCHANGED <<cur, rx_ack, out, budget, misread, devVars>>
    BY <1>1 DEF FlushPoll
  <2>2. OpeningInv'
    BY <2>1 DEF IInv, OpeningInv, devVars
  <2> QED BY <1>0, <1>c, <2>1, <2>2, HostKeeps DEF Connected
<1>2. CASE FlushEnd
  <2>1. in = <<>> /\ UNCHANGED budget
    BY <1>0, <1>2 DEF FlushEnd, PollNothing, Spend
  <2>2. pc = "flush" /\ in' = <<>> /\ rx_buf' = <<>> /\ pc' = "syn"
    BY <1>2, <2>1 DEF FlushEnd
  <2>3. UNCHANGED <<cur, out, rx_ack, misread, devVars>>
    BY <1>2 DEF FlushEnd
  <2>4. OpeningInv'
    <3>1. cur = <<>> /\ out = <<>> /\ ~misread /\ rx_ack <= ISN /\ snd_una = ISN
          /\ sent \subseteq OpeningCell
      BY <2>2 DEF IInv, OpeningInv
    <3>2. cur' = <<>> /\ out' = <<>> /\ ~misread' /\ rx_ack' <= ISN /\ snd_una' = ISN
          /\ sent' \subseteq OpeningCell
      BY <2>3, <3>1 DEF devVars
    <3>3. Len(<<>>) = 0 /\ 1..0 = {}
      OBVIOUS
    <3> QED BY <1>b, <2>2, <3>2, <3>3 DEF OpeningInv
  <2> QED BY <1>0, <1>b, <1>c, <2>1, <2>2, <2>3, <2>4, HostKeeps DEF Connected
<1>3. CASE SendSyn
  <2>1. SendOrFail({"SYN"}, 0, rx_ack)
    BY <1>3 DEF SendSyn, SendOrFail
  <2>2. /\ budget'["poll"] = 0
        /\ out \in Seq(SoundSegment) /\ rx_ack <= snd_nxt => out' \in Seq(SoundSegment)
    BY <1>0, <2>1, SoundControl
  <2>3. /\ pc = "syn" /\ pc' \in {"handshake", "failed"}
        /\ UNCHANGED <<in, rx_buf, cur, rx_ack, misread, devVars>>
    BY <1>3 DEF SendSyn
  <2>4. OpeningInv'
    <3>1. ~misread /\ rx_ack <= ISN /\ snd_una = ISN /\ sent \subseteq OpeningCell
          /\ {in, rx_buf, cur} \subseteq Seq(OpeningCell)
          /\ \A i \in 1..Len(out) : out[i].ack <= ISN
      BY <2>3 DEF IInv, OpeningInv
    <3>2. Frame({"SYN"}, 0, rx_ack).ack <= ISN /\ Frame({"SYN"}, 0, rx_ack) \in Segment
      BY <1>0, <3>1, ConstantsAssumption DEF Frame, Segment, Flags, Types
    <3>3. out' = out \/ out' = Append(out, Frame({"SYN"}, 0, rx_ack))
      BY <2>1 DEF SendOrFail, SendFrame, WriteFails
    <3>4. \A i \in 1..Len(out') : out'[i].ack <= ISN
      <4> DEFINE f == Frame({"SYN"}, 0, rx_ack)
      <4>1. out \in Seq(Segment) /\ f \in Segment /\ f.ack <= ISN
        BY <1>0, <3>2 DEF Types
      <4> HIDE DEF f
      <4>2. CASE out' = out
        BY <3>1, <4>2
      <4>3. CASE out' = Append(out, f)
        <5>1. /\ Len(out) \in Nat /\ Len(out') = Len(out) + 1 /\ out'[Len(out) + 1] = f
              /\ \A i \in 1..Len(out) : out'[i] = out[i]
          BY <4>1, <4>3, AppendProperties
        <5> QED BY <3>1, <4>1, <5>1
      <4> QED BY <3>3, <4>2, <4>3 DEF f
    <3> QED BY <2>3, <3>1, <3>4 DEF OpeningInv, devVars
  <2> QED BY <1>0, <1>a, <1>c, <2>2, <2>3, <2>4, HostKeeps DEF Connected
<1>4. CASE SendHandshakeAck
  <2>1. SendOrFail({"ACK"}, 0, rx_ack)
    BY <1>4 DEF SendHandshakeAck, SendOrFail
  <2>2. /\ budget'["poll"] = 0
        /\ out \in Seq(SoundSegment) /\ rx_ack <= snd_nxt => out' \in Seq(SoundSegment)
    BY <1>0, <2>1, SoundControl
  <2>3. /\ pc = "ack" /\ pc' \in {"drain", "failed"}
        /\ UNCHANGED <<in, rx_buf, cur, rx_ack, misread, devVars>>
    BY <1>4 DEF SendHandshakeAck
  <2> QED BY <1>0, <1>a, <1>c, <2>2, <2>3, PastOpening, HostKeeps DEF Connected
<1>5. CASE DrainPoll
  <2>1. PICK k \in Transfers : Poll(k)
    BY <1>5 DEF DrainPoll
  <2>2. pc = "drain" /\ UNCHANGED <<pc, cur, rx_ack, out, budget, misread, devVars>>
    BY <1>5 DEF DrainPoll
  <2>3. in' \in Seq(SoundCell) /\ rx_buf' \in Seq(SoundCell)
    BY <1>a, <2>1, <2>2, PollType
  <2> QED BY <1>0, <1>c, <2>2, <2>3, PastOpening, HostKeeps DEF Connected
<1>6. CASE DrainEnd
  <2>1. pc = "drain" /\ pc' = "parse" /\ UNCHANGED <<in, rx_buf, cur, rx_ack, out, misread, devVars>>
    BY <1>6 DEF DrainEnd
  <2>2. budget'["poll"] = 0
    BY <1>0, <1>6 DEF DrainEnd, PollNothing, Spend
  <2> QED BY <1>0, <1>a, <1>c, <2>1, <2>2, PastOpening, HostKeeps DEF Connected
<1>7. CASE ParseStop \/ ParseWild
  <2>1. /\ pc = "parse" /\ pc' \in {"idle", "undefined"}
        /\ misread => misread'
        /\ UNCHANGED <<in, rx_buf, cur, rx_ack, out, budget, devVars>>
    BY <1>7 DEF ParseStop, ParseWild, hostVars
  <2> QED BY <1>0, <1>a, <1>c, <2>1, PastOpening, HostKeeps DEF Connected
<1>8. CASE ParseDropByte
  <2>1. pc = "parse" /\ rx_buf # <<>> /\ rx_buf' = Tail(rx_buf)
        /\ UNCHANGED <<pc, in, cur, rx_ack, out, budget, misread, devVars>>
    BY <1>8 DEF ParseDropByte, MayMisread
  <2>2. rx_buf' \in Seq(SoundCell)
    BY <1>a, <2>1, TailOfSeq
  <2> QED BY <1>0, <1>a, <1>c, <2>1, <2>2, PastOpening, HostKeeps DEF Connected
<1>9. ASSUME NEW h, ParseReady(h)
      PROVE  /\ pc = "parse" /\ AfterFrame(h) \in Seq(SoundCell)
             /\ ~misread' => ~misread /\ h \in SoundCell /\ h.hdr
  <2>1. pc = "parse" /\ h \in FrontHeaders /\ TakenAsHeader(h)
    BY <1>9 DEF ParseReady
  <2>2. h.len + 2 \in Nat \ {0} /\ Len(rx_buf) \in Nat
    <3>1. h.len \in Nat
      BY <1>0, <1>9, PayloadType
    <3>2. Len(rx_buf) \in Nat
      BY <1>0, LenProperties
    <3> QED BY <3>1, <3>2
  <2>3. AfterFrame(h) \in Seq(SoundCell)
    BY <1>a, <2>1, <2>2, PartOfSeq DEF AfterFrame
  <2>4. ASSUME ~misread' PROVE ~misread /\ h \in SoundCell /\ h.hdr
    <3>1. ~misread /\ rx_buf # <<>> /\ h = Head(rx_buf)
      BY <2>1, <2>4, TakenIsHeader
    <3>2. h \in SoundCell
      BY <1>a, <2>1, <3>1, TailOfSeq
    <3>3. h.hdr
      BY <1>0, <2>1, FrontType
    <3> QED BY <3>1, <3>2, <3>3
  <2> QED BY <2>1, <2>3, <2>4
<1>10. ASSUME NEW h, ParseDuplicate(h) PROVE IInv'
  <2>1. /\ ParseReady(h) /\ rx_buf' = AfterFrame(h)
        /\ UNCHANGED <<pc, in, cur, rx_ack, out, budget, devVars>>
    BY <1>10 DEF ParseDuplicate
  <2>2. /\ pc = "parse" /\ AfterFrame(h) \in Seq(SoundCell)
        /\ ~misread' => ~misread
    BY <1>9, <2>1
  <2> QED BY <1>0, <1>a, <1>c, <2>1, <2>2, PastOpening, HostKeeps DEF Connected
<1>11. ASSUME NEW h, ParseFrame(h) PROVE IInv'
  <2>1. /\ ParseReady(h) /\ rx_buf' = AfterFrame(h) /\ rx_ack' = AckAfter(h)
        /\ h.len > 0 => SendOrFail({"ACK"}, 0, AckAfter(h))
        /\ ~(h.len > 0) => UNCHANGED <<tx_seq, out, budget>>
        /\ UNCHANGED <<pc, in, cur, devVars>>
    BY <1>11 DEF ParseFrame
  <2>2. /\ pc = "parse" /\ AfterFrame(h) \in Seq(SoundCell)
        /\ ~misread' => ~misread /\ h \in SoundCell /\ h.hdr
    BY <1>9, <2>1
  <2>3. AckAfter(h) \in Nat
    BY <1>0, <2>1, PayloadType, AckType
  <2>4. ~misread' => AckAfter(h) <= snd_nxt
    BY <2>2, SoundAck
  <2>5. /\ budget'["poll"] = 0
        /\ out \in Seq(SoundSegment) /\ AckAfter(h) <= snd_nxt => out' \in Seq(SoundSegment)
    <3>1. CASE h.len > 0
      BY <1>0, <2>1, <2>3, <3>1, SoundControl
    <3>2. CASE ~(h.len > 0)
      BY <1>0, <2>1, <3>2
    <3> QED BY <3>1, <3>2
  <2> QED BY <1>0, <1>a, <1>c, <2>1, <2>2, <2>4, <2>5, PastOpening, HostKeeps DEF Connected
<1> QED BY <1>1, <1>2, <1>3, <1>4, <1>5, <1>6, <1>7, <1>8, <1>10, <1>11 DEF ConnectStep

\* A frame read whole: its header is sound, so rx_ack stays behind snd_nxt.
LEMMA FrameReadSound ==
  ASSUME NoWrap, IInv, FrameRead, pc # "flush"
  PROVE  /\ rx_buf' \in Seq(SoundCell) /\ rx_ack' \in Nat /\ cur' = <<>> /\ Head(cur).hdr
         /\ ~misread => rx_ack' <= snd_nxt /\ Head(cur) \in SoundCell
<1>1. Head(cur).hdr
  BY DEF IInv, CurIsHeader, FrameRead
<1>2. ASSUME ~misread PROVE rx_ack' <= snd_nxt /\ Head(cur) \in SoundCell
  <2>1. Head(cur) \in SoundCell
    BY <1>2, TailOfSeq DEF FrameRead, IInv, AckInv
  <2> QED BY <1>1, <1>2, <2>1, SoundAck DEF FrameRead
<1>3. Need \in 0..MaxPay /\ rx_ack' \in Nat
  BY FrameReadType DEF IInv
<1>4. Need + 1 \in Nat \ {0} /\ Len(rx_buf) \in Nat
  BY <1>3, ConstantsAssumption, LenProperties DEF IInv, Types
<1>5. rx_buf \in Seq(SoundCell)
  BY DEF IInv, SoundPipes
<1>6. SubSeq(rx_buf, Need + 1, Len(rx_buf)) \in Seq(SoundCell)
  BY <1>4, <1>5, PartOfSeq
<1> QED BY <1>1, <1>2, <1>3, <1>6 DEF FrameRead

\* The blocking reads: a frame that was read whole is one the device sent, and
\* the handshake reads nothing but the bare headers of the opening.
LEMMA ReadSound == NoWrap /\ IInv /\ ReadStep => IInv'
<1> SUFFICES ASSUME NoWrap, IInv, ReadStep PROVE IInv'
  OBVIOUS
<1>0. /\ Types /\ Types' /\ budget["poll"] = 0 /\ rx_ack \in Nat /\ rx_buf \in Seq(Cell)
      /\ Connected => Accepted
      /\ cur' = cur \/ cur' = <<>> => CurIsHeader'
  BY ReadType DEF IInv, HandshakeSound, Types, Accepted, CurIsHeader
<1>a. pc # "flush" => in \in Seq(SoundCell) /\ rx_buf \in Seq(SoundCell)
  BY DEF IInv, SoundPipes
<1>b. <<>> \in Seq(SoundCell) /\ <<>> \in Seq(OpeningCell)
  OBVIOUS
<1>c. Reading => AfterFailure \notin {"flush", "syn", "handshake"} /\ (AfterFailure = "idle" => pc = "recv")
  BY DEF AfterFailure, Reading
<1>d. ~misread => cur \in Seq(SoundCell) /\ rx_ack <= snd_nxt /\ out \in Seq(SoundSegment)
  BY DEF IInv, AckInv
<1>e. pc = "handshake" =>
        /\ ~misread /\ rx_ack <= ISN /\ snd_una = ISN /\ sent \subseteq OpeningCell
        /\ in \in Seq(OpeningCell) /\ rx_buf \in Seq(OpeningCell) /\ cur \in Seq(OpeningCell)
        /\ \A i \in 1..Len(out) : out[i].ack <= ISN
  BY DEF IInv, OpeningInv
<1>f. ASSUME UNCHANGED devVars, UNCHANGED out, pc' \in {"handshake"} => pc = "handshake",
             pc' \notin {"flush", "syn"},
             pc' = "handshake" =>
                /\ ~misread' /\ rx_ack' <= ISN
                /\ in' \in Seq(OpeningCell) /\ rx_buf' \in Seq(OpeningCell)
                /\ cur' \in Seq(OpeningCell)
      PROVE  OpeningInv'
  BY <1>e, <1>f DEF OpeningInv, devVars
<1>1. CASE ReadChunk
  <2>1. PICK k \in Transfers :
          /\ Take(k)
          /\ IF Len(rx_buf) + k > RxCap
             THEN pc' = AfterFailure /\ cur' = <<>> /\ UNCHANGED rx_buf
             ELSE rx_buf' = rx_buf \o Chunk(k) /\ UNCHANGED <<pc, cur>>
    BY <1>1 DEF ReadChunk
  <2>2. Reading /\ pc # "flush" /\ UNCHANGED <<rx_ack, out, budget, misread, devVars>>
    BY <1>1 DEF ReadChunk, Reading
  <2>3. in' \in Seq(SoundCell) /\ Chunk(k) \in Seq(SoundCell)
    BY <1>a, <2>1, <2>2, TransferType
  <2>4. rx_buf \o Chunk(k) \in Seq(SoundCell)
    BY <1>a, <2>2, <2>3, ConcatProperties
  <2>5. CASE Len(rx_buf) + k > RxCap
    <3>1. pc' = AfterFailure /\ cur' = <<>> /\ rx_buf' = rx_buf
      BY <2>1, <2>5
    <3>2. Connected' => Accepted
      BY <1>0, <1>c, <2>2, <3>1 DEF Connected, AfterFailure
    <3>3. OpeningInv'
      BY <1>c, <2>2, <3>1, PastOpening
    <3> QED BY <1>0, <1>a, <1>b, <1>d, <2>2, <2>3, <3>1, <3>2, <3>3, HostKeeps
  <2>6. CASE ~(Len(rx_buf) + k > RxCap)
    <3>1. rx_buf' = rx_buf \o Chunk(k) /\ UNCHANGED <<pc, cur>>
      BY <2>1, <2>6
    <3>2. ASSUME pc = "handshake" PROVE in' \in Seq(OpeningCell) /\ rx_buf' \in Seq(OpeningCell)
      <4>1. in' \in Seq(OpeningCell) /\ Chunk(k) \in Seq(OpeningCell)
        BY <1>e, <2>1, <3>2, TransferType
      <4> QED BY <1>e, <3>1, <3>2, <4>1, ConcatProperties
    <3>3. OpeningInv'
      BY <1>e, <1>f, <2>2, <3>1, <3>2 DEF Reading
    <3> QED BY <1>0, <1>d, <2>2, <2>3, <2>4, <3>1, <3>3, HostKeeps DEF Connected
  <2> QED BY <2>5, <2>6
<1>2. CASE ReadFails
  <2>1. /\ Reading /\ pc # "flush" /\ pc' = AfterFailure /\ rx_buf' = <<>> /\ cur' = <<>>
        /\ UNCHANGED <<in, rx_ack, out, misread, devVars>>
    BY <1>2 DEF ReadFails, Reading
  <2>2. budget'["poll"] = 0
    <3>1. CASE UNCHANGED budget
      BY <1>0, <3>1
    <3>2. CASE Spend("read")
      BY <1>0, <3>2, PollsKept DEF Types, FaultNames
    <3> QED BY <1>2, <3>1, <3>2 DEF ReadFails
  <2>3. Connected' => Accepted
    BY <1>0, <1>c, <2>1 DEF Connected, AfterFailure
  <2>4. OpeningInv'
    BY <1>c, <2>1, PastOpening
  <2> QED BY <1>0, <1>a, <1>b, <1>d, <2>1, <2>2, <2>3, <2>4, HostKeeps
<1>3. CASE ReadHeader
  <2>1. /\ Reading /\ pc # "flush" /\ rx_buf # <<>> /\ rx_buf' = Tail(rx_buf)
        /\ UNCHANGED <<in, rx_ack, out, budget, devVars>>
    BY <1>3 DEF ReadHeader, Reading
  <2>2. Head(rx_buf) \in SoundCell /\ rx_buf' \in Seq(SoundCell)
    BY <1>a, <2>1, TailOfSeq
  <2>3. CASE \E h \in FrontHeaders :
               h.len <= MaxFrame /\ cur' = <<h>> /\ TakenAsHeader(h) /\ UNCHANGED pc
    <3>1. PICK h \in FrontHeaders :
            h.len <= MaxFrame /\ cur' = <<h>> /\ TakenAsHeader(h) /\ UNCHANGED pc
      BY <2>3
    <3>2. CurIsHeader'
      BY <1>0, <3>1, FrontType DEF CurIsHeader
    <3>3. ~misread' => ~misread /\ h = Head(rx_buf)
      BY <3>1, TakenIsHeader
    <3>4. ASSUME ~misread' PROVE cur' \in Seq(SoundCell)
      <4>1. <<Head(rx_buf)>> \in Seq(SoundCell)
        BY <2>2
      <4> QED BY <3>1, <3>3, <3>4, <4>1
    <3>5. OpeningInv'
      <4>1. ASSUME pc = "handshake"
            PROVE  ~misread' /\ rx_buf' \in Seq(OpeningCell) /\ cur' \in Seq(OpeningCell)
        <5>1. Head(rx_buf) \in OpeningCell /\ rx_buf' \in Seq(OpeningCell)
          BY <1>e, <2>1, <4>1, TailOfSeq
        <5>2. h = Head(rx_buf)
          BY <1>e, <2>1, <3>1, <4>1, <5>1, InStep DEF OpeningCell
        <5>3. ~misread'
          BY <1>e, <3>1, <4>1, <5>2 DEF TakenAsHeader
        <5>4. <<Head(rx_buf)>> \in Seq(OpeningCell)
          BY <5>1
        <5> QED BY <3>1, <5>1, <5>2, <5>3, <5>4
      <4> QED BY <1>e, <1>f, <2>1, <3>1, <4>1 DEF Reading
    <3>6. Connected' => Accepted
      BY <1>0, <3>1 DEF Connected
    <3> QED BY <1>0, <1>a, <1>d, <2>1, <2>2, <3>2, <3>3, <3>4, <3>5, <3>6, HostKeeps
  <2>4. CASE MayMisread /\ pc' = AfterFailure /\ misread' = TRUE /\ UNCHANGED cur
    <3>1. Connected' => Accepted
      BY <1>0, <1>c, <2>1, <2>4 DEF Connected, AfterFailure
    <3>2. OpeningInv'
      BY <1>c, <2>1, <2>4, PastOpening
    <3> QED BY <1>0, <1>a, <2>1, <2>2, <2>4, <3>1, <3>2, HostKeeps
  <2> QED BY <1>3, <2>3, <2>4 DEF ReadHeader
<1>4. CASE HandshakeFrame
  <2>1. FrameRead /\ pc = "handshake" /\ UNCHANGED <<in, out, budget, misread, devVars>>
    BY <1>4 DEF HandshakeFrame
  <2>2. /\ rx_buf' \in Seq(SoundCell) /\ rx_ack' <= snd_nxt /\ cur' = <<>>
        /\ Head(cur) \in SoundCell /\ Head(cur).hdr
    BY <1>e, <2>1, FrameReadSound
  <2> DEFINE f == Head(cur).flags
  <2>3. /\ pc' \in {"failed", "handshake", "ack"}
        /\ pc' = "ack" => {"SYN", "ACK"} \subseteq f
        /\ pc' = "handshake" => ~({"SYN", "ACK"} \subseteq f)
    <3>1. CASE "RST" \in f
      BY <1>4, <3>1 DEF HandshakeFrame
    <3>2. CASE "RST" \notin f /\ {"SYN", "ACK"} \subseteq f
      BY <1>4, <3>2 DEF HandshakeFrame
    <3>3. CASE "RST" \notin f /\ ~({"SYN", "ACK"} \subseteq f)
      BY <1>4, <3>3 DEF HandshakeFrame
    <3> QED BY <3>1, <3>2, <3>3
  <2>4. {"SYN", "ACK"} \subseteq f => Accepted
    BY <2>2 DEF SoundCell
  <2>5. Connected' => Accepted
    BY <2>3, <2>4 DEF Connected
  <2>6. ASSUME pc' = "handshake" PROVE rx_ack' <= ISN /\ rx_buf' \in Seq(OpeningCell)
    <3>1. Head(cur) \in OpeningCell
      BY <1>e, <2>1, TailOfSeq DEF FrameRead
    <3>2. "SYN" \notin f /\ "FIN" \notin f /\ Head(cur).len = 0
      BY <2>3, <2>6, <3>1 DEF OpeningCell
    <3>3. Consumed(Head(cur)) = 0
      BY <3>2 DEF Consumed
    <3>4. rx_ack' = rx_ack
      BY <2>1, <3>3 DEF FrameRead, AckAfter
    <3>5. Need \in Nat /\ Len(rx_buf) \in Nat
      BY <1>0, <2>1, FrameReadType, LenProperties, ConstantsAssumption
    <3>6. SubSeq(rx_buf, Need + 1, Len(rx_buf)) \in Seq(OpeningCell)
      BY <1>e, <2>1, <3>5, PartOfSeq
    <3> QED BY <1>e, <2>1, <3>4, <3>6 DEF FrameRead
  <2>7. OpeningInv'
    BY <1>b, <1>e, <1>f, <2>1, <2>2, <2>3, <2>6
  <2> QED BY <1>0, <1>a, <1>b, <1>d, <1>e, <2>1, <2>2, <2>3, <2>5, <2>7, HostKeeps
<1>5. CASE RecvControl
  <2>1. /\ FrameRead /\ pc = "recv" /\ pc' \in {"idle", "recv"}
        /\ UNCHANGED <<in, misread, devVars>>
        /\ UNCHANGED <<tx_seq, out, budget>> \/ SendOrFail({"FIN", "ACK"}, 0, rx_ack')
    BY <1>5 DEF RecvControl
  <2>2. /\ rx_buf' \in Seq(SoundCell) /\ rx_ack' \in Nat /\ cur' = <<>>
        /\ ~misread => rx_ack' <= snd_nxt
    BY <2>1, FrameReadSound
  <2>3. /\ budget'["poll"] = 0
        /\ ~misread => out' \in Seq(SoundSegment)
    <3>1. CASE UNCHANGED <<tx_seq, out, budget>>
      BY <1>0, <1>d, <3>1
    <3>2. CASE SendOrFail({"FIN", "ACK"}, 0, rx_ack')
      BY <1>0, <1>d, <2>2, <3>2, SoundControl
    <3> QED BY <2>1, <3>1, <3>2
  <2>4. Connected' => Accepted
    BY <1>0, <2>1 DEF Connected
  <2> QED BY <1>0, <1>a, <1>b, <2>1, <2>2, <2>3, <2>4, PastOpening, HostKeeps
<1>6. CASE RecvData
  <2>1. /\ FrameRead /\ pc = "recv" /\ pc' = "idle" /\ UNCHANGED <<in, misread, devVars>>
        /\ SendOrFail({"ACK"}, 0, rx_ack')
    BY <1>6 DEF RecvData
  <2>2. /\ rx_buf' \in Seq(SoundCell) /\ rx_ack' \in Nat /\ cur' = <<>>
        /\ ~misread => rx_ack' <= snd_nxt
    BY <2>1, FrameReadSound
  <2>3. /\ budget'["poll"] = 0
        /\ ~misread => out' \in Seq(SoundSegment)
    BY <1>0, <1>d, <2>1, <2>2, SoundControl
  <2>4. Connected' => Accepted
    BY <1>0, <2>1 DEF Connected
  <2> QED BY <1>0, <1>a, <1>b, <2>1, <2>2, <2>3, <2>4, PastOpening, HostKeeps
<1> QED BY <1>1, <1>2, <1>3, <1>4, <1>5, <1>6 DEF ReadStep

\* The calls of the session's users: they only send what rx_ack allows.
LEMMA CallerSound == NoWrap /\ IInv /\ (RecvStep \/ SendCall \/ CloseCall) => IInv'
<1> SUFFICES ASSUME NoWrap, IInv, RecvStep \/ SendCall \/ CloseCall PROVE IInv'
  OBVIOUS
<1>0. /\ Types /\ Types' /\ budget["poll"] = 0 /\ rx_ack \in Nat
      /\ Connected => Accepted
      /\ cur' = cur => CurIsHeader'
  BY CallerType DEF IInv, HandshakeSound, Types, Accepted, CurIsHeader
<1>a. pc # "flush" => in \in Seq(SoundCell) /\ rx_buf \in Seq(SoundCell)
  BY DEF IInv, SoundPipes
<1>b. ~misread => cur \in Seq(SoundCell) /\ rx_ack <= snd_nxt /\ out \in Seq(SoundSegment)
  BY DEF IInv, AckInv
<1>1. CASE RecvPrebuf
  <2>1. pc = "idle" /\ UNCHANGED <<pc, rx_ack, rx_buf, cur, in, out, budget, misread, devVars>>
    BY <1>1 DEF RecvPrebuf
  <2> QED BY <1>0, <1>a, <1>b, <2>1, PastOpening, HostKeeps DEF Connected
<1>2. CASE RecvCall
  <2>1. pc = "idle" /\ pc' = "recv"
        /\ UNCHANGED <<rx_ack, rx_buf, cur, in, out, budget, misread, devVars>>
    BY <1>2 DEF RecvCall
  <2> QED BY <1>0, <1>a, <1>b, <2>1, PastOpening, HostKeeps DEF Connected
<1>3. CASE SendCall
  <2>1. PICK n \in 1..MaxPay : SendOrFail({"ACK"}, n, rx_ack)
    BY <1>3 DEF SendCall
  <2>2. {"ACK"} \in SUBSET Flags /\ n \in 0..MaxPay
    BY ConstantsAssumption DEF Flags
  <2>3. /\ budget'["poll"] = 0
        /\ ~misread => out' \in Seq(SoundSegment)
    BY <1>0, <1>b, <2>1, <2>2, SoundSend
  <2>4. pc = "idle" /\ UNCHANGED <<pc, rx_ack, rx_buf, cur, in, misread, devVars>>
    BY <1>3 DEF SendCall
  <2> QED BY <1>0, <1>a, <1>b, <2>3, <2>4, PastOpening, HostKeeps DEF Connected
<1>4. CASE CloseCall
  <2>1. SendOrFail({"FIN", "ACK"}, 0, rx_ack)
    BY <1>4 DEF CloseCall
  <2>2. /\ budget'["poll"] = 0
        /\ ~misread => out' \in Seq(SoundSegment)
    BY <1>0, <1>b, <2>1, SoundControl
  <2>3. pc = "idle" /\ pc' = "done" /\ UNCHANGED <<rx_ack, rx_buf, cur, in, misread, devVars>>
    BY <1>4 DEF CloseCall
  <2> QED BY <1>0, <1>a, <1>b, <2>2, <2>3, PastOpening, HostKeeps DEF Connected
<1> QED BY <1>1, <1>2, <1>3, <1>4 DEF RecvStep

\* A new frame of the device starts at snd_nxt and ends at the new snd_nxt.
LEMMA EmitSound ==
  ASSUME NoWrap, IInv, NEW flags \in SUBSET Flags, NEW n \in 0..MaxPay,
         Emit(Header(snd_nxt, flags, n)), Accepted => Accepted',
         snd_nxt + Consumed(Header(snd_nxt, flags, n)) < SeqMod,
         {"SYN", "ACK"} \subseteq flags => Accepted'
  PROVE  /\ snd_nxt' = snd_nxt + Consumed(Header(snd_nxt, flags, n))
         /\ snd_nxt <= snd_nxt' /\ sent' \subseteq SoundCell'
         /\ pc # "flush" => in' \in Seq(SoundCell')
<1> DEFINE h == Header(snd_nxt, flags, n)
<1>1. snd_nxt \in Nat /\ h \in Cell /\ ~h.old /\ h.seq = snd_nxt /\ h.flags = flags
  BY HeaderType DEF IInv, Types, Header
<1>2. Consumed(h) \in Nat
  BY <1>1, ConstantsAssumption DEF Cell, Consumed
<1> HIDE DEF h
<1>3. snd_nxt' = snd_nxt + Consumed(h)
  BY <1>1, <1>2, ConstantsAssumption DEF Emit, Add, h
<1>4. snd_nxt' \in Nat /\ snd_nxt <= snd_nxt'
  BY <1>1, <1>2, <1>3
<1>5. h \in SoundCell'
  BY <1>1, <1>2, <1>3, <1>4 DEF SoundCell
<1>6. SoundCell \subseteq SoundCell'
  BY <1>1, <1>4, SoundGrows
<1>7. FrameCells(h) \in Seq(SoundCell')
  <2>1. h.len \in Nat /\ h.seq \in Nat
    BY <1>1, ConstantsAssumption DEF Cell
  <2> DEFINE body == [i \in 1..h.len |-> Data(Add(h.seq, i - 1))]
  <2>2. ASSUME NEW i \in 1..h.len PROVE Data(Add(h.seq, i - 1)) \in SoundCell'
    <3>1. i - 1 \in Nat
      BY <2>1
    <3>2. Add(h.seq, i - 1) \in Nat
      BY <2>1, <3>1, AddType
    <3> QED BY <3>2, ConstantsAssumption DEF Data, Cell, SoundCell
  <2>3. body \in [1..h.len -> SoundCell']
    BY <2>2
  <2>4. body \in Seq(SoundCell')
    BY <2>1, <2>3, FunctionIsSeq
  <2>5. <<h>> \in Seq(SoundCell')
    BY <1>5
  <2> QED BY <2>4, <2>5, ConcatProperties DEF FrameCells
<1>8. sent' \subseteq SoundCell'
  BY <1>5, <1>6 DEF Emit, IInv, SoundPipes, h
<1>9. ASSUME pc # "flush" PROVE in' \in Seq(SoundCell')
  <2>1. in \in Seq(SoundCell')
    BY <1>6, <1>9, SeqMonotonic DEF IInv, SoundPipes
  <2>2. in' = in \o FrameCells(h)
    BY DEF Emit, h
  <2> QED BY <1>7, <2>1, <2>2, ConcatProperties
<1> QED BY <1>3, <1>4, <1>8, <1>9 DEF h

\* A frame without sequence space (RST, a pure acknowledgement) is sound.
LEMMA EmptyFrameSound ==
  ASSUME IInv, NEW seq \in Nat, NEW flags \in {{"RST", "ACK"}, {"ACK"}}, pc # "flush"
  PROVE  in \o FrameCells(Header(seq, flags, 0)) \in Seq(SoundCell)
<1>1. Header(seq, flags, 0) \in Cell
  BY HeaderType, ConstantsAssumption DEF Flags
<1>2. Header(seq, flags, 0) \in SoundCell
  BY <1>1 DEF SoundCell, Header, Consumed
<1>3. FrameCells(Header(seq, flags, 0)) \in Seq(SoundCell)
  BY <1>2, SoundFrame
<1> QED BY <1>3, ConcatProperties DEF IInv, SoundPipes

\* The device: what it puts on the wire ends at snd_nxt at the latest.
LEMMA DevSound == NoWrap /\ NoStray /\ IInv /\ DevStep => IInv'
<1> SUFFICES ASSUME NoWrap, NoStray, IInv, DevStep PROVE IInv'
  OBVIOUS
<1>0. /\ Types /\ Types' /\ budget["poll"] = 0 /\ snd_nxt \in Nat /\ produced \in Nat
      /\ produced <= StreamLen /\ snd_nxt <= ISN + produced + 2
      /\ dstate = "open" => snd_nxt = ISN + produced + 1
      /\ dstate \in {"listen", "refused"} => snd_nxt = ISN /\ produced = 0
  BY DevType DEF IInv, DeviceSent, Types
<1>a. ISN \in Nat /\ StreamLen \in Nat /\ SeqMod \in Nat /\ ISN + StreamLen + 2 < SeqMod
  BY ConstantsAssumption DEF NoWrap
<1>b. /\ sent \subseteq SoundCell
      /\ pc # "flush" => in \in Seq(SoundCell)
  BY DEF IInv, SoundPipes
<1>c. /\ pc = "flush" => dstate = "listen" /\ out = <<>>
      /\ pc \in {"flush", "syn", "handshake"} => snd_una = ISN /\ sent \subseteq OpeningCell
      /\ pc \in {"syn", "handshake"} => in \in Seq(OpeningCell)
  BY DEF IInv, OpeningInv
<1>d. ASSUME UNCHANGED <<dstate, snd_nxt, produced>>
      PROVE  DeviceSent' /\ SoundCell' = SoundCell /\ snd_nxt <= snd_nxt' /\ (Accepted => Accepted')
  BY <1>0, <1>d DEF DeviceSent, SoundCell, Accepted
<1>e. ASSUME NEW h \in OpeningCell
      PROVE  pc \in {"syn", "handshake"} => in \o FrameCells(h) \in Seq(OpeningCell)
  <2>1. FrameCells(h) \in Seq(OpeningCell)
    BY BareFrame DEF OpeningCell
  <2> QED BY <1>c, <2>1, ConcatProperties
<1>f. ASSUME NEW seq \in Nat, NEW flags \in {{"SYN", "ACK"}, {"RST", "ACK"}, {"ACK"}}
      PROVE  Header(seq, flags, 0) \in OpeningCell
  BY ConstantsAssumption DEF Header, OpeningCell, Cell, Flags
<1>1. CASE DevAccept
  <2>1. /\ dstate = "listen" /\ dstate' = "open" /\ Emit(Header(snd_nxt, {"SYN", "ACK"}, 0))
        /\ out # <<>> /\ out' = Tail(out) /\ UNCHANGED <<pc, hostVars, produced, snd_una, budget>>
    BY <1>0, <1>1 DEF DevAccept
  <2>2. Consumed(Header(snd_nxt, {"SYN", "ACK"}, 0)) = 1
    BY DEF Consumed, Header
  <2>3. Accepted' /\ {"SYN", "ACK"} \in SUBSET Flags /\ 0 \in 0..MaxPay
    BY <2>1, ConstantsAssumption DEF Accepted, Flags
  <2>4. snd_nxt + 1 < SeqMod
    BY <1>0, <1>a, <2>1
  <2>5. /\ snd_nxt' = snd_nxt + 1 /\ sent' \subseteq SoundCell'
        /\ pc # "flush" => in' \in Seq(SoundCell')
    BY <2>1, <2>2, <2>3, <2>4, EmitSound
  <2>6. DeviceSent'
    BY <1>0, <1>a, <2>1, <2>5 DEF DeviceSent
  <2> DEFINE h == Header(snd_nxt, {"SYN", "ACK"}, 0)
  <2>7. h \in OpeningCell
    BY <1>0, <1>f
  <2>8. in' = in \o FrameCells(h) /\ sent' = sent \cup {h}
    BY <2>1 DEF Emit
  <2> HIDE DEF h
  <2>9. /\ pc # "flush"
        /\ pc \in {"flush", "syn", "handshake"} => snd_una' = ISN /\ sent' \subseteq OpeningCell
        /\ pc \in {"syn", "handshake"} => in' \in Seq(OpeningCell)
    BY <1>c, <1>e, <2>1, <2>7, <2>8
  <2>10. snd_nxt <= snd_nxt'
    BY <1>0, <2>5
  <2> QED BY <1>0, <2>1, <2>3, <2>5, <2>6, <2>9, <2>10, DeviceKeeps
<1>2. CASE DevRefuse
  <2>1. /\ dstate = "listen" /\ dstate' = "refused" /\ out # <<>> /\ out' = Tail(out)
        /\ in' = in \o FrameCells(Header(0, {"RST", "ACK"}, 0))
        /\ UNCHANGED <<pc, hostVars, snd_una, snd_nxt, produced, sent, budget>>
    BY <1>2 DEF DevRefuse
  <2>2. (Accepted' <=> Accepted) /\ SoundCell' = SoundCell /\ DeviceSent'
    BY <1>0, <2>1 DEF Accepted, SoundCell, DeviceSent
  <2>3. pc # "flush" => in' \in Seq(SoundCell)
    BY <2>1, EmptyFrameSound
  <2>4. /\ pc # "flush"
        /\ pc \in {"syn", "handshake"} => in' \in Seq(OpeningCell)
    BY <1>c, <1>e, <1>f, <2>1
  <2> QED BY <1>0, <1>b, <1>c, <2>1, <2>2, <2>3, <2>4, DeviceKeeps
<1>3. CASE DevRecv
  <2>1. /\ dstate # "listen" /\ dstate' \in {dstate, "closed"} /\ out # <<>> /\ out' = Tail(out)
        /\ UNCHANGED <<pc, hostVars, snd_nxt, produced, sent, in, budget>>
    BY <1>3 DEF DevRecv
  <2>2. Accepted => Accepted'
    BY <2>1 DEF Accepted
  <2>3. SoundCell \subseteq SoundCell'
    BY <1>0, <2>1, <2>2, SoundGrows
  <2>4. DeviceSent'
    BY <1>0, <2>1 DEF DeviceSent
  <2>5. pc # "flush" => in' \in Seq(SoundCell')
    BY <1>b, <2>1, <2>3, SeqMonotonic
  <2>6. pc # "flush"
    BY <1>c, <2>1
  <2>7. ASSUME pc \in {"syn", "handshake"} PROVE snd_una' = ISN
    <3>1. Head(out).ack <= ISN
      <4>1. \A i \in 1..Len(out) : out[i].ack <= ISN
        BY <2>7 DEF IInv, OpeningInv
      <4>2. 1 \in 1..Len(out) /\ Head(out) = out[1]
        BY <1>0, <2>1, HeadTailProperties DEF Types
      <4> QED BY <4>1, <4>2
    <3>2. Head(out).ack \in Nat
      <4>1. Head(out) \in Segment
        BY <1>0, <2>1, TailOfSeq DEF Types
      <4> QED BY <4>1 DEF Segment
    <3> QED BY <1>3, <1>a, <1>c, <2>7, <3>1, <3>2 DEF DevRecv
  <2> QED BY <1>0, <1>b, <1>c, <2>1, <2>2, <2>3, <2>4, <2>5, <2>6, <2>7, DeviceKeeps
<1>4. CASE DevSend
  <2>1. PICK n \in 1..MaxPay : /\ produced + n <= StreamLen /\ produced' = produced + n
                               /\ Emit(Header(snd_nxt, {"ACK"}, n))
    BY <1>4 DEF DevSend
  <2>2. /\ dstate = "open" /\ UNCHANGED <<pc, hostVars, dstate, out, budget>>
        /\ pc \notin {"flush", "syn", "handshake"}
    BY <1>4, <1>a, <1>c DEF DevSend, MaySend
  <2>3. n \in Nat /\ n \in 0..MaxPay /\ {"ACK"} \in SUBSET Flags
    BY ConstantsAssumption DEF Flags
  <2>4. Consumed(Header(snd_nxt, {"ACK"}, n)) = n
    BY <2>3 DEF Consumed, Header
  <2>5. Accepted' /\ snd_nxt + n < SeqMod
    BY <1>0, <1>a, <2>1, <2>2, <2>3 DEF Accepted
  <2>6. /\ snd_nxt' = snd_nxt + n /\ sent' \subseteq SoundCell' /\ snd_nxt <= snd_nxt'
        /\ pc # "flush" => in' \in Seq(SoundCell')
    BY <2>1, <2>3, <2>4, <2>5, EmitSound
  <2>7. DeviceSent'
    BY <1>0, <1>a, <2>1, <2>2, <2>3, <2>6 DEF DeviceSent
  <2> QED BY <1>0, <1>b, <2>2, <2>5, <2>6, <2>7, DeviceKeeps
<1>5. CASE DevFin
  <2>1. /\ dstate = "open" /\ dstate' = "finished" /\ Emit(Header(snd_nxt, {"FIN", "ACK"}, 0))
        /\ UNCHANGED <<pc, hostVars, produced, out, budget>>
        /\ pc \notin {"flush", "syn", "handshake"}
    BY <1>5, <1>a, <1>c DEF DevFin, MaySend
  <2>2. Consumed(Header(snd_nxt, {"FIN", "ACK"}, 0)) = 1
    BY DEF Consumed, Header
  <2>3. /\ Accepted' /\ {"FIN", "ACK"} \in SUBSET Flags /\ 0 \in 0..MaxPay
        /\ snd_nxt + 1 < SeqMod
    BY <1>0, <1>a, <2>1, ConstantsAssumption DEF Accepted, Flags
  <2>4. /\ snd_nxt' = snd_nxt + 1 /\ sent' \subseteq SoundCell' /\ snd_nxt <= snd_nxt'
        /\ pc # "flush" => in' \in Seq(SoundCell')
    BY <2>1, <2>2, <2>3, EmitSound
  <2>5. DeviceSent'
    BY <1>0, <1>a, <2>1, <2>4 DEF DeviceSent
  <2> QED BY <1>0, <1>b, <2>1, <2>3, <2>4, <2>5, DeviceKeeps
<1>6. CASE DevReset
  <2>1. /\ dstate = "open" /\ dstate' = "reset"
        /\ in' = in \o FrameCells(Header(snd_nxt, {"RST", "ACK"}, 0))
        /\ UNCHANGED <<pc, hostVars, snd_una, snd_nxt, produced, sent, out, budget>>
    BY <1>6 DEF DevReset
  <2>2. (Accepted' <=> Accepted) /\ SoundCell' = SoundCell /\ DeviceSent'
    BY <1>0, <2>1 DEF Accepted, SoundCell, DeviceSent
  <2>3. pc # "flush" => in' \in Seq(SoundCell)
    BY <1>0, <2>1, EmptyFrameSound
  <2>4. pc \in {"syn", "handshake"} => in' \in Seq(OpeningCell)
    BY <1>0, <1>e, <1>f, <2>1
  <2> QED BY <1>0, <1>b, <1>c, <2>1, <2>2, <2>3, <2>4, DeviceKeeps
<1>7. CASE DevPureAck
  <2>1. /\ in' = in \o FrameCells(Header(snd_nxt, {"ACK"}, 0)) /\ Spend("pureack")
        /\ dstate = "open" /\ UNCHANGED <<pc, hostVars, dstate, snd_una, snd_nxt, produced, sent, out>>
    BY <1>7 DEF DevPureAck, devVars
  <2>2. pc # "flush" => in' \in Seq(SoundCell)
    BY <1>0, <2>1, EmptyFrameSound
  <2>3. budget'["poll"] = 0
    BY <1>0, <2>1, PollsKept DEF Types, FaultNames
  <2>4. pc \in {"syn", "handshake"} => in' \in Seq(OpeningCell)
    BY <1>0, <1>e, <1>f, <2>1
  <2> QED BY <1>0, <1>b, <1>c, <1>d, <2>1, <2>2, <2>3, <2>4, DeviceKeeps
<1>8. CASE DevRetransmit
  <2>1. PICK h \in sent : in' = in \o FrameCells(h)
    BY <1>8 DEF DevRetransmit
  <2>2. /\ Spend("retransmit") /\ dstate # "listen"
        /\ UNCHANGED <<pc, hostVars, dstate, snd_una, snd_nxt, produced, sent, out>>
    BY <1>8 DEF DevRetransmit, devVars
  <2>3. FrameCells(h) \in Seq(SoundCell)
    BY <1>b, SoundFrame
  <2>4. pc # "flush" => in' \in Seq(SoundCell)
    BY <1>b, <2>1, <2>3, ConcatProperties
  <2>5. budget'["poll"] = 0
    BY <1>0, <2>2, PollsKept DEF Types, FaultNames
  <2>6. pc \in {"syn", "handshake"} => in' \in Seq(OpeningCell)
    BY <1>c, <1>e, <2>1
  <2> QED BY <1>0, <1>b, <1>c, <1>d, <2>2, <2>4, <2>5, <2>6, DeviceKeeps
<1>9. CASE LateArrives
  <2>1. /\ pc = "flush"
        /\ UNCHANGED <<pc, hostVars, dstate, snd_una, snd_nxt, produced, sent, out, budget>>
    BY <1>9 DEF LateArrives, NoStray
  <2> QED BY <1>0, <1>b, <1>c, <1>d, <2>1, DeviceKeeps
<1> QED BY <1>1, <1>2, <1>3, <1>4, <1>5, <1>6, <1>7, <1>8, <1>9 DEF DevStep

\* The invariant that the two safety theorems rest on.
LEMMA SoundAlways == ASSUME NoWrap, NoStray PROVE Spec => []IInv
<1>1. Init => IInv
  BY InitSound
<1>2. IInv /\ [Next]_vars => IInv'
  <2>1. IInv /\ Next => IInv'
    BY ConnectSound, ReadSound, CallerSound, DevSound DEF Next
  <2>2. IInv /\ UNCHANGED vars => IInv'
    BY DEF vars, hostVars, devVars, IInv, Types, DeviceSent, SoundPipes, SoundCell,
           SoundSegment, CurIsHeader, AckInv, OpeningInv, HandshakeSound, Connected, Accepted
  <2> QED BY <2>1, <2>2
<1> QED BY <1>1, <1>2, PTL DEF Spec

\* As long as no payload has been read as a header, no acknowledgement is ahead
\* of what the device has sent, with any buffer sizes, any splitting into
\* transfers, any retransmission, any failing read or write and any leftovers
\* that the flush still catches: session_recv_frame and the parse loop compute
\* rx_ack soundly where sequence numbers do not wrap. Payload that is taken for
\* a header carries any number, and the hypothesis ends there.
THEOREM AckSafety == ASSUME NoWrap, NoStray PROVE Spec => []AckSound
<1>1. IInv => AckSound
  <2> SUFFICES ASSUME IInv, ~misread
               PROVE  rx_ack <= snd_nxt /\ \A i \in 1..Len(out) : out[i].ack <= snd_nxt
    BY DEF AckSound
  <2>1. out \in Seq(SoundSegment) /\ rx_ack <= snd_nxt
    BY DEF IInv, AckInv
  <2>2. ASSUME NEW i \in 1..Len(out) PROVE out[i].ack <= snd_nxt
    <3>1. out[i] \in SoundSegment
      BY <2>1, ElementOfSeq
    <3> QED BY <3>1 DEF SoundSegment
  <2> QED BY <2>1, <2>2
<1> QED BY <1>1, SoundAlways, PTL

\* session_connect goes past its handshake only when the device accepted this
\* very connection: until then only bare headers are under way, and none of
\* them can be misread.
THEOREM HandshakeSafety == ASSUME NoWrap, NoStray PROVE Spec => []HandshakeSound
<1>1. IInv => HandshakeSound
  BY DEF IInv
<1> QED BY <1>1, SoundAlways, PTL
-----------------------------------------------------------------------------
(* What is under way to the device.                                        *)

\* TxContiguous with what makes it inductive: a SYN carries no payload, so the
\* one number that the device takes for it is all the sequence space it has.
SynIsBare == \A i \in 1..Len(out) : "SYN" \in out[i].flags => out[i].len = 0
TxInv == TxContiguous /\ SynIsBare

\* A frame that session_send_frame writes starts where the last one ended, and
\* tx_seq moves to its end; a write that fails moves nothing, and ends the
\* claim when the frame has reached the device.
LEMMA TxSend ==
  ASSUME Types, TxInv, NEW flags \in SUBSET Flags, NEW n \in 0..MaxPay, NEW ack \in Nat,
         "SYN" \in flags => n = 0, SendOrFail(flags, n, ack), UNCHANGED <<dstate, rcv_nxt>>
  PROVE  TxInv'
<1> DEFINE f == Frame(flags, n, ack)
<1>1. f \in Segment /\ f.seq = tx_seq /\ f.flags = flags /\ f.len = n
  BY DEF Types, Segment, Frame
<1>2. \/ UNCHANGED <<tx_seq, out, reached>>
      \/ out' = Append(out, f) /\ reached'
      \/ out' = Append(out, f) /\ tx_seq' = SegmentEnd(f) /\ UNCHANGED reached
  BY <1>1 DEF SendOrFail, SendFrame, WriteFails, SegmentEnd
<1> HIDE DEF f
<1>3. CASE UNCHANGED <<tx_seq, out, reached>>
  BY <1>3 DEF TxInv, TxContiguous, SynIsBare
<1>4. ASSUME out' = Append(out, f)
      PROVE  /\ out \in Seq(Segment) /\ Len(out) \in Nat /\ Len(out') = Len(out) + 1
             /\ \A i \in 1..Len(out) : out'[i] = out[i]
             /\ out'[Len(out) + 1] = f
             /\ SynIsBare'
  <2>1. /\ out \in Seq(Segment) /\ Len(out) \in Nat /\ Len(out') = Len(out) + 1
        /\ \A i \in 1..Len(out) : out'[i] = out[i]
        /\ out'[Len(out) + 1] = f
    BY <1>1, <1>4, AppendProperties DEF Types
  <2>2. SynIsBare'
    BY <1>1, <2>1 DEF TxInv, SynIsBare
  <2> QED BY <2>1, <2>2
<1>5. CASE out' = Append(out, f) /\ reached'
  BY <1>4, <1>5 DEF TxInv, TxContiguous
<1>6. CASE out' = Append(out, f) /\ tx_seq' = SegmentEnd(f) /\ UNCHANGED reached
  <2> SUFFICES ASSUME ~reached PROVE TxInv'
    BY <1>4, <1>6 DEF TxInv, TxContiguous
  <2>1. f \in Segment /\ f.seq = tx_seq
    BY <1>1
  <2>2. out' = Append(out, f) /\ tx_seq' = SegmentEnd(f)
    BY <1>6
  <2>3. /\ out \in Seq(Segment) /\ Len(out) \in Nat /\ Len(out') = Len(out) + 1
        /\ \A i \in 1..Len(out) : out'[i] = out[i]
        /\ out'[Len(out) + 1] = f
        /\ SynIsBare'
    BY <1>4, <2>2
  <2>4. \A i \in 2..Len(out') : out'[i].seq = SegmentEnd(out'[i - 1])
    <3> SUFFICES ASSUME NEW i \in 2..Len(out') PROVE out'[i].seq = SegmentEnd(out'[i - 1])
      OBVIOUS
    <3>1. i - 1 \in 1..Len(out) /\ out'[i - 1] = out[i - 1]
      BY <2>3
    <3>2. CASE i \in 2..Len(out)
      <4>1. out'[i] = out[i] /\ out[i].seq = SegmentEnd(out[i - 1])
        BY <2>3, <3>2 DEF TxInv, TxContiguous
      <4> QED BY <3>1, <4>1
    <3>3. CASE i = Len(out) + 1
      <4>1. out # <<>> /\ i - 1 = Len(out)
        BY <2>3, <3>1, <3>3
      <4>2. tx_seq = SegmentEnd(out[Len(out)])
        BY <4>1 DEF TxInv, TxContiguous
      <4> QED BY <2>1, <2>3, <3>1, <3>3, <4>1, <4>2
    <3> QED BY <2>3, <3>2, <3>3
  <2>5. tx_seq' = SegmentEnd(out'[Len(out')])
    BY <2>2, <2>3
  <2>7. out' # <<>> /\ Head(out') = IF out = <<>> THEN f ELSE Head(out)
    <3>1. out' # <<>> /\ Head(out') = out'[1]
      BY <2>3
    <3>2. CASE out = <<>>
      BY <2>3, <3>1, <3>2
    <3>3. CASE out # <<>>
      <4>1. 1 \in 1..Len(out)
        BY <2>3, <3>3
      <4> QED BY <2>3, <3>1, <3>3, <4>1
    <3> QED BY <3>2, <3>3
  <2>8. dstate' \notin {"listen", "refused"} =>
          rcv_nxt' = IF out' = <<>> THEN tx_seq' ELSE Head(out').seq
    BY <2>1, <2>7 DEF TxInv, TxContiguous
  <2> HIDE DEF TxInv
  <2> QED BY <2>3, <2>4, <2>5, <2>8 DEF TxInv, TxContiguous, SegmentEnd
<1> QED BY <1>2, <1>3, <1>5, <1>6

\* The frames behind the first one keep what is said of all of them.
LEMMA BareTail ==
  ASSUME Types, SynIsBare, out # <<>>, out' = Tail(out)
  PROVE  SynIsBare'
<1> SUFFICES ASSUME NEW i \in 1..Len(out'), "SYN" \in out'[i].flags PROVE out'[i].len = 0
  BY DEF SynIsBare
<1>1. i + 1 \in 1..Len(out) /\ out'[i] = out[i + 1]
  BY HeadTailProperties DEF Types
<1> QED BY <1>1 DEF SynIsBare

\* The device takes the first frame: the rest stays contiguous, and what it
\* expects next, if it accepts the frame, is the start of the following one.
LEMMA TxTake ==
  ASSUME Types, TxInv, ~reached, out # <<>>, out' = Tail(out), UNCHANGED tx_seq
  PROVE  /\ \A i \in 2..Len(out') : out'[i].seq = SegmentEnd(out'[i - 1])
         /\ out' # <<>> => tx_seq' = SegmentEnd(out'[Len(out')])
         /\ (IF out' = <<>> THEN tx_seq' ELSE Head(out').seq) = SegmentEnd(Head(out))
<1>1. /\ out \in Seq(Segment) /\ Len(out) \in Nat /\ Len(out) >= 1 /\ Head(out) = out[1]
      /\ Len(out') = Len(out) - 1
      /\ \A i \in 1..Len(out') : out'[i] = out[i + 1]
  <2>1. out \in Seq(Segment)
    BY DEF Types
  <2> QED BY <2>1, HeadTailProperties
<1>2. \A i \in 2..Len(out') : out'[i].seq = SegmentEnd(out'[i - 1])
  <2> SUFFICES ASSUME NEW i \in 2..Len(out') PROVE out'[i].seq = SegmentEnd(out'[i - 1])
    OBVIOUS
  <2>1. i \in 1..Len(out') /\ i - 1 \in 1..Len(out') /\ i + 1 \in 2..Len(out) /\ (i + 1) - 1 = i
    BY <1>1
  <2>2. out'[i] = out[i + 1] /\ out'[i - 1] = out[i]
    BY <1>1, <2>1
  <2>3. out[i + 1].seq = SegmentEnd(out[(i + 1) - 1])
    BY <2>1 DEF TxInv, TxContiguous
  <2> QED BY <2>1, <2>2, <2>3
<1>3. tx_seq = SegmentEnd(out[Len(out)])
  BY DEF TxInv, TxContiguous
<1>4. CASE Len(out) = 1
  <2>1. Len(out') = 0
    BY <1>1, <1>4
  <2>2. out' = <<>>
    BY <1>1, <2>1
  <2>3. tx_seq = SegmentEnd(Head(out))
    BY <1>1, <1>3, <1>4
  <2> QED BY <1>2, <2>2, <2>3
<1>5. CASE Len(out) > 1
  <2>1. out' # <<>> /\ Len(out') \in 1..Len(out') /\ 1 \in 1..Len(out') /\ Head(out') = out'[1]
    <3>1. out' \in Seq(Segment)
      BY HeadTailProperties DEF Types
    <3>2. Len(out') \in 1..Len(out') /\ 1 \in 1..Len(out') /\ Len(out') # 0
      BY <1>1, <1>5
    <3>3. out' # <<>>
      BY <3>1, <3>2, EmptySeq
    <3>4. Head(out') = out'[1]
      BY <3>1, <3>3, HeadTailProperties
    <3> QED BY <3>2, <3>3, <3>4
  <2>2. out'[Len(out')] = out[Len(out)] /\ out'[1] = out[2]
    BY <1>1, <2>1
  <2>3. out[2].seq = SegmentEnd(out[1])
    <3>1. 2 \in 2..Len(out) /\ 2 - 1 = 1
      BY <1>1, <1>5
    <3> QED BY <3>1 DEF TxInv, TxContiguous
  <2> QED BY <1>1, <1>2, <1>3, <2>1, <2>2, <2>3
<1> QED BY <1>1, <1>4, <1>5

\* A step of the host keeps what is under way contiguous.
LEMMA TxHost ==
  ASSUME Types, TxInv, ConnectStep \/ ReadStep \/ RecvStep \/ SendCall \/ CloseCall
  PROVE  TxInv'
<1> USE DEF hostVars, devVars
<1>0. rx_ack \in Nat /\ 0 \in 0..MaxPay /\ {{"SYN"}, {"ACK"}, {"FIN", "ACK"}} \subseteq SUBSET Flags
  BY ConstantsAssumption DEF Types, Flags
<1>1. ASSUME UNCHANGED <<tx_seq, out, dstate, rcv_nxt, reached>> PROVE TxInv'
  BY <1>1 DEF TxInv, TxContiguous, SynIsBare
<1>2. CASE SendSyn
  <2>1. SendOrFail({"SYN"}, 0, rx_ack) /\ UNCHANGED <<dstate, rcv_nxt>>
    BY <1>2 DEF SendSyn, SendOrFail
  <2> QED BY <1>0, <2>1, TxSend
<1>3. CASE SendHandshakeAck
  <2>1. SendOrFail({"ACK"}, 0, rx_ack) /\ UNCHANGED <<dstate, rcv_nxt>>
    BY <1>3 DEF SendHandshakeAck, SendOrFail
  <2> QED BY <1>0, <2>1, TxSend
<1>4. ASSUME NEW h, ParseFrame(h) PROVE TxInv'
  <2>1. ParseReady(h) /\ UNCHANGED <<dstate, rcv_nxt>>
    BY <1>4 DEF ParseFrame
  <2>2. AckAfter(h) \in Nat
    BY <2>1, PayloadType, AckType DEF Types
  <2>3. CASE h.len > 0
    <3>1. SendOrFail({"ACK"}, 0, AckAfter(h))
      BY <1>4, <2>3 DEF ParseFrame
    <3> QED BY <1>0, <2>1, <2>2, <3>1, TxSend
  <2>4. CASE ~(h.len > 0)
    <3>1. UNCHANGED <<tx_seq, out, dstate, rcv_nxt, reached>>
      BY <1>4, <2>4 DEF ParseFrame
    <3> QED BY <1>1, <3>1
  <2> QED BY <2>3, <2>4
<1>5. CASE RecvControl \/ RecvData
  <2>1. rx_ack' \in Nat /\ UNCHANGED <<dstate, rcv_nxt>>
    BY <1>5, FrameReadType DEF RecvControl, RecvData
  <2>2. \/ UNCHANGED <<tx_seq, out, reached>>
        \/ SendOrFail({"FIN", "ACK"}, 0, rx_ack')
        \/ SendOrFail({"ACK"}, 0, rx_ack')
    BY <1>5 DEF RecvControl, RecvData
  <2>3. CASE UNCHANGED <<tx_seq, out, reached>>
    BY <1>1, <2>1, <2>3
  <2>4. CASE SendOrFail({"FIN", "ACK"}, 0, rx_ack')
    BY <1>0, <2>1, <2>4, TxSend
  <2>5. CASE SendOrFail({"ACK"}, 0, rx_ack')
    BY <1>0, <2>1, <2>5, TxSend
  <2> QED BY <2>2, <2>3, <2>4, <2>5
<1>6. CASE SendCall
  <2>1. PICK n \in 1..MaxPay : SendOrFail({"ACK"}, n, rx_ack)
    BY <1>6 DEF SendCall
  <2>2. n \in 0..MaxPay /\ UNCHANGED <<dstate, rcv_nxt>>
    BY <1>6, ConstantsAssumption DEF SendCall
  <2> QED BY <1>0, <2>1, <2>2, TxSend
<1>7. CASE CloseCall
  <2>1. SendOrFail({"FIN", "ACK"}, 0, rx_ack) /\ UNCHANGED <<dstate, rcv_nxt>>
    BY <1>7 DEF CloseCall
  <2> QED BY <1>0, <2>1, TxSend
<1>8. CASE \/ FlushPoll \/ FlushEnd \/ DrainPoll \/ DrainEnd \/ ParseStop \/ ParseDropByte
           \/ ParseWild \/ (\E h : ParseDuplicate(h)) \/ ReadChunk \/ ReadFails \/ ReadHeader
           \/ HandshakeFrame \/ RecvStep
  <2>1. UNCHANGED <<tx_seq, out, dstate, rcv_nxt, reached>>
    BY <1>8 DEF FlushPoll, FlushEnd, DrainPoll, DrainEnd, ParseStop, ParseDropByte, ParseWild,
       ParseDuplicate, ReadChunk, ReadFails, ReadHeader, HandshakeFrame, RecvStep, RecvPrebuf, RecvCall
  <2> QED BY <1>1, <2>1
<1> QED BY <1>2, <1>3, <1>4, <1>5, <1>6, <1>7, <1>8 DEF ConnectStep, ReadStep

\* A step of the device does too: it takes frames from the front only, and
\* expects next what the first of the others starts with.
LEMMA TxDevice == ASSUME Types, TxInv, DevStep PROVE TxInv'
<1> USE DEF hostVars, devVars
<1>1. ASSUME UNCHANGED reached, out # <<>>, out' = Tail(out), UNCHANGED tx_seq,
             (~reached /\ dstate' \notin {"listen", "refused"}) => rcv_nxt' = SegmentEnd(Head(out))
      PROVE  TxInv'
  <2>1. SynIsBare'
    BY <1>1, BareTail DEF TxInv
  <2>2. CASE reached
    BY <1>1, <2>1, <2>2 DEF TxInv, TxContiguous
  <2>3. CASE ~reached
    BY <1>1, <2>1, <2>3, TxTake DEF TxInv, TxContiguous
  <2> QED BY <2>2, <2>3
<1>2. CASE DevAccept
  <2>1. out # <<>> /\ out' = Tail(out) /\ UNCHANGED <<tx_seq, reached>>
    BY <1>2 DEF DevAccept
  <2>2. Head(out).len = 0 /\ "SYN" \in Head(out).flags
    <3>1. 1 \in 1..Len(out) /\ Head(out) = out[1]
      BY <2>1, HeadTailProperties DEF Types
    <3> QED BY <1>2, <3>1 DEF DevAccept, TxInv, SynIsBare
  <2>3. rcv_nxt' = SegmentEnd(Head(out))
    <3>1. TxSpace(Head(out).flags, Head(out).len) = 1
      BY <2>2 DEF TxSpace
    <3> QED BY <1>2, <3>1 DEF DevAccept, SegmentEnd
  <2> QED BY <1>1, <2>1, <2>3
<1>3. CASE DevRefuse
  <2>1. /\ out # <<>> /\ out' = Tail(out) /\ UNCHANGED <<tx_seq, reached>>
        /\ dstate' = "refused"
    BY <1>3 DEF DevRefuse
  <2> QED BY <1>1, <2>1
<1>4. CASE DevRecv
  <2>1. out # <<>> /\ out' = Tail(out) /\ UNCHANGED <<tx_seq, reached>>
    BY <1>4 DEF DevRecv
  <2>2. ASSUME ~reached, dstate' \notin {"listen", "refused"} PROVE rcv_nxt' = SegmentEnd(Head(out))
    <3>1. Head(out).seq = rcv_nxt
      <4>1. CASE dstate \in {"listen", "refused"}
        BY <1>4, <2>2, <4>1 DEF DevRecv
      <4>2. CASE dstate \notin {"listen", "refused"}
        BY <2>1, <2>2, <4>2 DEF TxInv, TxContiguous
      <4> QED BY <4>1, <4>2
    <3> QED BY <1>4, <3>1 DEF DevRecv, SegmentEnd
  <2> QED BY <1>1, <2>1, <2>2
<1>5. CASE DevSend \/ DevFin \/ DevReset \/ DevPureAck \/ DevRetransmit \/ LateArrives
  <2>1. UNCHANGED <<tx_seq, out, rcv_nxt, reached>> /\ (dstate' = dstate \/ dstate = "open")
    BY <1>5 DEF DevSend, DevFin, DevReset, DevPureAck, DevRetransmit, LateArrives, MaySend
  <2> QED BY <2>1 DEF TxInv, TxContiguous, SynIsBare
<1> QED BY <1>2, <1>3, <1>4, <1>5 DEF DevStep

\* What is under way to the device is one unbroken piece of the host's stream,
\* from what the device expects to tx_seq, whatever writes are lost, whatever
\* the device refuses, whatever is misread, and also where the numbers wrap,
\* until a frame reaches the device though its write was reported to fail.
THEOREM NothingIsSkipped == Spec => []TxContiguous
<1>1. Init => TxInv
  BY DEF Init, TxInv, TxContiguous, SynIsBare
<1>2. Types /\ TxInv /\ [Next]_vars => TxInv'
  <2>1. Types /\ TxInv /\ Next => TxInv'
    BY TxHost, TxDevice DEF Next
  <2>2. TxInv /\ UNCHANGED vars => TxInv'
    BY DEF TxInv, TxContiguous, SynIsBare, vars, hostVars, devVars
  <2> QED BY <2>1, <2>2
<1>3. TxInv => TxContiguous
  BY DEF TxInv
<1>4. Spec => []Types
  <2>1. TypeOK => Types
    BY DEF TypeOK
  <2> QED BY <2>1, TypeCorrect, PTL
<1> QED BY <1>1, <1>2, <1>3, <1>4, PTL DEF Spec
=============================================================================
