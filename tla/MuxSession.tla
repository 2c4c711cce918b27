----------------------------- MODULE MuxSession -----------------------------
(***************************************************************************)
(* One TCP-like session of core/usb/mux.c over a USB pipe.                 *)
(*                                                                         *)
(* The host side is the code: session_connect (flush, handshake, drain,    *)
(* parse), session_recv, session_send_frame and session_close, down to the *)
(* receive buffer of usb_pipe_read and usb_pipe_poll.  The device side     *)
(* (usbmuxd's peer inside the phone) is external: it is the TCP endpoint   *)
(* that the code talks to, with the retransmissions that the code's        *)
(* de-duplication expects.                                                 *)
(*                                                                         *)
(* The byte stream from the device is a sequence of cells.  A frame of n   *)
(* payload units is n + 1 cells: a header cell, which stands for the 28    *)
(* bytes of mux and TCP header, and n data cells, each named by its        *)
(* sequence number.  A USB transfer carries any prefix of what the device  *)
(* wrote, so a frame may be split and frames may be coalesced.             *)
(***************************************************************************)
EXTENDS Integers, Sequences, FiniteSets

CONSTANTS
    TxInit,       \* the caller's first tx_seq (100 in both clients)
    ISN,          \* the device's initial sequence number
    SeqMod,       \* sequence numbers are unsigned, modulo SeqMod (2^32)
    StreamLen,    \* how many units the service sends at most
    MaxPay,       \* the largest payload of one frame
    MaxChunk,     \* MAX_TRANSFER_SIZE, in cells
    RxCap,        \* sizeof rx_buf, in cells
    PrebufCap,    \* sizeof prebuf, in units
    SeenCap,      \* the entries of the table seen
    BufSizes,     \* the buffer sizes that callers pass to session_recv
    TxLimit,      \* bound: the caller sends while tx_seq is below it
    EarlyFrames,  \* frames (data or FIN) the service sends before any request
    RetxAnyTime,  \* FALSE: the device's timer only expires in the drain
    Misreads,     \* the headers that payload bytes may be taken for
    Stale,        \* frames (cell sequences) an earlier session left behind
    MaxLate,      \* how many of them arrive after connect has started
    LateAnyTime,  \* FALSE: they arrive while session_connect flushes
    Faults        \* bounds: fault |-> how often it may happen, one per behaviour

Flags == {"SYN", "ACK", "FIN", "RST"}
FaultNames == {"poll", "read", "write", "retransmit", "pureack"}
MaxFrame == MaxPay     \* a larger total_len is rejected by session_recv_frame

Cell == [hdr: BOOLEAN, seq: Nat, flags: SUBSET Flags, len: 0..MaxPay, old: BOOLEAN]
WildHeader == [hdr: {TRUE}, seq: Nat, flags: SUBSET Flags, len: Nat, old: {FALSE}]
Segment == [seq: Nat, ack: Nat, flags: SUBSET Flags, len: 0..MaxPay]

ASSUME ConstantsAssumption ==
    /\ {TxInit, ISN, StreamLen} \subseteq Nat
    /\ {SeqMod, MaxPay, MaxChunk, RxCap, PrebufCap, SeenCap} \subseteq Nat \ {0}
    /\ MaxPay < SeqMod /\ ISN < SeqMod /\ TxInit < SeqMod
    /\ TxLimit \in Nat /\ EarlyFrames \in Nat /\ MaxLate \in Nat
    /\ BufSizes \subseteq Nat \ {0}
    /\ RetxAnyTime \in BOOLEAN /\ LateAnyTime \in BOOLEAN
    /\ Misreads \subseteq WildHeader
    /\ Stale \subseteq Seq(Cell)
    /\ Faults \subseteq [FaultNames -> Nat]

VARIABLES
    pc,        \* where the host's only thread is
    tx_seq, rx_ack, prebuf,     \* the fields of mux_session_t
    rx_buf,    \* the receive buffer of usb_pipe_t
    cur,       \* the header of the frame being read, <<>> between frames
    seen,      \* the de-duplication table of session_connect
    bufsz,     \* the size passed to the session_recv in progress
    delivered, \* everything session_recv has taken for its callers
    missed,    \* the places in delivered that a caller's buffer had no room for
    misread,   \* payload was read as a header: the reader may be inside a cell
    reached,   \* a frame reached the device though its write was reported to fail
    in, out,   \* the bulk endpoints: cells to the host, segments to the device
    dstate,    \* the device's connection
    snd_una, snd_nxt, rcv_nxt,  \* its TCP variables
    produced,  \* how many units its service has sent
    sent,      \* the headers it has sent, for retransmission
    late,      \* stale frames still to arrive
    budget     \* the faults still allowed

hostVars == <<tx_seq, rx_ack, prebuf, rx_buf, cur, seen, bufsz, delivered, missed, misread>>
devVars == <<dstate, snd_una, snd_nxt, rcv_nxt, produced, sent, late>>
vars == <<pc, hostVars, devVars, in, out, budget, reached>>

-----------------------------------------------------------------------------
(* Sequence numbers, cells and frames.                                     *)

\* s + n in uint32_t
Add(s, n) == IF s + n >= SeqMod THEN s + n - SeqMod ELSE s + n

Header(seq, flags, n) == [hdr |-> TRUE, seq |-> seq, flags |-> flags, len |-> n, old |-> FALSE]
Data(seq) == [hdr |-> FALSE, seq |-> seq, flags |-> {}, len |-> 0, old |-> FALSE]

\* what the device writes for a frame: the header, then the payload
FrameCells(h) == <<h>> \o [i \in 1..h.len |-> Data(Add(h.seq, i - 1))]

\* sequence space that the host gives to a frame it receives
Consumed(h) == h.len + (IF "SYN" \in h.flags THEN 1 ELSE 0) + (IF "FIN" \in h.flags THEN 1 ELSE 0)

\* sequence space that the host gives to a frame it sends
TxSpace(flags, n) == n + (IF "SYN" \in flags \/ "FIN" \in flags THEN 1 ELSE 0)

\* mutant: every frame takes a sequence number, not only SYN and FIN
AckAfterAny(h) ==
    LET new_ack == Add(h.seq, h.len + 1) IN IF new_ack > rx_ack THEN new_ack ELSE rx_ack

\* rx_ack after a frame; the comparison is the code's plain one
AckAfter(h) ==
    LET new_ack == Add(h.seq, Consumed(h))
    IN  IF Consumed(h) > 0 /\ new_ack > rx_ack THEN new_ack ELSE rx_ack

Least(a, b) == IF a < b THEN a ELSE b

Spend(f) == budget[f] > 0 /\ budget' = [budget EXCEPT ![f] = @ - 1]

-----------------------------------------------------------------------------
(* usb_pipe_write and session_send_frame.                                  *)

Frame(flags, n, ack) == [seq |-> tx_seq, ack |-> ack, flags |-> flags, len |-> n]

SendFrame(flags, n, ack) ==
    /\ out' = Append(out, Frame(flags, n, ack))
    /\ tx_seq' = Add(tx_seq, TxSpace(flags, n))
    /\ UNCHANGED <<budget, reached>>

\* mutant: tx_seq advances before the result of the write is looked at
WriteFailsAdvanced(flags, n, ack) ==
    Spend("write") /\ tx_seq' = Add(tx_seq, 1) /\ UNCHANGED <<out, reached>>

\* The write reports an error or a timeout.  Either the frame is lost, or the
\* device has received it all the same.
WriteFails(flags, n, ack) ==
    /\ Spend("write")
    /\ UNCHANGED tx_seq
    /\ \/ UNCHANGED <<out, reached>>
       \/ out' = Append(out, Frame(flags, n, ack)) /\ reached' = TRUE

\* the callers that ignore the result of session_send_frame
SendOrFail(flags, n, ack) == SendFrame(flags, n, ack) \/ WriteFails(flags, n, ack)

\* one bulk transfer takes the first k cells the device wrote
Transfers == {k \in 1..MaxChunk : k <= Len(in)}
Take(k) == in' = SubSeq(in, k + 1, Len(in))
Chunk(k) == SubSeq(in, 1, k)

\* mutant: the chunk is copied without looking at the room in rx_buf
PollUnchecked(k) == Take(k) /\ rx_buf' = rx_buf \o Chunk(k)

\* usb_pipe_poll: a chunk that does not fit in rx_buf is dropped
Poll(k) ==
    /\ Take(k)
    /\ rx_buf' = IF Len(rx_buf) + k <= RxCap THEN rx_buf \o Chunk(k) ELSE rx_buf

\* usb_pipe_poll returns 0: nothing arrived in time, or the transfer failed
PollNothing == (in = <<>> /\ UNCHANGED budget) \/ Spend("poll")

-----------------------------------------------------------------------------
(* session_connect: flush, SYN, handshake, ACK, drain, parse.              *)

FlushPoll ==
    /\ pc = "flush"
    /\ \E k \in Transfers : Poll(k)
    /\ UNCHANGED <<pc, tx_seq, rx_ack, prebuf, cur, misread, seen, bufsz, delivered, missed>>
    /\ UNCHANGED <<devVars, out, budget, reached>>

\* mutant: rx_len keeps what the flush has read
FlushEndKeeps ==
    /\ pc = "flush"
    /\ PollNothing
    /\ pc' = "syn"
    /\ UNCHANGED <<tx_seq, rx_ack, prebuf, rx_buf, cur, misread, seen, bufsz, delivered, missed>>
    /\ UNCHANGED <<devVars, in, out, reached>>

FlushEnd ==
    /\ pc = "flush"
    /\ PollNothing
    /\ rx_buf' = <<>>
    /\ pc' = "syn"
    /\ UNCHANGED <<tx_seq, rx_ack, prebuf, cur, misread, seen, bufsz, delivered, missed>>
    /\ UNCHANGED <<devVars, in, out, reached>>

SendSyn ==
    /\ pc = "syn"
    /\ \/ SendFrame({"SYN"}, 0, rx_ack) /\ pc' = "handshake"
       \/ WriteFails({"SYN"}, 0, rx_ack) /\ pc' = "failed"
    /\ UNCHANGED <<rx_ack, prebuf, rx_buf, cur, misread, seen, bufsz, delivered, missed>>
    /\ UNCHANGED <<devVars, in>>

SendHandshakeAck ==
    /\ pc = "ack"
    /\ \/ SendFrame({"ACK"}, 0, rx_ack) /\ pc' = "drain"
       \/ WriteFails({"ACK"}, 0, rx_ack) /\ pc' = "failed"
    /\ UNCHANGED <<rx_ack, prebuf, rx_buf, cur, misread, seen, bufsz, delivered, missed>>
    /\ UNCHANGED <<devVars, in>>

DrainPoll ==
    /\ pc = "drain"
    /\ \E k \in Transfers : Poll(k)
    /\ UNCHANGED <<pc, tx_seq, rx_ack, prebuf, cur, misread, seen, bufsz, delivered, missed>>
    /\ UNCHANGED <<devVars, out, budget, reached>>

DrainEnd ==
    /\ pc = "drain"
    /\ PollNothing
    /\ seen' = {}
    /\ pc' = "parse"
    /\ UNCHANGED <<tx_seq, rx_ack, prebuf, rx_buf, cur, misread, bufsz, delivered, missed>>
    /\ UNCHANGED <<devVars, in, out, reached>>

\* mutant: the loop waits for a frame that is not complete
ParseStopEmpty ==
    /\ pc = "parse"
    /\ rx_buf = <<>>
    /\ pc' = "idle"
    /\ UNCHANGED <<hostVars, devVars, in, out, budget, reached>>

\* What the reader may take for a header at the front of rx_buf: the header
\* that is there, and where payload lies there or where the reader may be inside
\* a cell, whatever the bytes spell.
MayMisread == rx_buf # <<>> /\ (misread \/ ~Head(rx_buf).hdr)
FrontHeaders ==
    (IF rx_buf # <<>> /\ Head(rx_buf).hdr THEN {Head(rx_buf)} ELSE {})
    \cup (IF MayMisread THEN Misreads ELSE {})
TakenAsHeader(h) == misread' = (misread \/ h # Head(rx_buf))

\* rx_len < 8, or the first frame is not complete: connect returns 0
ParseStop ==
    /\ pc = "parse"
    /\ \/ rx_buf = <<>>
       \/ \E h \in FrontHeaders : h.len + 1 > Len(rx_buf)
       \/ MayMisread     \* a length above rx_len
    /\ pc' = "idle"
    /\ UNCHANGED <<hostVars, devVars, in, out, budget, reached>>

\* a length below 28: skip a byte and try again
ParseDropByte ==
    /\ pc = "parse"
    /\ MayMisread
    /\ rx_buf' = Tail(rx_buf)
    /\ UNCHANGED <<pc, tx_seq, rx_ack, prebuf, cur, seen, bufsz, delivered, missed, misread>>
    /\ UNCHANGED <<devVars, in, out, budget, reached>>

\* A length of 2^31 or more is negative where it is compared with rx_len, so
\* memmove moves and rx_len counts outside the buffer: from there on nothing
\* is known of the program.
ParseWild ==
    /\ pc = "parse"
    /\ MayMisread
    /\ pc' = "undefined"
    /\ misread' = TRUE
    /\ UNCHANGED <<tx_seq, rx_ack, prebuf, rx_buf, cur, seen, bufsz, delivered, missed>>
    /\ UNCHANGED <<devVars, in, out, budget, reached>>

ParseReady(h) == pc = "parse" /\ h \in FrontHeaders /\ h.len < Len(rx_buf) /\ TakenAsHeader(h)
AfterFrame(h) == SubSeq(rx_buf, h.len + 2, Len(rx_buf))
SeenKey(h) == <<h.seq, h.flags \ {"RST"}>>

ParseDuplicate(h) ==
    /\ ParseReady(h)
    /\ SeenKey(h) \in seen
    /\ rx_buf' = AfterFrame(h)
    /\ UNCHANGED <<pc, tx_seq, rx_ack, prebuf, cur, seen, bufsz, delivered, missed>>
    /\ UNCHANGED <<devVars, in, out, budget, reached>>

\* What the payload pointer of parse_frame shows when it is copied to prebuf.
\* It still points at rx_buf + 28, but the frame has been moved out of the
\* buffer: the cells of the frames behind it now lie there, and the frame's
\* own payload only where nothing was moved over it.
PayloadAfterMove(h) ==
    [i \in 1..h.len |->
        IF i + 1 <= Len(AfterFrame(h)) THEN AfterFrame(h)[i + 1] ELSE rx_buf[i + 1]]

\* mutant: a frame that was seen before is taken again
ParseFrameAgain(h) ==
    /\ ParseReady(h)
    /\ seen' = seen \cup {SeenKey(h)}
    /\ rx_buf' = AfterFrame(h)
    /\ rx_ack' = AckAfter(h)
    /\ prebuf' = prebuf \o PayloadAfterMove(h)
    /\ UNCHANGED <<pc, tx_seq, out, budget, reached, cur, bufsz, delivered, missed>>
    /\ UNCHANGED <<devVars, in>>

ParseFrame(h) ==
    /\ ParseReady(h)
    /\ SeenKey(h) \notin seen
    /\ seen' = IF Cardinality(seen) < SeenCap THEN seen \cup {SeenKey(h)} ELSE seen
    /\ rx_buf' = AfterFrame(h)
    /\ rx_ack' = AckAfter(h)
    /\ prebuf' = IF Len(prebuf) + h.len <= PrebufCap THEN prebuf \o PayloadAfterMove(h) ELSE prebuf
    /\ IF h.len > 0
       THEN SendOrFail({"ACK"}, 0, AckAfter(h))
       ELSE UNCHANGED <<tx_seq, out, budget, reached>>
    /\ UNCHANGED <<pc, cur, bufsz, delivered, missed, devVars, in>>

-----------------------------------------------------------------------------
(* session_recv_frame: usb_pipe_read of the header, then of the rest.      *)

Reading == pc \in {"handshake", "recv"}
Need == IF cur = <<>> THEN 1 ELSE Head(cur).len
\* session_connect returns -1, session_recv returns -1 to its caller
AfterFailure == IF pc = "handshake" THEN "failed" ELSE "idle"

ReadChunk ==
    /\ Reading
    /\ Len(rx_buf) < Need
    /\ \E k \in Transfers :
          /\ Take(k)
          /\ IF Len(rx_buf) + k > RxCap
             THEN pc' = AfterFailure /\ cur' = <<>> /\ UNCHANGED rx_buf
             ELSE rx_buf' = rx_buf \o Chunk(k) /\ UNCHANGED <<pc, cur>>
    /\ UNCHANGED <<tx_seq, rx_ack, prebuf, seen, bufsz, delivered, missed, misread>>
    /\ UNCHANGED <<devVars, out, budget, reached>>

\* the fourth timeout in a row, or a transfer error: the buffer is cleared
ReadFails ==
    /\ Reading
    /\ Len(rx_buf) < Need
    /\ (in = <<>> /\ UNCHANGED budget) \/ Spend("read")
    /\ rx_buf' = <<>>
    /\ cur' = <<>>
    /\ pc' = AfterFailure
    /\ UNCHANGED <<tx_seq, rx_ack, prebuf, seen, bufsz, delivered, missed, misread>>
    /\ UNCHANGED <<devVars, in, out, reached>>

ReadHeader ==
    /\ Reading
    /\ cur = <<>>
    /\ rx_buf # <<>>
    /\ rx_buf' = Tail(rx_buf)
    /\ \/ \E h \in FrontHeaders :
             h.len <= MaxFrame /\ cur' = <<h>> /\ TakenAsHeader(h) /\ UNCHANGED pc
       \/ MayMisread /\ pc' = AfterFailure /\ misread' = TRUE /\ UNCHANGED cur   \* bad total_len
    /\ UNCHANGED <<tx_seq, rx_ack, prebuf, seen, bufsz, delivered, missed>>
    /\ UNCHANGED <<devVars, in, out, budget, reached>>

\* mutant: what the read does not need is dropped, not moved to the front
FrameReadAlone ==
    /\ cur # <<>>
    /\ Len(rx_buf) >= Need
    /\ cur' = <<>>
    /\ rx_buf' = <<>>
    /\ rx_ack' = AckAfter(Head(cur))

\* a whole frame has been read: session_recv_frame advances rx_ack, returns 0
FrameRead ==
    /\ cur # <<>>
    /\ Len(rx_buf) >= Need
    /\ cur' = <<>>
    /\ rx_buf' = SubSeq(rx_buf, Need + 1, Len(rx_buf))
    /\ rx_ack' = AckAfter(Head(cur))
Payload == SubSeq(rx_buf, 1, Need)

HandshakeFrame ==
    /\ pc = "handshake"
    /\ FrameRead
    /\ LET f == Head(cur).flags
       IN  pc' = CASE "RST" \in f -> "failed"
                   [] "RST" \notin f /\ {"SYN", "ACK"} \subseteq f -> "ack"
                   [] OTHER -> "handshake"
    /\ UNCHANGED <<tx_seq, prebuf, seen, bufsz, delivered, missed, misread>>
    /\ UNCHANGED <<devVars, in, out, budget, reached>>

-----------------------------------------------------------------------------
(* The caller: session_recv, session_send_frame, session_close.            *)

RecvPrebuf ==
    /\ pc = "idle"
    /\ prebuf # <<>>
    /\ \E b \in BufSizes :
          LET n == Least(Len(prebuf), b)
          IN  /\ delivered' = delivered \o SubSeq(prebuf, 1, n)
              /\ prebuf' = SubSeq(prebuf, n + 1, Len(prebuf))
    /\ UNCHANGED <<pc, tx_seq, rx_ack, rx_buf, cur, misread, seen, bufsz, missed>>
    /\ UNCHANGED <<devVars, in, out, budget, reached>>

RecvCall ==
    /\ pc = "idle"
    /\ prebuf = <<>>
    /\ bufsz' \in BufSizes
    /\ pc' = "recv"
    /\ UNCHANGED <<tx_seq, rx_ack, prebuf, rx_buf, cur, misread, seen, delivered, missed>>
    /\ UNCHANGED <<devVars, in, out, budget, reached>>

\* RST and FIN make session_recv return -1; an empty frame is skipped
RecvControl ==
    /\ pc = "recv"
    /\ FrameRead
    /\ LET f == Head(cur).flags IN
       \/ "RST" \in f /\ pc' = "idle" /\ UNCHANGED <<tx_seq, out, budget, reached>>
       \/ "RST" \notin f /\ "FIN" \in f /\ pc' = "idle" /\ SendOrFail({"FIN", "ACK"}, 0, rx_ack')
       \/ f \cap {"RST", "FIN"} = {} /\ Need = 0 /\ UNCHANGED <<pc, tx_seq, out, budget, reached>>
    /\ UNCHANGED <<prebuf, seen, bufsz, delivered, missed, misread, devVars, in>>

\* mutant: the last byte of the buffer is kept for a terminator
RecvDataShort ==
    /\ pc = "recv"
    /\ FrameRead
    /\ Head(cur).flags \cap {"RST", "FIN"} = {}
    /\ Need > 0
    /\ delivered' = delivered \o Payload
    /\ missed' = missed \cup {Len(delivered) + i : i \in bufsz..Need}
    /\ SendOrFail({"ACK"}, 0, rx_ack')
    /\ pc' = "idle"
    /\ UNCHANGED <<prebuf, seen, bufsz, misread, devVars, in>>

\* the frame is taken; what does not fit in the caller's buffer is lost
RecvData ==
    /\ pc = "recv"
    /\ FrameRead
    /\ Head(cur).flags \cap {"RST", "FIN"} = {}
    /\ Need > 0
    /\ delivered' = delivered \o Payload
    /\ missed' = missed \cup {Len(delivered) + i : i \in (bufsz + 1)..Need}
    /\ SendOrFail({"ACK"}, 0, rx_ack')
    /\ pc' = "idle"
    /\ UNCHANGED <<prebuf, seen, bufsz, misread, devVars, in>>

SendCall ==
    /\ pc = "idle"
    /\ tx_seq < TxLimit
    /\ \E n \in 1..MaxPay : SendOrFail({"ACK"}, n, rx_ack)
    /\ UNCHANGED <<pc, rx_ack, prebuf, rx_buf, cur, misread, seen, bufsz, delivered, missed>>
    /\ UNCHANGED <<devVars, in>>

CloseCall ==
    /\ pc = "idle"
    /\ SendOrFail({"FIN", "ACK"}, 0, rx_ack)
    /\ pc' = "done"
    /\ UNCHANGED <<rx_ack, prebuf, rx_buf, cur, misread, seen, bufsz, delivered, missed>>
    /\ UNCHANGED <<devVars, in>>

-----------------------------------------------------------------------------
(* The device (external).                                                  *)

\* puts a new frame on the wire and remembers it for retransmission
Emit(h) == in' = in \o FrameCells(h) /\ sent' = sent \cup {h} /\ snd_nxt' = Add(h.seq, Consumed(h))

DevAccept ==
    /\ dstate = "listen"
    /\ out # <<>>
    /\ "SYN" \in Head(out).flags
    /\ dstate' = "open"
    /\ rcv_nxt' = Add(Head(out).seq, 1)
    /\ out' = Tail(out)
    /\ Emit(Header(ISN, {"SYN", "ACK"}, 0))
    /\ UNCHANGED <<pc, hostVars, snd_una, produced, late, budget, reached>>

DevRefuse ==
    /\ dstate = "listen"
    /\ out # <<>>
    /\ "SYN" \in Head(out).flags
    /\ dstate' = "refused"
    /\ out' = Tail(out)
    /\ in' = in \o FrameCells(Header(0, {"RST", "ACK"}, 0))
    /\ UNCHANGED <<pc, hostVars, snd_una, snd_nxt, rcv_nxt, produced, sent, late, budget, reached>>

\* acknowledgements are taken, data only in order
DevRecv ==
    /\ dstate # "listen"
    /\ out # <<>>
    /\ LET f == Head(out) IN
       /\ snd_una' = IF f.ack > snd_una /\ f.ack <= snd_nxt THEN f.ack ELSE snd_una
       /\ rcv_nxt' = IF f.seq = rcv_nxt THEN Add(f.seq, TxSpace(f.flags, f.len)) ELSE rcv_nxt
       /\ dstate' = IF f.seq = rcv_nxt /\ "FIN" \in f.flags THEN "closed" ELSE dstate
    /\ out' = Tail(out)
    /\ UNCHANGED <<pc, hostVars, snd_nxt, produced, sent, late, in, budget, reached>>

\* The service may send: the handshake is acknowledged, and it has a request
\* to answer or is one of the services that speak first.
MaySend ==
    /\ dstate = "open"
    /\ snd_una > ISN
    /\ \/ rcv_nxt > Add(TxInit, 1)
       \/ Cardinality({h \in sent : "SYN" \notin h.flags}) < EarlyFrames

DevSend ==
    /\ MaySend
    /\ \E n \in 1..MaxPay :
          /\ produced + n <= StreamLen
          /\ produced' = produced + n
          /\ Emit(Header(snd_nxt, {"ACK"}, n))
    /\ UNCHANGED <<pc, hostVars, dstate, snd_una, rcv_nxt, late, out, budget, reached>>

DevFin ==
    /\ MaySend
    /\ dstate' = "finished"
    /\ Emit(Header(snd_nxt, {"FIN", "ACK"}, 0))
    /\ UNCHANGED <<pc, hostVars, snd_una, rcv_nxt, produced, late, out, budget, reached>>

DevReset ==
    /\ dstate = "open"
    /\ dstate' = "reset"
    /\ in' = in \o FrameCells(Header(snd_nxt, {"RST", "ACK"}, 0))
    /\ UNCHANGED <<pc, hostVars, snd_una, snd_nxt, rcv_nxt, produced, sent, late, out, budget, reached>>

DevPureAck ==
    /\ dstate = "open"
    /\ Spend("pureack")
    /\ in' = in \o FrameCells(Header(snd_nxt, {"ACK"}, 0))
    /\ UNCHANGED <<pc, hostVars, devVars, out, reached>>

\* the device's timer expires for the oldest frame that is not acknowledged
DevRetransmit ==
    /\ dstate \in {"open", "finished"}
    /\ RetxAnyTime \/ pc = "drain"
    /\ Spend("retransmit")
    /\ \E h \in sent : h.seq = snd_una /\ in' = in \o FrameCells(h)
    /\ UNCHANGED <<pc, hostVars, devVars, out, reached>>

LateArrives ==
    /\ late > 0
    /\ LateAnyTime \/ pc = "flush"
    /\ late' = late - 1
    /\ \E t \in Stale : in' = in \o t
    /\ UNCHANGED <<pc, hostVars, dstate, snd_una, snd_nxt, rcv_nxt, produced, sent, out, budget, reached>>

-----------------------------------------------------------------------------
Init ==
    /\ pc = "flush"
    /\ tx_seq = TxInit /\ rx_ack = 0 /\ prebuf = <<>>
    /\ rx_buf = <<>> /\ cur = <<>> /\ seen = {} /\ bufsz = 0
    /\ delivered = <<>> /\ missed = {} /\ misread = FALSE /\ reached = FALSE
    /\ in \in Stale \cup {<<>>}
    /\ out = <<>>
    /\ dstate = "listen" /\ snd_una = ISN /\ snd_nxt = ISN /\ rcv_nxt = 0
    /\ produced = 0 /\ sent = {}
    /\ late \in 0..MaxLate
    /\ budget \in Faults

ConnectStep ==
    \/ FlushPoll \/ FlushEnd \/ SendSyn \/ SendHandshakeAck
    \/ DrainPoll \/ DrainEnd
    \/ ParseStop \/ ParseDropByte \/ ParseWild
    \/ \E h \in FrontHeaders : ParseDuplicate(h) \/ ParseFrame(h)

ReadStep == ReadChunk \/ ReadFails \/ ReadHeader \/ HandshakeFrame \/ RecvControl \/ RecvData

RecvStep == RecvPrebuf \/ RecvCall

DevStep ==
    \/ DevAccept \/ DevRefuse \/ DevRecv \/ DevSend \/ DevFin \/ DevReset
    \/ DevPureAck \/ DevRetransmit \/ LateArrives

Next == ConnectStep \/ ReadStep \/ RecvStep \/ SendCall \/ CloseCall \/ DevStep

Spec == Init /\ [][Next]_vars

\* The host's thread runs, and every libusb call returns within its timeout;
\* the callers of session_recv loop until they have what they asked for.
FairSpec == Spec /\ WF_vars(ConnectStep \/ ReadStep) /\ WF_vars(RecvStep)

-----------------------------------------------------------------------------
(* Properties.                                                             *)

Types ==
    /\ pc \in {"flush", "syn", "handshake", "ack", "drain", "parse", "idle", "recv",
              "failed", "done", "undefined"}
    /\ misread \in BOOLEAN /\ reached \in BOOLEAN /\ missed \subseteq Nat
    /\ tx_seq \in Nat /\ rx_ack \in Nat
    /\ prebuf \in Seq(Cell) /\ rx_buf \in Seq(Cell) /\ delivered \in Seq(Cell)
    /\ cur \in Seq(Cell) /\ Len(cur) <= 1
    /\ bufsz \in Nat
    /\ in \in Seq(Cell) /\ out \in Seq(Segment)
    /\ dstate \in {"listen", "open", "refused", "finished", "reset", "closed"}
    /\ {snd_una, snd_nxt, rcv_nxt, produced, late} \subseteq Nat
    /\ sent \subseteq Cell
    /\ budget \in [FaultNames -> Nat]

\* No buffer of the code is written past its end before payload is read as a
\* header: rx_buf behind the two checks of usb_pipe_read and usb_pipe_poll,
\* prebuf and the 64 entries of seen behind those of session_connect. After
\* that the sizes hold as long as no length of 2^31 or more has been met.
BuffersFit ==
    /\ Len(rx_buf) <= RxCap
    /\ Len(prebuf) <= PrebufCap
    /\ IsFiniteSet(seen) /\ Cardinality(seen) <= SeenCap
    /\ pc = "undefined" => misread

\* Every variable has its type and every buffer its size.
TypeOK == Types /\ BuffersFit

\* As long as no payload has been read as a header, the host never acknowledges
\* what the device has not sent: neither rx_ack nor an acknowledgement on the
\* wire is ahead of the device's snd_nxt, whatever was retransmitted, dropped
\* or left by another session (session_recv_frame and the parse loop of
\* session_connect).
AckSound ==
    ~misread => rx_ack <= snd_nxt /\ \A i \in 1..Len(out) : out[i].ack <= snd_nxt

\* session_connect only succeeds when the device really accepted this
\* connection, not on a SYN|ACK that belongs to an earlier one.
Connected == pc \in {"ack", "drain", "parse", "idle", "recv", "done"}
HandshakeSound == Connected => dstate \notin {"listen", "refused"}

\* The strengthening of the two that is inductive: no wrap-around of the
\* device's sequence numbers, every cell past the flush is one the device wrote
\* in this connection, and a header never ends beyond snd_nxt. Until the
\* handshake is over only bare headers are on the wire, so that none of them
\* can be misread, and the device has no acknowledgement to send data on.
NoWrap == ISN + StreamLen + 2 < SeqMod
NoStray == ~LateAnyTime /\ \A b \in Faults : b["poll"] = 0

Accepted == dstate \notin {"listen", "refused"}
SoundCell ==
    {c \in Cell :
        /\ ~c.old
        /\ c.hdr =>
              /\ Consumed(c) > 0 => c.seq + Consumed(c) <= snd_nxt
              /\ {"SYN", "ACK"} \subseteq c.flags => Accepted}
SoundSegment == {f \in Segment : f.ack <= snd_nxt}

DeviceSent ==
    /\ produced <= StreamLen /\ snd_nxt <= ISN + produced + 2
    /\ dstate = "open" => snd_nxt = ISN + produced + 1
    /\ dstate \in {"listen", "refused"} => snd_nxt = ISN /\ produced = 0
SoundPipes ==
    /\ sent \subseteq SoundCell
    /\ pc # "flush" => in \in Seq(SoundCell) /\ rx_buf \in Seq(SoundCell)
CurIsHeader == cur # <<>> => Head(cur).hdr
AckInv ==
    ~misread => cur \in Seq(SoundCell) /\ rx_ack <= snd_nxt /\ out \in Seq(SoundSegment)

OpeningCell ==
    {c \in Cell : c.hdr /\ c.len = 0 /\ "FIN" \notin c.flags /\
                  ("SYN" \in c.flags => c.flags = {"SYN", "ACK"})}
OpeningInv ==
    /\ pc = "flush" => dstate = "listen" /\ out = <<>>
    /\ pc \in {"flush", "syn"} => cur = <<>>
    /\ pc \in {"flush", "syn", "handshake"} =>
          ~misread /\ rx_ack <= ISN /\ snd_una = ISN /\ sent \subseteq OpeningCell
    /\ pc \in {"syn", "handshake"} =>
          /\ {in, rx_buf, cur} \subseteq Seq(OpeningCell)
          /\ \A i \in 1..Len(out) : out[i].ack <= ISN
IInv ==
    /\ Types /\ budget["poll"] = 0
    /\ DeviceSent /\ SoundPipes /\ CurIsHeader
    /\ AckInv /\ OpeningInv /\ HandshakeSound

\* The frames under way to the device continue one another without gap or
\* overlap, from what the device expects to tx_seq, whatever writes were lost
\* (the order of write and increment in session_send_frame), until one of them
\* reaches the device although it was reported to fail.
SegmentEnd(f) == Add(f.seq, TxSpace(f.flags, f.len))
TxContiguous == ~reached =>
    /\ \A i \in 2..Len(out) : out[i].seq = SegmentEnd(out[i - 1])
    /\ out # <<>> => tx_seq = SegmentEnd(out[Len(out)])
    /\ dstate \notin {"listen", "refused"} =>
          rcv_nxt = IF out = <<>> THEN tx_seq ELSE Head(out).seq

\* The reader stays in step with the frames: between frames the next cell is
\* a header, within a frame its payload comes next (usb_pipe_read keeps what
\* it does not need, session_connect leaves an incomplete frame in rx_buf), and
\* so no payload is ever read as a header.
FramingKept ==
    ~misread /\
    LET unread == rx_buf \o in
        need == IF cur = <<>> THEN 0 ELSE Head(cur).len
    IN  /\ Len(unread) >= need
        /\ \A i \in 1..need : ~unread[i].hdr
        /\ Len(unread) > need => unread[need + 1].hdr

\* Whatever the host has acknowledged it has kept: every unit below rx_ack
\* waits in prebuf or was handed to the caller. A unit that was not is one of
\* the last of a frame whose first ones filled the buffer of their caller.
Units == delivered \o prebuf
HandedOn(i) ==
    i \in missed => \E b \in BufSizes, s \in 1..i :
        i < s + MaxPay /\ \A j \in s..i : j \in missed <=> j >= s + b
AckedIsKept ==
    \A p \in (ISN + 1)..(ISN + produced) :
        p < rx_ack => \E i \in 1..Len(Units) : Units[i] = Data(p) /\ HandedOn(i)

\* What the drain puts in prebuf is the payload of the frames it parsed, in the
\* order of the stream: prebuf never holds a header, a unit twice or a unit
\* behind a later one (the memcpy at the end of session_connect).
PrebufInOrder ==
    /\ \A i \in 1..Len(prebuf) : ~prebuf[i].hdr
    /\ \A i, j \in 1..Len(prebuf) : i < j => prebuf[i].seq < prebuf[j].seq

\* session_connect returns, whatever the device sends or withholds: the flush
\* loop, the handshake loop, the drain and the parse loop all end, unless the
\* parse loop has moved memory outside its buffer.
ConnectReturns == pc = "flush" ~> pc \in {"idle", "failed", "undefined"}

\* Seen from its two users the session is a reliable stream: the units come
\* out of prebuf and session_recv in order, once each, none missing but those a
\* caller's buffer had no room for, and all of them as long as the host's end
\* is up.
Stream == INSTANCE ReliableStream WITH
    Rooms <- BufSizes,
    taken <- [i \in 1..Len(Units) |-> IF Units[i].hdr THEN 0 ELSE Units[i].seq - ISN],
    up <- pc \notin {"failed", "done", "undefined"}
ImplementsStream == Stream!FairSpec
=============================================================================
