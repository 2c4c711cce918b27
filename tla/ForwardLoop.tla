----------------------------- MODULE ForwardLoop -----------------------------
(***************************************************************************)
(* forward_loop of core/usb/mux.c: two threads that copy between a TCP     *)
(* socket and a mux session, which they share without a lock.  A step is   *)
(* one access to the session or to the stop flag, or one system call; the  *)
(* 32-bit fields are read and written whole.                               *)
(*                                                                         *)
(* External: the TCP peer, and the phone at the other end of the session.  *)
(***************************************************************************)
EXTENDS Naturals, Sequences, FiniteSetsExt

CONSTANTS
    TxInit, ISN,    \* tx_seq and rx_ack when the session was connected
    PhoneFrames,    \* bound: frames from the phone
    TcpChunks,      \* bound: chunks from the TCP peer
    Lens,           \* how many units a frame or a chunk may have
    MaxFaults,      \* bound: failed writes, short and failed sends
    Joined          \* the thread each of the two waits is for

Up == "tcp_to_usb"
Down == "usb_to_tcp"
Threads == {Up, Down}

\* pthread_join(t1), pthread_join(t2); on Windows both waits are for t1
PosixJoined == <<Up, Down>>
WindowsJoined == <<Up, Up>>

ASSUME ForwardAssumption ==
    /\ TxInit \in Nat /\ ISN \in Nat
    /\ PhoneFrames \in Nat /\ TcpChunks \in Nat /\ MaxFaults \in Nat
    /\ Lens \subseteq Nat \ {0}
    /\ Joined \in {PosixJoined, WindowsJoined}

VARIABLES
    pc,             \* thread |-> its next step
    frame,          \* thread |-> what its session_send_frame is sending
    old,            \* thread |-> tx_seq, loaded to be increased
    n,              \* what session_recv returned
    main,           \* waits that are over; forward_loop has returned after two
    stop,           \* ctx.stop
    tx_seq, rx_ack, prebuf,     \* the session
    in, out,        \* frames from and to the phone
    tcpIn,          \* chunks that the TCP peer has sent
    tcpClosed,      \* it has closed, or the connection has failed
    blocking,       \* the socket blocks in recv
    chunks, frames, \* how many have been sent so far
    \* history
    early,          \* units in prebuf at first
    tcpOut,         \* units handed to TCP
    lost,           \* a send was short or failed
    finished,       \* the phone's FIN is being answered
    after,          \* frames that Up sent since it could have seen stop
    faults

session == <<tx_seq, rx_ack, prebuf>>
tcp == <<tcpIn, tcpClosed, chunks>>
vars == <<pc, frame, old, n, main, stop, session, in, out, tcp, frames, blocking,
          early, tcpOut, lost, finished, after, faults>>

NoFrame == [seq |-> 0, ack |-> 0, fin |-> FALSE, len |-> 0]

At(t, place) == pc[t] = place
Goto(t, place) == pc' = [pc EXCEPT ![t] = place]

Fault == faults < MaxFaults /\ faults' = faults + 1
NoFault == UNCHANGED faults

\* a local variable that is not read again
Drop(t) == frame' = [frame EXCEPT ![t] = NoFrame]

-----------------------------------------------------------------------------
(* session_send_frame, in either thread.                                   *)

Send(t, fin, len) ==
    /\ Goto(t, "seq")
    /\ frame' = [frame EXCEPT ![t] =
                      [seq |-> 0, ack |-> 0, fin |-> fin, len |-> len]]

LoadSeq(t) ==
    /\ At(t, "seq")
    /\ frame' = [frame EXCEPT ![t].seq = tx_seq]
    /\ Goto(t, "ack")
    /\ UNCHANGED <<old, n, main, stop, session, in, out, tcp, frames, blocking,
                   early, tcpOut, lost, finished, after, faults>>

LoadAck(t) ==
    /\ At(t, "ack")
    /\ frame' = [frame EXCEPT ![t].ack = rx_ack]
    /\ Goto(t, "transfer")
    /\ UNCHANGED <<old, n, main, stop, session, in, out, tcp, frames, blocking,
                   early, tcpOut, lost, finished, after, faults>>

\* where a thread goes on: Up stops when a write has failed, Down does not look
Sent(t) ==
    CASE t = Up -> "check"
      [] t = Down -> IF frame[t].fin THEN "stop" ELSE "send"
Failed(t) == IF t = Up THEN "stop" ELSE Sent(t)

Space(f) == f.len + (IF f.fin THEN 1 ELSE 0)

\* mutant: the number moves before the write
TransferAdds(t) ==
    /\ At(t, "transfer")
    /\ tx_seq' = tx_seq + Space(frame[t])
    /\ Drop(t)
    /\ \/ NoFault /\ out' = Append(out, frame[t]) /\ Goto(t, Sent(t))
       \/ Fault /\ UNCHANGED out /\ Goto(t, Failed(t))
    /\ UNCHANGED <<old, n, main, stop, rx_ack, prebuf, in, tcp, frames, blocking,
                   early, tcpOut, lost, finished, after>>

Transfer(t) ==
    /\ At(t, "transfer")
    /\ \/ /\ NoFault
          /\ out' = Append(out, frame[t])
          /\ IF Space(frame[t]) > 0 THEN Goto(t, "load") /\ UNCHANGED frame
             ELSE Goto(t, Sent(t)) /\ Drop(t)
          /\ after' = IF t = Up /\ stop THEN after + 1 ELSE after
       \/ Fault /\ Goto(t, Failed(t)) /\ Drop(t) /\ UNCHANGED <<out, after>>
    /\ UNCHANGED <<old, n, main, stop, session, in, tcp, frames, blocking,
                   early, tcpOut, lost, finished>>

\* tx_seq += ...
LoadOld(t) ==
    /\ At(t, "load")
    /\ old' = [old EXCEPT ![t] = tx_seq]
    /\ Goto(t, "store")
    /\ UNCHANGED <<frame, n, main, stop, session, in, out, tcp, frames, blocking,
                   early, tcpOut, lost, finished, after, faults>>

StoreNew(t) ==
    /\ At(t, "store")
    /\ tx_seq' = old[t] + Space(frame[t])
    /\ Goto(t, Sent(t))
    /\ Drop(t)
    /\ old' = [old EXCEPT ![t] = 0]
    /\ UNCHANGED <<n, main, stop, rx_ack, prebuf, in, out, tcp, frames,
                   blocking, early, tcpOut, lost, finished, after, faults>>

SendStep(t) == LoadSeq(t) \/ LoadAck(t) \/ Transfer(t) \/ LoadOld(t) \/ StoreNew(t)

-----------------------------------------------------------------------------
(* Both threads look at the stop flag once per turn, and set it at the end. *)

\* mutant: both threads were started with the same routine
SameTurn(t) == "recv"

Turn(t) == IF t = Up THEN "recv" ELSE "read"

\* mutant: only the thread that reads the session looks at the flag
CheckStopDown(t) ==
    /\ At(t, "check")
    /\ Goto(t, IF stop /\ t = Down THEN "stop" ELSE Turn(t))
    /\ UNCHANGED <<frame, old, n, main, stop, session, in, out, tcp, frames, blocking,
                   early, tcpOut, lost, finished, after, faults>>

CheckStop(t) ==
    /\ At(t, "check")
    /\ Goto(t, IF stop THEN "stop" ELSE Turn(t))
    /\ UNCHANGED <<frame, old, n, main, stop, session, in, out, tcp, frames, blocking,
                   early, tcpOut, lost, finished, after, faults>>

\* mutant: a thread that ends does not tell the other
EndsAlone(t) ==
    /\ At(t, "stop")
    /\ Goto(t, "done")
    /\ UNCHANGED <<frame, old, n, main, stop, session, in, out, tcp, frames, blocking,
                   early, tcpOut, lost, finished, after, faults>>

SetStop(t) ==
    /\ At(t, "stop")
    /\ stop' = TRUE
    /\ Goto(t, "done")
    /\ UNCHANGED <<frame, old, n, main, session, in, out, tcp, frames, blocking,
                   early, tcpOut, lost, finished, after, faults>>

-----------------------------------------------------------------------------
(* thread_tcp_to_usb.                                                      *)

Recv ==
    /\ At(Up, "recv")
    /\ \/ /\ tcpIn # <<>>
          /\ Send(Up, FALSE, Head(tcpIn))
          /\ tcpIn' = Tail(tcpIn)
       \/ /\ tcpIn = <<>> /\ tcpClosed
          /\ Goto(Up, "stop")
          /\ UNCHANGED <<frame, tcpIn>>
       \/ /\ tcpIn = <<>> /\ ~tcpClosed /\ ~blocking
          /\ Goto(Up, "check")
          /\ UNCHANGED <<frame, tcpIn>>
    /\ UNCHANGED <<old, n, main, stop, session, in, out, tcpClosed, chunks, frames,
                   blocking, early, tcpOut, lost, finished, after, faults>>

-----------------------------------------------------------------------------
(* thread_usb_to_tcp, and session_recv in it.                              *)

ReadPrebuf ==
    /\ At(Down, "read")
    /\ prebuf > 0
    /\ n' = prebuf
    /\ prebuf' = 0
    /\ Goto(Down, "send")
    /\ UNCHANGED <<frame, old, main, stop, tx_seq, rx_ack, in, out, tcp, frames,
                   blocking, early, tcpOut, lost, finished, after, faults>>

Consumed(f) == f.len + (IF f.kind = "fin" THEN 1 ELSE 0)

\* session_recv_frame moves rx_ack; data and FIN are answered, RST ends it, a
\* frame without payload does not
ReadFrame ==
    /\ At(Down, "read")
    /\ prebuf = 0 /\ in # <<>>
    /\ in' = Tail(in)
    /\ LET f == Head(in)
       IN /\ rx_ack' = rx_ack + Consumed(f)
          /\ n' = f.len
          /\ \/ f.kind = "rst" /\ Goto(Down, "stop") /\ UNCHANGED <<frame, finished>>
             \/ f.kind = "ack" /\ UNCHANGED <<pc, frame, finished>>
             \/ f.kind = "data" /\ Send(Down, FALSE, 0) /\ UNCHANGED finished
             \/ f.kind = "fin" /\ Send(Down, TRUE, 0) /\ finished' = TRUE
    /\ UNCHANGED <<old, main, stop, tx_seq, prebuf, out, tcp, frames, blocking,
                   early, tcpOut, lost, after, faults>>

\* four time-outs in a row, which is what an idle connection comes to
ReadFails ==
    /\ At(Down, "read")
    /\ prebuf = 0 /\ in = <<>>
    /\ Goto(Down, "stop")
    /\ UNCHANGED <<frame, old, n, main, stop, session, in, out, tcp, frames, blocking,
                   early, tcpOut, lost, finished, after, faults>>

\* mutant: the thread looks at the flag once more before it hands over
TcpSendUnlessStopped ==
    /\ At(Down, "send")
    /\ Goto(Down, IF stop THEN "stop" ELSE "check")
    /\ tcpOut' = IF stop THEN tcpOut ELSE tcpOut + n
    /\ UNCHANGED <<frame, old, n, main, stop, session, in, out, tcp, frames, blocking,
                   early, lost, finished, after, faults>>

\* send: whole, short (which nobody notices), or an error
TcpSend ==
    /\ At(Down, "send")
    /\ n' = 0
    /\ \/ /\ tcpOut' = tcpOut + n
          /\ Goto(Down, "check")
          /\ UNCHANGED lost /\ NoFault
       \/ \E k \in 1..(n - 1) :
             /\ tcpOut' = tcpOut + k
             /\ Goto(Down, "check")
             /\ lost' = TRUE /\ Fault
       \/ /\ Goto(Down, "stop")
          /\ lost' = TRUE
          /\ IF tcpClosed THEN NoFault ELSE Fault
          /\ UNCHANGED tcpOut
    /\ UNCHANGED <<frame, old, main, stop, session, in, out, tcp, frames, blocking,
                   early, finished, after>>

-----------------------------------------------------------------------------
(* forward_loop after it has started the threads.                          *)

\* mutant: CreateThread's handles as the code waits for them on Windows
JoinFirst ==
    /\ main < 2
    /\ At(Up, "done")
    /\ main' = main + 1
    /\ UNCHANGED <<pc, frame, old, n, stop, session, in, out, tcp, frames, blocking,
                   early, tcpOut, lost, finished, after, faults>>

Join ==
    /\ main < 2
    /\ At(Joined[main + 1], "done")
    /\ main' = main + 1
    /\ UNCHANGED <<pc, frame, old, n, stop, session, in, out, tcp, frames, blocking,
                   early, tcpOut, lost, finished, after, faults>>

-----------------------------------------------------------------------------
(* The phone and the TCP peer.                                             *)

Ended == \E i \in 1..Len(in) : in[i].kind \in {"fin", "rst"}

PhoneSends ==
    /\ main < 2
    /\ frames < PhoneFrames
    /\ ~finished /\ ~Ended
    /\ frames' = frames + 1
    /\ \/ \E k \in Lens : in' = Append(in, [kind |-> "data", len |-> k])
       \/ \E k \in {"ack", "fin", "rst"} : in' = Append(in, [kind |-> k, len |-> 0])
    /\ UNCHANGED <<pc, frame, old, n, main, stop, session, out, tcp, blocking,
                   early, tcpOut, lost, finished, after, faults>>

TcpActs ==
    /\ main < 2
    /\ ~tcpClosed
    /\ \/ /\ chunks < TcpChunks
          /\ chunks' = chunks + 1
          /\ \E k \in Lens : tcpIn' = Append(tcpIn, k)
          /\ UNCHANGED tcpClosed
       \/ tcpClosed' = TRUE /\ UNCHANGED <<tcpIn, chunks>>
    /\ UNCHANGED <<pc, frame, old, n, main, stop, session, in, out, frames, blocking,
                   early, tcpOut, lost, finished, after, faults>>

-----------------------------------------------------------------------------
Init ==
    /\ pc = [t \in Threads |-> "check"]
    /\ frame = [t \in Threads |-> NoFrame]
    /\ old = [t \in Threads |-> 0]
    /\ n = 0
    /\ main = 0
    /\ stop = FALSE
    /\ tx_seq = TxInit /\ rx_ack = ISN
    /\ prebuf \in {0} \cup Lens /\ early = prebuf
    /\ in = <<>> /\ out = <<>>
    /\ tcpIn = <<>> /\ tcpClosed = FALSE /\ chunks = 0 /\ frames = 0
    /\ blocking \in BOOLEAN
    /\ tcpOut = 0 /\ lost = FALSE /\ finished = FALSE /\ after = 0
    /\ faults = 0

UpStep == SendStep(Up) \/ CheckStop(Up) \/ SetStop(Up) \/ Recv
DownStep ==
    \/ SendStep(Down) \/ CheckStop(Down) \/ SetStop(Down)
    \/ ReadPrebuf \/ ReadFrame \/ ReadFails \/ TcpSend

Next == UpStep \/ DownStep \/ Join \/ PhoneSends \/ TcpActs

Spec == Init /\ [][Next]_vars

\* the scheduler runs every thread; libusb calls have time-outs.  Only a socket
\* that blocks needs its peer: recv has no time-out
FairSpec ==
    /\ Spec
    /\ WF_vars(UpStep) /\ WF_vars(DownStep) /\ WF_vars(Join)
    /\ WF_vars(blocking /\ TcpActs)

-----------------------------------------------------------------------------
(* Properties.                                                             *)

SendPlaces == {"seq", "ack", "transfer", "load", "store"}
Places == SendPlaces \cup {"check", "stop", "done", "recv", "read", "send"}

PhoneFrame ==
    [kind : {"data"}, len : Lens] \cup [kind : {"ack", "fin", "rst"}, len : {0}]
Frames == [seq : Nat, ack : Nat, fin : BOOLEAN, len : {0} \cup Lens]

\* Types, and which steps each thread takes.
TypeOK ==
    /\ pc \in [Threads -> Places]
    /\ pc[Up] \notin {"read", "send"} /\ pc[Down] # "recv"
    /\ frame \in [Threads -> Frames]
    /\ ~frame[Up].fin /\ frame[Down].len = 0
    /\ old \in [Threads -> Nat]
    /\ n \in {0} \cup Lens
    /\ main \in 0..2
    /\ stop \in BOOLEAN
    /\ tx_seq \in Nat /\ rx_ack \in Nat /\ prebuf \in {0} \cup Lens
    /\ in \in Seq(PhoneFrame)
    /\ out \in Seq(Frames)
    /\ tcpIn \in Seq(Lens)
    /\ tcpClosed \in BOOLEAN /\ blocking \in BOOLEAN
    /\ chunks \in 0..TcpChunks /\ frames \in 0..PhoneFrames
    /\ early \in {0} \cup Lens /\ tcpOut \in Nat
    /\ lost \in BOOLEAN /\ finished \in BOOLEAN
    /\ after \in Nat /\ faults \in 0..MaxFaults

\* The threads' context and the session belong to forward_loop's caller: no
\* thread runs any more when it returns.
ContextAlive == main = 2 => \A t \in Threads : At(t, "done")

\* where the data in the frames before the i-th ends
DataBefore(i) == {j \in 1..(i - 1) : out[j].len > 0}
DataEnd(i) ==
    IF DataBefore(i) = {} THEN TxInit
    ELSE LET j == Max(DataBefore(i)) IN out[j].seq + out[j].len

\* As long as only one thread moves tx_seq, that is until the phone's FIN is
\* answered, the data on the wire has no gap and no overlap although the other
\* thread reads the number at any moment, and pure acknowledgements carry no
\* number ahead of the data.
TxContiguous ==
    ~finished =>
        \A i \in 1..Len(out) :
            IF out[i].len > 0 THEN out[i].seq = DataEnd(i) ELSE out[i].seq <= DataEnd(i)

\* Between two turns of its loop, thread_usb_to_tcp has handed over everything
\* that it has acknowledged, whatever stopped it, unless send itself lost it.
AckedIsForwarded ==
    pc[Down] \in {"check", "stop", "done"} /\ ~lost /\ ~finished =>
        tcpOut + prebuf + ISN = early + rx_ack

\* Once the stop flag is set, thread_tcp_to_usb sends at most what it had
\* received, or was waiting to receive: one frame.
OneAfterStop == after <= 1

\* When either thread ends, the other one does as well and forward_loop returns;
\* if recv blocks, once its peer sends or closes.
EndsTogether == (\E t \in Threads : At(t, "done")) ~> main = 2
=============================================================================
