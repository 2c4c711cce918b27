------------------------- MODULE ForwardLoopProofs --------------------------
(***************************************************************************)
(* Proofs about ForwardLoop: types, the life of the threads' context, what *)
(* the stop flag bounds, and that acknowledged data is handed over.        *)
(***************************************************************************)
EXTENDS ForwardLoop, SequenceTheorems, WellFoundedInduction, TLAPS

\* The steps that the two threads have in common.
Steps(t) ==
    LoadSeq(t) \/ LoadAck(t) \/ Transfer(t) \/ LoadOld(t) \/ StoreNew(t)
    \/ CheckStop(t) \/ SetStop(t)

\* Every step is a step of one of the threads' common code, or one of the others.
LEMMA NextCases ==
    ASSUME Next
    PROVE \/ \E t \in Threads : Steps(t)
          \/ Recv \/ ReadPrebuf \/ ReadFrame \/ ReadFails \/ TcpSend
          \/ Join \/ PhoneSends \/ TcpActs
  BY DEF Next, UpStep, DownStep, SendStep, Steps, Threads

-----------------------------------------------------------------------------
(* Types.                                                                  *)

\* TypeOK in the parts that its proof takes one by one
PcOK ==
    /\ pc \in [Threads -> Places]
    /\ pc[Up] \notin {"read", "send"} /\ pc[Down] # "recv"
FrameOK ==
    /\ frame \in [Threads -> Frames]
    /\ ~frame[Up].fin /\ frame[Down].len = 0
QueuesOK ==
    /\ in \in Seq(PhoneFrame)
    /\ out \in Seq(Frames)
    /\ tcpIn \in Seq(Lens)
NumbersOK ==
    /\ old \in [Threads -> Nat]
    /\ n \in {0} \cup Lens
    /\ tx_seq \in Nat /\ rx_ack \in Nat /\ prebuf \in {0} \cup Lens
    /\ early \in {0} \cup Lens /\ tcpOut \in Nat
CountersOK ==
    /\ main \in 0..2
    /\ chunks \in 0..TcpChunks /\ frames \in 0..PhoneFrames
    /\ after \in Nat /\ faults \in 0..MaxFaults
FlagsOK ==
    /\ stop \in BOOLEAN
    /\ tcpClosed \in BOOLEAN /\ blocking \in BOOLEAN
    /\ lost \in BOOLEAN /\ finished \in BOOLEAN

LEMMA TypeParts ==
    TypeOK <=> PcOK /\ FrameOK /\ QueuesOK /\ NumbersOK /\ CountersOK /\ FlagsOK
  BY DEF TypeOK, PcOK, FrameOK, QueuesOK, NumbersOK, CountersOK, FlagsOK

LEMMA NoFrameOK == NoFrame \in Frames /\ ~NoFrame.fin /\ NoFrame.len = 0
  BY DEF NoFrame, Frames

\* What session_send_frame is given, and what is left of it.
LEMMA SendFrame ==
    ASSUME FrameOK, NEW t \in Threads, NEW fin \in BOOLEAN, NEW len \in {0} \cup Lens,
           t = Up => ~fin, t = Down => len = 0, Send(t, fin, len)
    PROVE FrameOK' /\ frame'[t].fin = fin
  <1>1. [seq |-> 0, ack |-> 0, fin |-> fin, len |-> len] \in Frames
    BY DEF Frames
  <1> QED BY <1>1 DEF Send, FrameOK, Threads, Up, Down

LEMMA DropFrame ==
    ASSUME FrameOK, NEW t \in Threads, Drop(t)
    PROVE FrameOK' /\ \A u \in Threads : u # t => frame'[u] = frame[u]
  BY NoFrameOK DEF FrameOK, Drop, Threads, Up, Down

\* what the proofs use of ForwardAssumption
LEMMA Bounds ==
    /\ TxInit \in Nat /\ ISN \in Nat
    /\ PhoneFrames \in Nat /\ TcpChunks \in Nat /\ MaxFaults \in Nat
    /\ \A k \in {0} \cup Lens : k \in Nat
  BY ForwardAssumption

\* the frame that the session reads
LEMMA HeadIn ==
    ASSUME QueuesOK, in # <<>>
    PROVE /\ Head(in) \in PhoneFrame
          /\ Tail(in) \in Seq(PhoneFrame)
          /\ Head(in).len \in {0} \cup Lens
          /\ Consumed(Head(in)) \in Nat
  <1>1. Head(in) \in PhoneFrame /\ Tail(in) \in Seq(PhoneFrame)
    BY HeadTailProperties DEF QueuesOK
  <1>2. Head(in).len \in {0} \cup Lens
    BY <1>1 DEF PhoneFrame
  <1>3. Head(in).len \in Nat
    BY <1>2, Bounds
  <1>4. Consumed(Head(in)) = Head(in).len \/ Consumed(Head(in)) = Head(in).len + 1
    BY <1>3 DEF Consumed
  <1> QED BY <1>1, <1>2, <1>3, <1>4

LEMMA SpaceNat ==
    ASSUME FrameOK, NEW t \in Threads
    PROVE Space(frame[t]) \in Nat
  <1>1. frame[t].len \in {0} \cup Lens
    BY DEF FrameOK, Frames
  <1>2. frame[t].len \in Nat
    BY <1>1, Bounds
  <1>3. Space(frame[t]) = frame[t].len \/ Space(frame[t]) = frame[t].len + 1
    BY <1>2 DEF Space
  <1> QED BY <1>2, <1>3

LEMMA TypeInit == Init => TypeOK
  <1> SUFFICES ASSUME Init PROVE TypeOK
    OBVIOUS
  <1>1. PcOK
    BY DEF Init, PcOK, Threads, Up, Down, Places, SendPlaces
  <1>2. FrameOK
    BY NoFrameOK DEF Init, FrameOK, Threads, Up, Down
  <1>3. QueuesOK
    BY EmptySeq DEF Init, QueuesOK
  <1>4. NumbersOK
    BY Bounds DEF Init, NumbersOK
  <1>5. CountersOK
    BY Bounds DEF Init, CountersOK
  <1>6. FlagsOK
    BY DEF Init, FlagsOK
  <1> QED BY <1>1, <1>2, <1>3, <1>4, <1>5, <1>6, TypeParts

LEMMA PcStep == TypeOK /\ [Next]_vars => PcOK'
  <1> SUFFICES ASSUME PcOK, [Next]_vars PROVE PcOK'
    BY TypeParts
  <1> USE DEF PcOK, At, Goto, Threads, Up, Down, Places, SendPlaces
  <1>1. ASSUME NEW t \in Threads, Steps(t) PROVE PcOK'
    <2>1. CASE LoadSeq(t) \/ LoadAck(t) \/ LoadOld(t)
      BY <2>1 DEF LoadSeq, LoadAck, LoadOld
    <2>2. CASE Transfer(t) \/ StoreNew(t)
      <3>1. Sent(t) \in {"check", "stop", "send"} /\ (t = "tcp_to_usb" => Sent(t) = "check")
        BY DEF Sent
      <3>2. Failed(t) \in {"stop", "send"} /\ (t = "tcp_to_usb" => Failed(t) = "stop")
        BY DEF Failed, Sent
      <3> QED BY <2>2, <3>1, <3>2 DEF Transfer, StoreNew
    <2>3. CASE CheckStop(t) \/ SetStop(t)
      BY <2>3 DEF CheckStop, SetStop, Turn
    <2> QED BY <1>1, <2>1, <2>2, <2>3 DEF Steps
  <1>2. CASE Recv
    BY <1>2 DEF Recv, Send
  <1>3. CASE ReadPrebuf \/ ReadFails \/ TcpSend
    BY <1>3 DEF ReadPrebuf, ReadFails, TcpSend
  <1>4. CASE ReadFrame
    BY <1>4 DEF ReadFrame, Send
  <1>5. CASE Join \/ PhoneSends \/ TcpActs \/ UNCHANGED vars
    BY <1>5 DEF Join, PhoneSends, TcpActs, vars
  <1> QED BY <1>1, <1>2, <1>3, <1>4, <1>5, NextCases

LEMMA FrameStep == TypeOK /\ [Next]_vars => FrameOK'
  <1> SUFFICES ASSUME FrameOK, QueuesOK, NumbersOK, [Next]_vars PROVE FrameOK'
    BY TypeParts
  <1>1. ASSUME NEW t \in Threads, Steps(t) PROVE FrameOK'
    <2>1. CASE LoadSeq(t) \/ LoadAck(t)
      BY <2>1 DEF LoadSeq, LoadAck, FrameOK, Frames, NumbersOK, Threads, Up, Down
    <2>2. CASE Transfer(t) \/ StoreNew(t)
      BY <2>2, DropFrame DEF Transfer, StoreNew, FrameOK
    <2>3. CASE LoadOld(t) \/ CheckStop(t) \/ SetStop(t)
      BY <2>3 DEF LoadOld, CheckStop, SetStop, FrameOK
    <2> QED BY <1>1, <2>1, <2>2, <2>3 DEF Steps
  <1>2. CASE Recv
    <2>1. CASE tcpIn # <<>>
      <3>1. Head(tcpIn) \in {0} \cup Lens
        BY <2>1, HeadTailProperties DEF QueuesOK
      <3>2. Send(Up, FALSE, Head(tcpIn))
        BY <1>2, <2>1 DEF Recv
      <3> QED BY <3>1, <3>2, SendFrame DEF Threads, Up, Down
    <2>2. CASE tcpIn = <<>>
      BY <1>2, <2>2 DEF Recv, FrameOK
    <2> QED BY <2>1, <2>2
  <1>3. CASE ReadPrebuf \/ ReadFails \/ TcpSend
    BY <1>3 DEF ReadPrebuf, ReadFails, TcpSend, FrameOK
  <1>4. CASE ReadFrame
    <2>1. frame' = frame \/ Send(Down, FALSE, 0) \/ Send(Down, TRUE, 0)
      BY <1>4 DEF ReadFrame
    <2>2. CASE frame' = frame
      BY <2>2 DEF FrameOK
    <2>3. CASE Send(Down, FALSE, 0) \/ Send(Down, TRUE, 0)
      BY <2>3, SendFrame DEF Threads, Up, Down
    <2> QED BY <2>1, <2>2, <2>3
  <1>5. CASE Join \/ PhoneSends \/ TcpActs \/ UNCHANGED vars
    BY <1>5 DEF Join, PhoneSends, TcpActs, vars, FrameOK
  <1> QED BY <1>1, <1>2, <1>3, <1>4, <1>5, NextCases

LEMMA QueuesStep == TypeOK /\ [Next]_vars => QueuesOK'
  <1> SUFFICES ASSUME FrameOK, QueuesOK, [Next]_vars PROVE QueuesOK'
    BY TypeParts
  <1>1. ASSUME NEW t \in Threads, Steps(t) PROVE QueuesOK'
    <2>1. CASE Transfer(t)
      <3>1. Append(out, frame[t]) \in Seq(Frames)
        BY AppendProperties DEF QueuesOK, FrameOK
      <3> QED BY <2>1, <3>1 DEF Transfer, QueuesOK, tcp
    <2>2. CASE ~Transfer(t)
      BY <1>1, <2>2 DEF Steps, LoadSeq, LoadAck, LoadOld, StoreNew, CheckStop, SetStop,
                        QueuesOK, tcp
    <2> QED BY <2>1, <2>2
  <1>2. CASE Recv
    BY <1>2, HeadTailProperties DEF Recv, QueuesOK
  <1>3. CASE ReadPrebuf \/ ReadFails \/ TcpSend
    BY <1>3 DEF ReadPrebuf, ReadFails, TcpSend, QueuesOK, tcp
  <1>4. CASE ReadFrame
    BY <1>4, HeadIn DEF ReadFrame, QueuesOK, tcp
  <1>5. CASE PhoneSends
    <2>1. PICK f \in PhoneFrame : in' = Append(in, f)
      <3>1. \A k \in Lens : [kind |-> "data", len |-> k] \in PhoneFrame
        BY DEF PhoneFrame
      <3>2. \A k \in {"ack", "fin", "rst"} : [kind |-> k, len |-> 0] \in PhoneFrame
        BY DEF PhoneFrame
      <3> QED BY <1>5, <3>1, <3>2 DEF PhoneSends
    <2>2. in' \in Seq(PhoneFrame)
      BY <2>1, AppendProperties DEF QueuesOK
    <2> QED BY <1>5, <2>2 DEF PhoneSends, QueuesOK, tcp
  <1>6. CASE TcpActs
    <2>1. tcpIn' \in Seq(Lens)
      BY <1>6, AppendProperties DEF TcpActs, QueuesOK
    <2> QED BY <1>6, <2>1 DEF TcpActs, QueuesOK
  <1>7. CASE Join \/ UNCHANGED vars
    BY <1>7 DEF Join, vars, QueuesOK, tcp
  <1> QED BY <1>1, <1>2, <1>3, <1>4, <1>5, <1>6, <1>7, NextCases

LEMMA NumbersStep == TypeOK /\ [Next]_vars => NumbersOK'
  <1> SUFFICES ASSUME FrameOK, QueuesOK, NumbersOK, [Next]_vars PROVE NumbersOK'
    BY TypeParts
  <1>1. ASSUME NEW t \in Threads, Steps(t) PROVE NumbersOK'
    <2>1. CASE StoreNew(t)
      BY <2>1, SpaceNat DEF StoreNew, NumbersOK
    <2>2. CASE LoadOld(t)
      BY <2>2 DEF LoadOld, NumbersOK, session
    <2>3. CASE LoadSeq(t) \/ LoadAck(t) \/ Transfer(t) \/ CheckStop(t) \/ SetStop(t)
      BY <2>3 DEF LoadSeq, LoadAck, Transfer, CheckStop, SetStop, NumbersOK, session
    <2> QED BY <1>1, <2>1, <2>2, <2>3 DEF Steps
  <1>2. CASE Recv \/ ReadPrebuf \/ ReadFails
    BY <1>2 DEF Recv, ReadPrebuf, ReadFails, NumbersOK, session
  <1>3. CASE ReadFrame
    BY <1>3, HeadIn DEF ReadFrame, NumbersOK
  <1>4. CASE TcpSend
    <2>1. n \in Nat
      BY Bounds DEF NumbersOK
    <2>2. tcpOut' \in Nat
      BY <1>4, <2>1 DEF TcpSend, NumbersOK
    <2> QED BY <1>4, <2>2 DEF TcpSend, NumbersOK, session
  <1>5. CASE Join \/ PhoneSends \/ TcpActs \/ UNCHANGED vars
    BY <1>5 DEF Join, PhoneSends, TcpActs, vars, NumbersOK, session
  <1> QED BY <1>1, <1>2, <1>3, <1>4, <1>5, NextCases

LEMMA CountersStep == TypeOK /\ [Next]_vars => CountersOK'
  <1> SUFFICES ASSUME CountersOK, [Next]_vars PROVE CountersOK'
    BY TypeParts
  <1> USE Bounds DEF CountersOK, Fault, NoFault, tcp
  <1>1. ASSUME NEW t \in Threads, Steps(t) PROVE CountersOK'
    <2>1. CASE Transfer(t)
      BY <2>1 DEF Transfer
    <2>2. CASE SetStop(t)
      BY <2>2 DEF SetStop
    <2>3. CASE LoadSeq(t) \/ LoadAck(t) \/ LoadOld(t) \/ StoreNew(t) \/ CheckStop(t)
      BY <2>3 DEF LoadSeq, LoadAck, LoadOld, StoreNew, CheckStop
    <2> QED BY <1>1, <2>1, <2>2, <2>3 DEF Steps
  <1>2. CASE Recv \/ ReadPrebuf \/ ReadFails
    BY <1>2 DEF Recv, ReadPrebuf, ReadFails
  <1>3. CASE ReadFrame
    BY <1>3 DEF ReadFrame
  <1>4. CASE TcpSend
    BY <1>4 DEF TcpSend
  <1>5. CASE Join
    BY <1>5 DEF Join
  <1>6. CASE PhoneSends
    BY <1>6 DEF PhoneSends
  <1>7. CASE TcpActs
    BY <1>7 DEF TcpActs
  <1>8. CASE UNCHANGED vars
    BY <1>8 DEF vars
  <1> QED BY <1>1, <1>2, <1>3, <1>4, <1>5, <1>6, <1>7, <1>8, NextCases

LEMMA FlagsStep == TypeOK /\ [Next]_vars => FlagsOK'
  <1> SUFFICES ASSUME FlagsOK, [Next]_vars PROVE FlagsOK'
    BY TypeParts
  <1> USE DEF FlagsOK, tcp
  <1>1. ASSUME NEW t \in Threads, Steps(t) PROVE FlagsOK'
    BY <1>1 DEF Steps, LoadSeq, LoadAck, Transfer, LoadOld, StoreNew, CheckStop, SetStop
  <1>2. CASE Recv \/ ReadPrebuf \/ ReadFails
    BY <1>2 DEF Recv, ReadPrebuf, ReadFails
  <1>3. CASE ReadFrame \/ TcpSend
    BY <1>3 DEF ReadFrame, TcpSend
  <1>4. CASE Join \/ PhoneSends
    BY <1>4 DEF Join, PhoneSends
  <1>5. CASE TcpActs \/ UNCHANGED vars
    BY <1>5 DEF TcpActs, vars
  <1> QED BY <1>1, <1>2, <1>3, <1>4, <1>5, NextCases

LEMMA TypeStep == TypeOK /\ [Next]_vars => TypeOK'
  <1> SUFFICES ASSUME TypeOK, [Next]_vars PROVE TypeOK'
    OBVIOUS
  <1>1. PcOK' /\ FrameOK' /\ QueuesOK' /\ NumbersOK' /\ CountersOK' /\ FlagsOK'
    BY PcStep, FrameStep, QueuesStep, NumbersStep, CountersStep, FlagsStep
  <1> QED BY <1>1 DEF TypeOK, PcOK, FrameOK, QueuesOK, NumbersOK, CountersOK, FlagsOK

\* The threads stay in their own code, and every field keeps its type.
THEOREM ForwardTypeCorrect == Spec => []TypeOK
  BY TypeInit, TypeStep, PTL DEF Spec

-----------------------------------------------------------------------------
(* The context lives as long as the threads.                               *)

\* what the waits that are over say, if both threads are waited for
JoinedDone ==
    /\ main >= 1 => At(Up, "done")
    /\ main >= 2 => At(Down, "done")

\* A thread that is done stays done.
LEMMA DoneStays ==
    ASSUME TypeOK, [Next]_vars, NEW t \in Threads, At(t, "done")
    PROVE At(t, "done")'
  <1>1. CASE \E u \in Threads : Steps(u)
    BY <1>1 DEF Steps, LoadSeq, LoadAck, Transfer, LoadOld, StoreNew, CheckStop, SetStop,
                At, Goto, TypeOK
  <1>2. CASE Recv \/ ReadPrebuf \/ ReadFrame \/ ReadFails \/ TcpSend
    BY <1>2 DEF Recv, ReadPrebuf, ReadFrame, ReadFails, TcpSend, Send, At, Goto, TypeOK
  <1>3. CASE Join \/ PhoneSends \/ TcpActs \/ UNCHANGED vars
    BY <1>3 DEF Join, PhoneSends, TcpActs, vars, At
  <1> QED BY <1>1, <1>2, <1>3, NextCases

LEMMA JoinedStep ==
    ASSUME Joined = PosixJoined, TypeOK, JoinedDone, [Next]_vars
    PROVE JoinedDone'
  <1>1. CASE Join
    <2>1. main \in {0, 1} /\ main' = main + 1 /\ At(Joined[main + 1], "done") /\ pc' = pc
      BY <1>1 DEF Join, TypeOK
    <2>2. Joined[1] = Up /\ Joined[2] = Down
      BY DEF PosixJoined
    <2> QED BY <2>1, <2>2 DEF JoinedDone, At
  <1>2. CASE ~Join
    <2>1. main' = main
      BY <1>2 DEF Next, UpStep, DownStep, SendStep, LoadSeq, LoadAck, Transfer, LoadOld,
                  StoreNew, CheckStop, SetStop, Recv, ReadPrebuf, ReadFrame, ReadFails,
                  TcpSend, PhoneSends, TcpActs, vars
    <2> QED BY <2>1, DoneStays DEF JoinedDone, Threads
  <1> QED BY <1>1, <1>2

\* With the two waits of the POSIX build, forward_loop returns only when no
\* thread uses its context any more.
THEOREM ContextOutlivesThreads ==
    ASSUME Joined = PosixJoined
    PROVE Spec => []ContextAlive
  <1>1. Init => JoinedDone
    BY DEF Init, JoinedDone
  <1>2. TypeOK /\ JoinedDone /\ [Next]_vars => JoinedDone'
    BY JoinedStep
  <1>3. JoinedDone => ContextAlive
    BY DEF JoinedDone, ContextAlive, Threads
  <1> QED BY <1>1, <1>2, <1>3, ForwardTypeCorrect, PTL DEF Spec

-----------------------------------------------------------------------------
(* The stop flag.                                                          *)

\* after its one frame, thread_tcp_to_usb is past recv and will see the flag
AfterBound ==
    /\ ~stop => after = 0
    /\ after <= 1
    /\ after = 1 => pc[Up] \notin {"recv", "seq", "ack", "transfer"}

LEMMA AfterStep ==
    ASSUME TypeOK, AfterBound, [Next]_vars
    PROVE AfterBound'
  <1> USE DEF AfterBound, At, Goto, Threads, Up, Down
  <1>1. ASSUME NEW t \in Threads, Steps(t) PROVE AfterBound'
    <2>1. CASE LoadSeq(t) \/ LoadAck(t) \/ LoadOld(t) \/ StoreNew(t)
      BY <1>1, <2>1 DEF LoadSeq, LoadAck, LoadOld, StoreNew, Sent, TypeOK
    <2>2. CASE Transfer(t)
      BY <1>1, <2>2 DEF Transfer, Sent, Failed, TypeOK
    <2>3. CASE CheckStop(t)
      BY <1>1, <2>3 DEF CheckStop, Turn, TypeOK
    <2>4. CASE SetStop(t)
      BY <1>1, <2>4 DEF SetStop, TypeOK
    <2> QED BY <1>1, <2>1, <2>2, <2>3, <2>4 DEF Steps
  <1>2. CASE Recv
    BY <1>2 DEF Recv, Send, TypeOK
  <1>3. CASE ReadPrebuf \/ ReadFails \/ TcpSend
    BY <1>3 DEF ReadPrebuf, ReadFails, TcpSend, TypeOK
  <1>4. CASE ReadFrame
    BY <1>4 DEF ReadFrame, Send, TypeOK
  <1>5. CASE Join \/ PhoneSends \/ TcpActs \/ UNCHANGED vars
    BY <1>5 DEF Join, PhoneSends, TcpActs, vars
  <1> QED BY <1>1, <1>2, <1>3, <1>4, <1>5, NextCases

\* thread_tcp_to_usb sends at most one frame after the stop flag is set.
THEOREM OneFrameAfterStop == Spec => []OneAfterStop
  <1>1. Init => AfterBound
    BY DEF Init, AfterBound
  <1>2. TypeOK /\ AfterBound /\ [Next]_vars => AfterBound'
    BY AfterStep
  <1>3. AfterBound => OneAfterStop
    BY DEF AfterBound, OneAfterStop
  <1> QED BY <1>1, <1>2, <1>3, ForwardTypeCorrect, PTL DEF Spec

-----------------------------------------------------------------------------
(* Acknowledged data.                                                      *)

\* with k units in thread_usb_to_tcp's buffer, everything is somewhere
Balance(k) == tcpOut + k + prebuf + ISN = early + rx_ack

Handing == SendPlaces \cup {"send"}

AckBalance ==
    /\ frame[Down].fin => finished
    /\ ~lost /\ ~finished =>
          IF pc[Down] \in Handing THEN Balance(n) ELSE Balance(0)

LEMMA AckStep ==
    ASSUME TypeOK, AckBalance, [Next]_vars
    PROVE AckBalance'
  <1> USE DEF AckBalance, Balance, Handing, SendPlaces, At, Goto, Threads, Up, Down
  <1>1. ASSUME NEW t \in Threads, Steps(t) PROVE AckBalance'
    <2> USE <1>1
    <2>1. CASE LoadSeq(t)
      BY <2>1 DEF LoadSeq, TypeOK, Frames, session, tcp
    <2>2. CASE LoadAck(t)
      BY <2>2 DEF LoadAck, TypeOK, Frames, session, tcp
    <2>3. CASE Transfer(t)
      <3>1. frame' = frame \/ Drop(t)
        BY <2>3 DEF Transfer
      <3>2. frame'[Down].fin => frame[Down].fin
        BY <3>1, NoFrameOK DEF TypeOK, Drop
      <3>3. pc'[Down] = pc[Down] \/ (pc[Down] = "transfer" /\ pc'[Down] \in {"load", Sent(Down)})
        BY <2>3 DEF Transfer, Failed, TypeOK
      <3>4. Sent(Down) = "send" \/ frame[Down].fin
        BY DEF Sent
      <3>5. UNCHANGED <<n, tcpOut, prebuf, early, rx_ack, lost, finished>>
        BY <2>3 DEF Transfer, session
      <3> QED BY <3>2, <3>3, <3>4, <3>5
    <2>4. CASE LoadOld(t)
      BY <2>4 DEF LoadOld, TypeOK, session, tcp
    <2>5. CASE StoreNew(t)
      BY <2>5 DEF StoreNew, Sent, Drop, NoFrame, TypeOK, Frames, session, tcp
    <2>6. CASE CheckStop(t)
      BY <2>6 DEF CheckStop, Turn, TypeOK, session, tcp
    <2>7. CASE SetStop(t)
      BY <2>7 DEF SetStop, TypeOK, session, tcp
    <2> QED BY <2>1, <2>2, <2>3, <2>4, <2>5, <2>6, <2>7 DEF Steps
  <1>2. CASE Recv
    BY <1>2 DEF Recv, Send, NoFrame, TypeOK, Frames, session, tcp
  <1>3. CASE ReadPrebuf
    BY <1>3, Bounds DEF ReadPrebuf, TypeOK, session, tcp
  <1>4. CASE ReadFails
    BY <1>4 DEF ReadFails, TypeOK, session, tcp
  <1>5. CASE TcpSend
    BY <1>5, Bounds DEF TcpSend, TypeOK, session, tcp
  <1>6. CASE ReadFrame
    <2>1. Head(in) \in PhoneFrame
      BY <1>6, HeadTailProperties DEF TypeOK, ReadFrame
    <2>2. rx_ack' = rx_ack + Consumed(Head(in)) /\ n' = Head(in).len
      BY <1>6 DEF ReadFrame
    <2>3. UNCHANGED <<tcpOut, prebuf, early, lost>> /\ pc[Down] = "read"
      BY <1>6 DEF ReadFrame
    <2>4. /\ rx_ack \in Nat /\ tcpOut \in Nat
          /\ prebuf \in Nat /\ early \in Nat /\ Head(in).len \in Nat
      <3>1. Head(in).len \in {0} \cup Lens
        BY <2>1 DEF PhoneFrame
      <3> QED BY <3>1, Bounds DEF TypeOK
    <2>5. ~lost /\ ~finished => Balance(0)
      BY <2>3
    <2>6. CASE Head(in).kind \in {"ack", "rst"}
      <3>1. Head(in).len = 0
        BY <2>1, <2>6 DEF PhoneFrame
      <3>2. Consumed(Head(in)) = 0
        BY <3>1, <2>6 DEF Consumed
      <3>3. pc'[Down] \notin Handing /\ UNCHANGED <<frame, finished>>
        BY <1>6, <2>6 DEF ReadFrame, TypeOK
      <3>4. ~lost /\ ~finished => Balance(0)'
        BY <2>2, <2>3, <2>4, <2>5, <3>2
      <3> QED BY <2>3, <3>3, <3>4
    <2>7. CASE Head(in).kind = "data"
      <3>1. Consumed(Head(in)) = Head(in).len
        BY <2>4, <2>7 DEF Consumed
      <3>2. Send(Down, FALSE, 0) /\ UNCHANGED finished
        BY <1>6, <2>7 DEF ReadFrame
      <3>3. pc'[Down] = "seq" /\ ~frame'[Down].fin
        BY <3>2 DEF Send, TypeOK
      <3>4. ~lost /\ ~finished => tcpOut' + n' + prebuf' + ISN = early' + rx_ack'
        BY <2>2, <2>3, <2>4, <2>5, <3>1, Bounds
      <3> QED BY <2>3, <3>2, <3>3, <3>4
    <2>8. CASE Head(in).kind = "fin"
      BY <1>6, <2>8 DEF ReadFrame
    <2> QED BY <2>1, <2>6, <2>7, <2>8 DEF PhoneFrame
  <1>7. CASE Join \/ PhoneSends \/ TcpActs \/ UNCHANGED vars
    BY <1>7 DEF Join, PhoneSends, TcpActs, vars, session, tcp
  <1> QED BY <1>1, <1>2, <1>3, <1>4, <1>5, <1>6, <1>7, NextCases

\* Unless send itself loses it, data that the phone was told is received has been
\* handed to the TCP peer whenever thread_usb_to_tcp is between two turns or ended.
THEOREM AcknowledgedForwarded == Spec => []AckedIsForwarded
  <1>1. Init => AckBalance
    BY Bounds
    DEF Init, AckBalance, Balance, Handing, SendPlaces, NoFrame, Threads, Up, Down
  <1>2. TypeOK /\ AckBalance /\ [Next]_vars => AckBalance'
    BY AckStep
  <1>3. TypeOK /\ AckBalance => AckedIsForwarded
    BY Bounds
    DEF TypeOK, AckBalance, AckedIsForwarded, Balance, Handing, SendPlaces
  <1> QED BY <1>1, <1>2, <1>3, ForwardTypeCorrect, PTL DEF Spec

-----------------------------------------------------------------------------
(* What is on the wire to the phone.                                       *)

\* Every set of natural numbers has its smallest element.
LEMMA LeastNatural ==
  ASSUME NEW T \in SUBSET Nat, T # {}
  PROVE  \E x \in T : \A y \in T : x <= y
<1> DEFINE R == {p \in Nat \X Nat : p[1] < p[2]}
<1>1. IsWellFoundedOn(R, Nat)
  BY NatLessThanWellFounded DEF OpToRel
<1>2. \A x, y \in Nat : x < y => <<x, y>> \in R
  OBVIOUS
<1> HIDE DEF R
<1>3. PICK x \in T : \A y \in T : <<y, x>> \notin R
  BY <1>1, WFMin
<1>4. ASSUME NEW y \in T PROVE x <= y
  <2>1. x \in Nat /\ y \in Nat /\ ~(y < x)
    BY <1>2, <1>3
  <2> QED BY <2>1
<1> QED BY <1>4

\* A set of positions has its largest element.
LEMMA MaxOfPositions ==
    ASSUME NEW top \in Nat, NEW S \in SUBSET (1..top), S # {}
    PROVE Max(S) \in S /\ \A y \in S : y <= Max(S)
  <1> DEFINE T == {k \in Nat : k <= top /\ top - k \in S}
  <1>1. T # {}
    <2>1. PICK y \in S : TRUE
      OBVIOUS
    <2>2. top - y \in Nat /\ top - y <= top /\ top - (top - y) = y
      OBVIOUS
    <2> QED BY <2>2
  <1>2. PICK k \in T : \A j \in T : k <= j
    BY <1>1, LeastNatural
  <1>3. \A y \in S : top - y \in T
    <2> SUFFICES ASSUME NEW y \in S PROVE top - y \in T
      OBVIOUS
    <2>2. top - y \in Nat /\ top - y <= top /\ top - (top - y) = y
      OBVIOUS
    <2> QED BY <2>2
  <1>4. top - k \in S /\ \A y \in S : y <= top - k
    <2>1. top - k \in S /\ k \in Nat
      OBVIOUS
    <2>2. ASSUME NEW y \in S PROVE y <= top - k
      <3>1. k <= top - y
        BY <1>2, <1>3
      <3> QED BY <2>1, <3>1
    <2> QED BY <2>1, <2>2
  <1> QED BY <1>4 DEF Max

\* The places where a thread has loaded the number of its frame, and those
\* between the transfer and the end of "tx_seq +=".
Loaded == {"ack", "transfer", "load", "store"}
Adding == {"load", "store"}

\* Until the FIN only thread_tcp_to_usb adds to tx_seq, so what it has loaded is
\* still the number, and the data on the wire ends there, or one frame further
\* while the sum is not stored; the other thread may hold an older number.
UpNumber ==
    /\ pc[Up] \in SendPlaces => frame[Up].len > 0
    /\ pc[Up] \in Loaded => frame[Up].seq = tx_seq
    /\ pc[Up] = "store" => old[Up] = tx_seq
DownNumber ==
    /\ pc[Down] \notin Adding
    /\ pc[Down] \in Loaded => frame[Down].seq <= tx_seq
WireEnd ==
    DataEnd(Len(out) + 1) = IF pc[Up] \in Adding THEN tx_seq + frame[Up].len ELSE tx_seq
WireInv == ~finished => UpNumber /\ DownNumber /\ WireEnd /\ TxContiguous

\* Data ends where it ended before when a frame is put behind it, and what comes
\* next starts at the end of that frame if it has data.
LEMMA DataEndAppend ==
    ASSUME out \in Seq(Frames), NEW f \in Frames, out' = Append(out, f)
    PROVE /\ \A i \in 1..(Len(out) + 1) : DataEnd(i)' = DataEnd(i)
          /\ DataEnd(Len(out) + 1)' =
                IF f.len > 0 THEN f.seq + f.len ELSE DataEnd(Len(out) + 1)
  <1>1. /\ Len(out) \in Nat
        /\ \A j \in 1..Len(out) : out'[j] = out[j]
        /\ out'[Len(out) + 1] = f
    BY AppendProperties
  <1>2. ASSUME NEW i \in 1..(Len(out) + 1)
        PROVE /\ DataBefore(i)' = DataBefore(i)
              /\ DataEnd(i)' = DataEnd(i)
    <2>1. i - 1 \in Nat /\ \A j \in 1..(i - 1) : j \in 1..Len(out)
      BY <1>1
    <2>2. DataBefore(i)' = DataBefore(i)
      BY <1>1, <2>1 DEF DataBefore
    <2>3. CASE DataBefore(i) = {}
      BY <2>2, <2>3 DEF DataEnd
    <2>4. CASE DataBefore(i) # {}
      <3>1. Max(DataBefore(i)) \in DataBefore(i)
        BY <2>1, <2>4, MaxOfPositions DEF DataBefore
      <3>2. Max(DataBefore(i)) \in 1..Len(out)
        BY <2>1, <3>1 DEF DataBefore
      <3>3. out'[Max(DataBefore(i))] = out[Max(DataBefore(i))]
        BY <1>1, <3>2
      <3> QED BY <2>2, <2>4, <3>3 DEF DataEnd
    <2> QED BY <2>2, <2>3, <2>4
  <1> DEFINE e == IF f.len > 0 THEN f.seq + f.len ELSE DataEnd(Len(out) + 1)
  <1>3. ASSUME NEW k \in Nat, k = Len(out) + 1
        PROVE DataEnd(k + 1)' = e
    <2>1. k \in 1..(Len(out) + 1) /\ (k + 1) - 1 = k /\ k - 1 = Len(out)
      BY <1>1, <1>3
    <2>2. \A j : j \in 1..k <=> j = k \/ j \in 1..Len(out)
      BY <1>1, <1>3
    <2>3. DataBefore(k)' = {j \in 1..Len(out) : out'[j].len > 0}
      BY <2>1 DEF DataBefore
    <2>4. DataBefore(k + 1)' = {j \in 1..k : out'[j].len > 0}
      BY <2>1 DEF DataBefore
    <2>5. CASE f.len > 0
      <3> DEFINE S == {j \in 1..k : out'[j].len > 0}
      <3>1. k \in S /\ \A y \in S : y <= k
        BY <1>1, <1>3, <2>1, <2>5
      <3>2. Max(S) \in S /\ \A y \in S : y <= Max(S)
        BY <3>1, MaxOfPositions
      <3>3. Max(S) = k
        <4>1. Max(S) \in 1..k
          BY <3>2
        <4> HIDE DEF S
        <4> QED BY <3>1, <3>2, <4>1
      <3> HIDE DEF S
      <3>4. DataEnd(k + 1)' = out'[k].seq + out'[k].len
        <4>1. DataBefore(k + 1)' = S
          BY <2>4 DEF S
        <4> QED BY <3>1, <3>3, <4>1 DEF DataEnd
      <3> QED BY <1>1, <1>3, <2>5, <3>4
    <2>6. CASE ~(f.len > 0)
      <3>1. ~(out'[k].len > 0)
        BY <1>1, <1>3, <2>6
      <3>2. DataBefore(k + 1)' = DataBefore(k)'
        BY <2>2, <2>3, <2>4, <3>1
      <3>3. DataEnd(k + 1)' = DataEnd(k)'
        BY <3>2 DEF DataEnd
      <3> QED BY <1>2, <1>3, <2>1, <2>6, <3>3
    <2> QED BY <2>5, <2>6
  <1>4. Len(out') = Len(out) + 1 /\ Len(out') \in Nat
    BY AppendProperties
  <1> HIDE DEF e
  <1> QED BY <1>2, <1>3, <1>4 DEF e

\* While nothing is put on the wire, everything on it ends where it did.
LEMMA WireSame ==
    ASSUME UNCHANGED out
    PROVE \A i : DataEnd(i)' = DataEnd(i)
  BY DEF DataEnd, DataBefore

\* A frame that starts where the data on the wire ends, or an empty one that
\* starts no later, may follow it.
LEMMA WireAppend ==
    ASSUME out \in Seq(Frames), NEW f \in Frames, out' = Append(out, f),
           ~finished, TxContiguous,
           IF f.len > 0 THEN f.seq = DataEnd(Len(out) + 1) ELSE f.seq <= DataEnd(Len(out) + 1)
    PROVE TxContiguous'
  <1>1. /\ Len(out) \in Nat /\ Len(out') = Len(out) + 1
        /\ \A j \in 1..Len(out) : out'[j] = out[j]
        /\ out'[Len(out) + 1] = f
    BY AppendProperties
  <1>2. SUFFICES ASSUME NEW i \in 1..Len(out')
                 PROVE IF out'[i].len > 0 THEN out'[i].seq = DataEnd(i)'
                       ELSE out'[i].seq <= DataEnd(i)'
    BY DEF TxContiguous
  <1>3. i \in 1..(Len(out) + 1) /\ DataEnd(i)' = DataEnd(i)
    BY <1>1, DataEndAppend
  <1>4. CASE i \in 1..Len(out)
    <2>1. IF out[i].len > 0 THEN out[i].seq = DataEnd(i) ELSE out[i].seq <= DataEnd(i)
      BY <1>4 DEF TxContiguous
    <2> QED BY <1>1, <1>3, <1>4, <2>1
  <1>5. CASE i = Len(out) + 1
    BY <1>1, <1>3, <1>5
  <1> QED BY <1>1, <1>3, <1>4, <1>5

LEMMA LensPositive == \A k \in Lens : k \in Nat /\ k > 0
  <1>1. Lens \subseteq Nat \ {0}
    BY ForwardAssumption
  <1>2. \A k \in Nat \ {0} : k > 0
    OBVIOUS
  <1> QED BY <1>1, <1>2

\* Types of what is compared.
LEMMA WireTypes ==
    ASSUME TypeOK
    PROVE /\ tx_seq \in Nat
          /\ \A t \in Threads : frame[t] \in Frames /\ frame[t].seq \in Nat /\ frame[t].len \in Nat
          /\ frame[Down].len = 0 /\ ~frame[Up].fin
  <1>1. \A f \in Frames : f.seq \in Nat /\ f.len \in Nat
    BY Bounds DEF Frames
  <1> QED BY <1>1 DEF TypeOK

\* The transfer puts a frame on the wire with the number it has loaded.
LEMMA WireTransfer ==
    ASSUME TypeOK, AckBalance, WireInv, ~finished, NEW t \in Threads, Transfer(t)
    PROVE UpNumber' /\ DownNumber' /\ WireEnd' /\ TxContiguous'
  <1> USE DEF At, Goto, Threads, Up, Down
  <1>0. UpNumber /\ DownNumber /\ WireEnd /\ TxContiguous /\ ~frame[Down].fin
    BY DEF WireInv, AckBalance
  <1>1. UNCHANGED <<tx_seq, old, finished>>
    BY DEF Transfer, session
  <1>2. CASE t = Up
    <2>1. /\ pc[Up] = "transfer" /\ frame[Up].seq = tx_seq /\ frame[Up].len > 0
          /\ DataEnd(Len(out) + 1) = tx_seq
      BY <1>0, <1>2 DEF Transfer, UpNumber, WireEnd, Loaded, Adding, SendPlaces
    <2>2. Space(frame[Up]) > 0
      BY <2>1, WireTypes DEF Space
    <2>3. CASE out' = Append(out, frame[Up]) /\ pc' = [pc EXCEPT ![Up] = "load"] /\ UNCHANGED frame
      <3>1. TxContiguous'
        BY <1>0, <2>1, <2>3, WireAppend, WireTypes DEF TypeOK
      <3>2. DataEnd(Len(out) + 1)' = frame[Up].seq + frame[Up].len
        BY <2>1, <2>3, DataEndAppend, WireTypes DEF TypeOK
      <3>3. pc'[Up] = "load" /\ pc'[Down] = pc[Down]
        BY <2>3 DEF TypeOK
      <3>4. WireEnd'
        BY <1>1, <2>1, <2>3, <3>2, <3>3 DEF WireEnd, Adding
      <3> QED BY <1>0, <1>1, <2>1, <2>3, <3>1, <3>3, <3>4
              DEF UpNumber, DownNumber, Loaded, Adding, SendPlaces
    <2>4. CASE pc' = [pc EXCEPT ![Up] = "stop"] /\ Drop(Up) /\ UNCHANGED out
      <3>1. pc'[Up] = "stop" /\ pc'[Down] = pc[Down] /\ frame'[Down] = frame[Down]
        BY <2>4, DropFrame DEF TypeOK, FrameOK
      <3>2. WireEnd' /\ TxContiguous'
        BY <1>0, <1>1, <2>1, <2>4, <3>1, WireSame DEF WireEnd, TxContiguous, Adding
      <3> QED BY <1>0, <1>1, <3>1, <3>2 DEF UpNumber, DownNumber, Loaded, Adding, SendPlaces
    <2> QED BY <1>2, <2>2, <2>3, <2>4 DEF Transfer, Failed
  <1>3. CASE t = Down
    <2>1. pc[Down] = "transfer" /\ frame[Down].len = 0 /\ frame[Down].seq <= tx_seq
      BY <1>0, <1>3, WireTypes DEF Transfer, DownNumber, Loaded
    <2>2. Space(frame[Down]) = 0 /\ Sent(Down) = "send" /\ Failed(Down) = "send"
      BY <1>0, <2>1 DEF Space, Sent, Failed
    <2>3. /\ pc' = [pc EXCEPT ![Down] = "send"] /\ Drop(Down)
          /\ UNCHANGED out \/ out' = Append(out, frame[Down])
      BY <1>3, <2>2 DEF Transfer
    <2>4. pc'[Down] = "send" /\ pc'[Up] = pc[Up] /\ frame'[Up] = frame[Up]
      BY <2>3, DropFrame DEF TypeOK, FrameOK
    <2>5. DataEnd(Len(out) + 1) \in Nat /\ tx_seq <= DataEnd(Len(out) + 1)
      BY <1>0, WireTypes DEF WireEnd
    <2>6. TxContiguous' /\ DataEnd(Len(out) + 1)' = DataEnd(Len(out) + 1)
      <3>1. CASE UNCHANGED out
        BY <1>0, <1>1, <3>1, WireSame DEF TxContiguous
      <3>2. CASE out' = Append(out, frame[Down])
        <4>1. frame[Down].seq <= DataEnd(Len(out) + 1)
          BY <2>1, <2>5, WireTypes
        <4> QED BY <1>0, <2>1, <3>2, <4>1, WireAppend, DataEndAppend, WireTypes DEF TypeOK
      <3> QED BY <2>3, <3>1, <3>2
    <2>7. WireEnd'
      BY <1>0, <1>1, <2>4, <2>6 DEF WireEnd
    <2> QED BY <1>0, <1>1, <2>4, <2>6, <2>7 DEF UpNumber, DownNumber, Loaded, Adding, SendPlaces
  <1> QED BY <1>2, <1>3

LEMMA WireStep ==
    ASSUME TypeOK, AckBalance, WireInv, [Next]_vars
    PROVE WireInv'
  <1> USE DEF At, Goto, Threads, Up, Down
  <1>1. SUFFICES ASSUME ~finished'
                 PROVE UpNumber' /\ DownNumber' /\ WireEnd' /\ TxContiguous'
    BY DEF WireInv
  <1>2. ~finished
    BY <1>1 DEF Next, UpStep, DownStep, SendStep, LoadSeq, LoadAck, Transfer, LoadOld,
                StoreNew, CheckStop, SetStop, Recv, ReadPrebuf, ReadFrame, ReadFails,
                TcpSend, Join, PhoneSends, TcpActs, vars
  <1>3. UpNumber /\ DownNumber /\ WireEnd /\ TxContiguous /\ ~frame[Down].fin
    BY <1>2 DEF WireInv, AckBalance
  <1>4. ASSUME UNCHANGED <<out, tx_seq>>, pc'[Up] \in Adding <=> pc[Up] \in Adding,
               pc[Up] \in Adding => frame'[Up].len = frame[Up].len
        PROVE WireEnd' /\ TxContiguous'
    BY <1>1, <1>2, <1>3, <1>4, WireSame DEF WireEnd, TxContiguous
  <1> USE DEF Loaded, Adding, SendPlaces
  <1>5. ASSUME NEW t \in Threads, Steps(t)
        PROVE UpNumber' /\ DownNumber' /\ WireEnd' /\ TxContiguous'
    <2>1. CASE LoadSeq(t) \/ LoadAck(t)
      <3>1. /\ UNCHANGED <<out, tx_seq, old>>
            /\ \A u \in Threads : u # t => pc'[u] = pc[u] /\ frame'[u] = frame[u]
            /\ \/ pc[t] = "seq" /\ pc'[t] = "ack" /\ frame'[t].seq = tx_seq
               \/ pc[t] = "ack" /\ pc'[t] = "transfer" /\ frame'[t].seq = frame[t].seq
            /\ frame'[t].len = frame[t].len
        <4>1. frame \in [Threads -> Frames] /\ pc \in [Threads -> Places]
          BY DEF TypeOK
        <4>2. CASE LoadSeq(t)
          <5>1. frame'[t] = [frame[t] EXCEPT !.seq = tx_seq]
            BY <4>1, <4>2 DEF LoadSeq
          <5>2. frame'[t].seq = tx_seq /\ frame'[t].len = frame[t].len
            BY <4>1, <5>1 DEF Frames
          <5>3. pc[t] = "seq" /\ pc'[t] = "ack" /\ \A u \in Threads : u # t => pc'[u] = pc[u]
            BY <4>1, <4>2 DEF LoadSeq
          <5>4. UNCHANGED <<out, tx_seq, old>>
            BY <4>2 DEF LoadSeq, session
          <5>5. \A u \in Threads : u # t => frame'[u] = frame[u]
            BY <4>1, <4>2 DEF LoadSeq
          <5> QED BY <5>2, <5>3, <5>4, <5>5
        <4>3. CASE LoadAck(t)
          <5>1. frame'[t] = [frame[t] EXCEPT !.ack = rx_ack]
            BY <4>1, <4>3 DEF LoadAck
          <5>2. frame'[t].seq = frame[t].seq /\ frame'[t].len = frame[t].len
            BY <4>1, <5>1 DEF Frames
          <5> QED BY <4>1, <4>3, <5>2 DEF LoadAck, session
        <4> QED BY <2>1, <4>2, <4>3
      <3>2. WireEnd' /\ TxContiguous'
        BY <1>4, <3>1
      <3> QED BY <1>3, <3>1, <3>2, WireTypes DEF UpNumber, DownNumber
    <2>2. CASE Transfer(t)
      BY <1>2, <2>2, WireTransfer
    <2>3. CASE LoadOld(t)
      <3>1. t = Up /\ UNCHANGED <<out, tx_seq, frame>> /\ old'[Up] = tx_seq
        BY <1>3, <2>3 DEF LoadOld, DownNumber, session, TypeOK
      <3>2. pc[Up] = "load" /\ pc'[Up] = "store" /\ pc'[Down] = pc[Down]
        BY <2>3, <3>1 DEF LoadOld, TypeOK
      <3>3. WireEnd' /\ TxContiguous'
        BY <1>4, <3>1, <3>2
      <3> QED BY <1>3, <3>1, <3>2, <3>3 DEF UpNumber, DownNumber
    <2>4. CASE StoreNew(t)
      <3>1. t = Up /\ UNCHANGED out
        BY <1>3, <2>4 DEF StoreNew, DownNumber
      <3>2. tx_seq' = tx_seq + frame[Up].len
        BY <1>3, <2>4, <3>1, WireTypes DEF StoreNew, Space, UpNumber
      <3>3. pc[Up] = "store" /\ pc'[Up] = "check" /\ pc'[Down] = pc[Down] /\ frame'[Down] = frame[Down]
        BY <2>4, <3>1, DropFrame DEF StoreNew, Sent, TypeOK, FrameOK
      <3>4. DataEnd(Len(out) + 1)' = tx_seq + frame[Up].len
        BY <1>3, <3>1, <3>3, WireSame DEF WireEnd
      <3>5. WireEnd'
        BY <3>2, <3>3, <3>4 DEF WireEnd
      <3>6. TxContiguous'
        BY <1>1, <1>2, <1>3, <3>1, WireSame DEF TxContiguous
      <3>7. tx_seq <= tx_seq'
        BY <3>2, WireTypes
      <3> QED
        <4>1. DownNumber'
          BY <1>3, <3>2, <3>3, <3>7, WireTypes DEF DownNumber
        <4>2. UpNumber'
          BY <3>3 DEF UpNumber
        <4> QED BY <3>5, <3>6, <4>1, <4>2
    <2>5. CASE CheckStop(t) \/ SetStop(t)
      <3>1. /\ UNCHANGED <<out, tx_seq, old, frame>>
            /\ \A u \in Threads : u # t => pc'[u] = pc[u]
            /\ pc[t] \in {"check", "stop"} /\ pc'[t] \in {"stop", "recv", "read", "done"}
        BY <2>5 DEF CheckStop, SetStop, Turn, session, TypeOK
      <3>2. WireEnd' /\ TxContiguous'
        BY <1>4, <3>1
      <3> QED BY <1>3, <3>1, <3>2 DEF UpNumber, DownNumber
    <2> QED BY <1>5, <2>1, <2>2, <2>3, <2>4, <2>5 DEF Steps
  <1>6. CASE Recv
    <2>1. /\ UNCHANGED <<out, tx_seq, old>> /\ pc[Up] = "recv"
          /\ pc'[Down] = pc[Down] /\ frame'[Down] = frame[Down]
          /\ pc'[Up] \in {"stop", "check"} \/ (pc'[Up] = "seq" /\ frame'[Up].len > 0)
      <3>1. UNCHANGED <<out, tx_seq, old>> /\ pc[Up] = "recv"
        BY <1>6 DEF Recv, session
      <3>2. CASE tcpIn # <<>>
        <4>1. Head(tcpIn) \in Lens
          BY <3>2, HeadTailProperties DEF TypeOK
        <4>3. Head(tcpIn) > 0
          BY <4>1, LensPositive
        <4>2. Send(Up, FALSE, Head(tcpIn))
          BY <1>6, <3>2 DEF Recv
        <4> QED BY <3>1, <4>1, <4>2, <4>3 DEF Send, TypeOK
      <3>3. CASE tcpIn = <<>>
        <4>1. UNCHANGED frame /\ (pc' = [pc EXCEPT ![Up] = "stop"] \/ pc' = [pc EXCEPT ![Up] = "check"])
          BY <1>6, <3>3 DEF Recv
        <4> QED BY <3>1, <4>1 DEF TypeOK
      <3> QED BY <3>2, <3>3
    <2>2. WireEnd' /\ TxContiguous'
      BY <1>4, <2>1
    <2> QED BY <1>3, <2>1, <2>2 DEF UpNumber, DownNumber
  <1>7. CASE ReadPrebuf \/ ReadFails \/ TcpSend
    <2>1. /\ UNCHANGED <<out, tx_seq, old, frame>> /\ pc'[Up] = pc[Up]
          /\ pc'[Down] \in {"send", "stop", "check"}
      BY <1>7 DEF ReadPrebuf, ReadFails, TcpSend, session, TypeOK
    <2>2. WireEnd' /\ TxContiguous'
      BY <1>4, <2>1
    <2> QED BY <1>3, <2>1, <2>2 DEF UpNumber, DownNumber
  <1>8. CASE ReadFrame
    <2>1. UNCHANGED <<out, tx_seq, old>> /\ pc[Down] = "read"
      BY <1>8 DEF ReadFrame
    <2>2. pc'[Up] = pc[Up] /\ frame'[Up] = frame[Up] /\ pc'[Down] \in {"seq", "stop", "read"}
      <3>1. CASE UNCHANGED frame
        BY <1>8, <2>1, <3>1 DEF ReadFrame, Send, TypeOK
      <3>2. CASE Send(Down, FALSE, 0) \/ Send(Down, TRUE, 0)
        BY <3>2 DEF Send, TypeOK
      <3> QED BY <1>8, <3>1, <3>2 DEF ReadFrame
    <2>3. WireEnd' /\ TxContiguous'
      BY <1>4, <2>1, <2>2
    <2> QED BY <1>3, <2>1, <2>2, <2>3 DEF UpNumber, DownNumber
  <1>9. CASE Join \/ PhoneSends \/ TcpActs \/ UNCHANGED vars
    <2>1. UNCHANGED <<out, tx_seq, old, frame, pc>>
      BY <1>9 DEF Join, PhoneSends, TcpActs, vars, session
    <2>2. WireEnd' /\ TxContiguous'
      BY <1>4, <2>1
    <2> QED BY <1>3, <2>1, <2>2 DEF UpNumber, DownNumber
  <1> QED BY <1>5, <1>6, <1>7, <1>8, <1>9, NextCases

\* Until the phone's FIN is answered, the data that forward_loop puts on the wire
\* follows itself without gap or overlap and no acknowledgement is numbered ahead
\* of it, although two threads read tx_seq and no lock protects it: only one of
\* them sends data, and the other's frames take no sequence numbers.
THEOREM ForwardContiguous == Spec => []TxContiguous
  <1>1. Init => AckBalance /\ WireInv
    <2> SUFFICES ASSUME Init PROVE AckBalance /\ WireInv
      OBVIOUS
    <2>1. AckBalance
      BY Bounds
      DEF Init, AckBalance, Balance, Handing, SendPlaces, NoFrame, Threads, Up, Down
    <2>2. out = <<>> /\ Len(out) = 0 /\ tx_seq = TxInit /\ \A t \in Threads : pc[t] = "check"
      BY DEF Init
    <2>3. UpNumber /\ DownNumber
      BY <2>2 DEF UpNumber, DownNumber, Loaded, Adding, SendPlaces, Threads
    <2>4. DataEnd(Len(out) + 1) = TxInit
      <3>1. DataBefore(1) = {}
        BY DEF DataBefore
      <3> QED BY <2>2, <3>1 DEF DataEnd
    <2>5. WireEnd /\ TxContiguous
      BY <2>2, <2>4 DEF WireEnd, TxContiguous, Adding, Threads
    <2> QED BY <2>1, <2>3, <2>5 DEF WireInv
  <1>2. TypeOK /\ AckBalance /\ WireInv /\ [Next]_vars => AckBalance' /\ WireInv'
    BY AckStep, WireStep
  <1>3. WireInv => TxContiguous
    BY DEF WireInv, TxContiguous
  <1> QED BY <1>1, <1>2, <1>3, ForwardTypeCorrect, PTL DEF Spec
=============================================================================
