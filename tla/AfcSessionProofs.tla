-------------------------- MODULE AfcSessionProofs ---------------------------
(***************************************************************************)
(* Proofs about AfcSession: types, and that the answers of both sessions   *)
(* stay in step with their requests until an exchange fails.               *)
(***************************************************************************)
EXTENDS AfcSession, SequenceTheorems, TLAPS

BlockType == [value : Values, index : Nat]
FileOps == {"write", "rename", "read", "make", "delete", "kind", "list"}
Texts == [type : {"text"}, about : Polls]

Requests ==
    [type : {"FileOpen"}, path : Paths, write : BOOLEAN]
    \cup [type : {"FileRead", "FileClose"}, handle : 0..MaxHandles]
    \cup [type : {"FileWrite"}, handle : 0..MaxHandles, block : BlockType]
    \cup {[type |-> "ReadDirectory"]}
    \cup [type : {"MakeDirectory", "RemovePath", "GetFileInfo"}, path : Paths]
    \cup [type : {"RenamePath"}, path : Paths, to : Paths]

-----------------------------------------------------------------------------
(* TypeOK in parts, with what the proof needs beside it.                   *)

CallOK ==
    /\ call \in FileCalls \cup [op : Polls] \cup {NoCall}
    /\ at \in {"open", "data", "close", "only"}
    /\ stage \in {"idle", "ask", "head", "mixed", "body",
                  "query", "length", "text", "drain"}
    /\ stage = "idle" <=> call.op = "none"
    /\ stage \in {"ask", "head", "mixed", "body"} <=> call.op \in FileOps
    /\ at # "only" <=> call.op \in {"read", "write"}

HeadOK ==
    IF stage = "body" THEN head \in Headers /\ head.rest > 0 ELSE head = NoAnswer

LocalsOK ==
    /\ handle \in 0..MaxHandles
    /\ blocks \in Seq(BlockType)

PipeOK ==
    /\ afcRequests \in Seq(Requests)
    /\ wire \in Seq(Frames)
    /\ ldAnswers \in Seq({Length} \cup Texts)
    /\ more \in 0..MaxRest

Entry == [kind : {"none", "folder", "file"}, blocks : Seq(BlockType)]
Position == [path : Paths, position : Nat]

PhoneOK ==
    /\ files \in [Paths -> Entry]
    /\ DOMAIN handles \subseteq 1..MaxHandles
    /\ handles \in [DOMAIN handles -> Position]

FlagsOK ==
    /\ sure \in BOOLEAN /\ overread \in BOOLEAN /\ up \in BOOLEAN
    /\ sound \in BOOLEAN /\ lossless \in BOOLEAN
    /\ ~up => stage = "idle"
    /\ overread => stage \in {"ask", "head", "mixed", "body"}

TypeInv ==
    /\ CallOK /\ HeadOK /\ LocalsOK /\ PipeOK /\ PhoneOK /\ FlagsOK
    /\ faults \in 0..MaxFaults

\* Calls are known by their operation.
LEMMA CallShape ==
    ASSUME call \in FileCalls \cup [op : Polls] \cup {NoCall}
    PROVE /\ call \in FileCalls <=> call.op \in FileOps
          /\ call.op \in FileOps \cup Polls \cup {"none"}
          /\ call = NoCall <=> call.op = "none"
          /\ call.op \in FileOps \ {"list"} => call.path \in Paths \cup LongPaths
          /\ call.op \in {"make", "delete", "kind"} => call.path \in Paths
          /\ call.op = "write" => call.value \in Values
          /\ call.op = "rename" => call.to \in Paths
  BY DEF FileCalls, FileOps, NoCall, Polls

LEMMA NoCallOp == NoCall.op = "none" /\ NoCall \notin FileCalls
  BY DEF NoCall, FileCalls

LEMMA JunkOK == Junk \in BlockType
  BY AfcAssumption DEF Junk, Block, BlockType

LEMMA AnswerKinds ==
    /\ NoAnswer \notin Answers /\ NoAnswer.kind = "none"
    /\ Ok \in Answers /\ Error \in Answers /\ Empty \in Answers
    /\ Error.kind = "error" /\ Ok # Error
  BY DEF NoAnswer, Answers, Ok, Error, Empty

\* What a payload carries.
LEMMA AnswerShape ==
    ASSUME NEW a \in Answers \cup {NoAnswer}
    PROVE /\ a.kind = "handle" => a.handle \in 1..MaxHandles
          /\ a.kind = "block" => a.block \in BlockType
  BY DEF NoAnswer, Answers, Ok, Error, Empty, BlockType

LEMMA FrameShape ==
    ASSUME NEW f \in Frames
    PROVE /\ f.type \in {"head", "rest", "length", "text"}
          /\ f.type = "head" => f \in Headers
          /\ f.type = "rest" => f = Rest
  BY DEF Frames, Headers, Rest, Length

-----------------------------------------------------------------------------
(* Resume: what the operation makes of an answer.                          *)

LEMMA ResumeCall ==
    ASSUME CallOK, LocalsOK, call.op \in FileOps,
           NEW a \in Answers \cup {NoAnswer}, Resume(a)
    PROVE /\ CallOK' /\ LocalsOK'
          /\ stage' \in {"idle", "ask"}
          /\ head' = NoAnswer /\ UNCHANGED <<up, sure>>
  <1> USE NoCallOp DEF CallOK, Leave, Go, FileOps
  <1>0. /\ head' = NoAnswer /\ UNCHANGED up /\ NoCall \in FileCalls \cup [op : Polls] \cup {NoCall}
        /\ 0 \in 0..MaxHandles /\ <<>> \in Seq(BlockType)
    BY AfcAssumption DEF Resume
  <1>1. CASE at = "open"
    <2>1. OpenAnswered(a)
      BY <1>1 DEF Resume
    <2>2. CASE a = NoAnswer \/ (call.op = "write" /\ TooShort(a))
      BY <1>0, <2>1, <2>2 DEF OpenAnswered, LocalsOK
    <2>3. CASE ~(a = NoAnswer \/ (call.op = "write" /\ TooShort(a)))
      <3>1. Go("data") /\ blocks' = blocks
        BY <2>1, <2>3 DEF OpenAnswered
      <3>2. handle' = IF a.kind = "handle" THEN a.handle ELSE 0
        BY <2>1, <2>3 DEF OpenAnswered
      <3>3. handle' \in 0..MaxHandles
        BY <3>2, AnswerShape, AfcAssumption
      <3> QED BY <1>0, <1>1, <3>1, <3>3 DEF LocalsOK
    <2> QED BY <2>2, <2>3
  <1>2. CASE at = "data" /\ call.op = "write"
    <2>1. WriteAnswered(a)
      BY <1>2 DEF Resume
    <2>2. Block(call.value, Len(blocks) + 1) \in BlockType
      BY <1>2, CallShape DEF Block, BlockType, LocalsOK
    <2>3. blocks' \in Seq(BlockType)
      BY <2>1, <2>2, AppendProperties DEF WriteAnswered, LocalsOK
    <2> QED BY <1>0, <1>2, <2>1, <2>3 DEF WriteAnswered, LocalsOK
  <1>3. CASE at = "data" /\ call.op = "read"
    <2>1. ReadAnswered(a)
      BY <1>3 DEF Resume
    <2>2. blocks' \in Seq(BlockType)
      BY <2>1, AnswerShape, JunkOK, AppendProperties DEF ReadAnswered, LocalsOK
    <2> QED BY <1>0, <1>3, <2>1, <2>2 DEF ReadAnswered, LocalsOK
  <1>4. CASE at = "close"
    BY <1>0, <1>4 DEF Resume, LocalsOK
  <1>5. CASE at = "only"
    BY <1>0, <1>5 DEF Resume, LocalsOK
  <1> QED BY <1>1, <1>2, <1>3, <1>4, <1>5

\* The flags and the history after an answer.
LEMMA ResumeFlags ==
    ASSUME CallOK, FlagsOK, call.op \in FileOps,
           NEW a \in Answers \cup {NoAnswer}, Resume(a)
    PROVE /\ overread' \in BOOLEAN /\ sound' \in BOOLEAN /\ up' = TRUE
          /\ overread' => stage' = "ask"
  <1>1. up = TRUE /\ up' = up /\ sound' \in BOOLEAN
    BY DEF CallOK, FlagsOK, Resume, FileOps
  <1> USE DEF CallOK, FlagsOK, FileOps, Leave, Go
  <1>2. CASE at = "open"
    <2>1. OpenAnswered(a)
      BY <1>2 DEF Resume
    <2> QED BY <1>1, <2>1 DEF OpenAnswered
  <1>3. CASE at = "data" /\ call.op = "write"
    <2>1. WriteAnswered(a)
      BY <1>3 DEF Resume
    <2> QED BY <1>1, <2>1 DEF WriteAnswered
  <1>4. CASE at = "data" /\ call.op = "read"
    <2>1. ReadAnswered(a)
      BY <1>4 DEF Resume
    <2> QED BY <1>1, <2>1 DEF ReadAnswered
  <1>5. CASE at \in {"close", "only"}
    BY <1>1, <1>5 DEF Resume
  <1> QED BY <1>2, <1>3, <1>4, <1>5

\* An exchange of a file operation ends.
LEMMA ResumeType ==
    ASSUME TypeInv, call.op \in FileOps,
           NEW a \in Answers \cup {NoAnswer}, Resume(a),
           PipeOK', PhoneOK', faults' \in 0..MaxFaults, lossless' \in BOOLEAN
    PROVE TypeInv'
  <1>1. /\ CallOK' /\ LocalsOK'
        /\ stage' \in {"idle", "ask"}
        /\ head' = NoAnswer /\ UNCHANGED <<up, sure>>
    BY ResumeCall DEF TypeInv
  <1>2. /\ overread' \in BOOLEAN /\ sound' \in BOOLEAN /\ up' = TRUE
        /\ overread' => stage' = "ask"
    BY ResumeFlags DEF TypeInv
  <1>3. HeadOK'
    BY <1>1 DEF HeadOK
  <1>4. FlagsOK'
    BY <1>1, <1>2 DEF TypeInv, FlagsOK
  <1> QED BY <1>1, <1>3, <1>4 DEF TypeInv

-----------------------------------------------------------------------------
(* What is sent and received.                                              *)

LEMMA FaultType ==
    ASSUME faults \in 0..MaxFaults, lossless \in BOOLEAN, NEW f, Fault(f) \/ NoFault
    PROVE faults' \in 0..MaxFaults /\ lossless' \in BOOLEAN
  <1>1. faults' \in 0..MaxFaults
    <2>1. faults' = faults \/ (faults < MaxFaults /\ faults' = faults + 1)
      BY DEF Fault, NoFault
    <2> QED BY <2>1, AfcAssumption
  <1>2. lossless' \in BOOLEAN
    BY DEF Fault, NoFault
  <1> QED BY <1>1, <1>2

LEMMA TakeType ==
    ASSUME TypeInv, Take
    PROVE /\ NextFrame \in Frames
          /\ PipeOK' /\ PhoneOK'
          /\ faults' \in 0..MaxFaults /\ lossless' \in BOOLEAN
  <1> USE DEF TypeInv, PipeOK
  <1>1. NextFrame \in Frames /\ wire' \in Seq(Frames)
    BY HeadTailProperties DEF Take, NextFrame
  <1>2. UNCHANGED <<afcRequests, more, ldAnswers, files, handles, faults, lossless>>
    BY DEF Take, phone, NoFault
  <1> QED BY <1>1, <1>2 DEF PhoneOK, FlagsOK

LEMMA NoFrameType ==
    ASSUME TypeInv, NoFrame
    PROVE /\ PipeOK' /\ PhoneOK'
          /\ faults' \in 0..MaxFaults /\ lossless' \in BOOLEAN
  <1> USE DEF TypeInv, PipeOK
  <1>1. wire' \in Seq(Frames)
    <2>1. CASE wire' = wire
      BY <2>1
    <2>2. CASE \E n \in 1..Len(wire) : wire' = SubSeq(wire, n + 1, Len(wire))
      BY <2>2, SubSeqProperties
    <2> QED BY <2>1, <2>2 DEF NoFrame
  <1>2. UNCHANGED <<afcRequests, more, ldAnswers, files, handles>>
    BY DEF NoFrame, phone
  <1>3. faults' \in 0..MaxFaults /\ lossless' \in BOOLEAN
    BY FaultType DEF NoFrame, FlagsOK
  <1> QED BY <1>1, <1>2, <1>3 DEF PhoneOK

LEMMA RequestType ==
    ASSUME CallOK, LocalsOK, call.op \in FileOps, ~TooLong
    PROVE Request \in Requests
  <1> USE DEF CallOK, LocalsOK, FileOps
  <1>1. CASE at = "open"
    BY <1>1, CallShape DEF Request, Requests, TooLong
  <1>2. CASE at = "data" /\ call.op = "read"
    BY <1>2 DEF Request, Requests
  <1>3. CASE at = "data" /\ call.op = "write"
    <2>1. Block(call.value, Len(blocks) + 1) \in BlockType
      BY <1>3, CallShape DEF Block, BlockType
    <2>2. Request = [type |-> "FileWrite", handle |-> handle,
                     block |-> Block(call.value, Len(blocks) + 1)]
      BY <1>3 DEF Request
    <2> QED BY <2>1, <2>2 DEF Requests
  <1>4. CASE at = "close"
    BY <1>4 DEF Request, Requests
  <1>5. CASE at = "only"
    <2>1. call.op \in {"rename", "make", "delete", "kind", "list"}
      BY <1>5
    <2> QED BY <1>5, <2>1, CallShape DEF Request, Requests, TooLong
  <1> QED BY <1>1, <1>2, <1>3, <1>4, <1>5

LEMMA PollType ==
    ASSUME TypeInv, call.op \in Polls, stage \in {"query", "length", "text", "drain"},
           PipeOK', PhoneOK', faults' \in 0..MaxFaults, lossless' \in BOOLEAN,
           \/ \E ok \in BOOLEAN : PollEnds(ok)
           \/ \E next \in {"length", "text", "drain"} : PollAwaits(next)
    PROVE TypeInv'
  <1>1. LocalsOK' /\ overread' = overread /\ sure' = sure /\ head' = head /\ at' = at
    BY DEF PollEnds, PollAwaits, locals, ops, TypeInv, LocalsOK
  <1>2. HeadOK' /\ CallOK'
    BY <1>1, NoCallOp DEF PollEnds, PollAwaits, TypeInv, HeadOK, CallOK, ops, Polls, FileOps
  <1>3. FlagsOK'
    <2>1. CASE \E ok \in BOOLEAN : PollEnds(ok)
      BY <1>1, <2>1 DEF PollEnds, TypeInv, FlagsOK
    <2>2. CASE \E next \in {"length", "text", "drain"} : PollAwaits(next)
      BY <1>1, <2>2 DEF PollAwaits, TypeInv, FlagsOK
    <2> QED BY <2>1, <2>2
  <1> QED BY <1>1, <1>2, <1>3 DEF TypeInv

\* A stage is a call of one kind.
LEMMA StageCall ==
    ASSUME TypeInv
    PROVE /\ stage \in {"ask", "head", "mixed", "body"} => call.op \in FileOps
          /\ stage \in {"query", "length", "text", "drain"} => call.op \in Polls
          /\ stage # "idle" => up
  <1>1. call.op \in FileOps \cup Polls \cup {"none"}
    BY CallShape DEF TypeInv, CallOK
  <1> QED BY <1>1 DEF TypeInv, CallOK, FlagsOK, FileOps, Polls

LEMMA AwaitType ==
    ASSUME TypeInv, stage \in {"ask", "head", "mixed", "body"},
           PipeOK', PhoneOK', faults' \in 0..MaxFaults, lossless' \in BOOLEAN,
           NEW next \in {"head", "mixed", "body"}, Await(next), HeadOK'
    PROVE TypeInv'
  <1>1. LocalsOK' /\ overread' = overread /\ sure' = sure /\ call' = call /\ at' = at
        /\ stage' = next /\ up' = up /\ sound' = sound
    BY DEF Await, locals, ops, TypeInv, LocalsOK
  <1>2. CallOK'
    BY <1>1, StageCall DEF TypeInv, CallOK, FileOps
  <1>3. FlagsOK'
    BY <1>1, StageCall DEF TypeInv, FlagsOK
  <1> QED BY <1>1, <1>2, <1>3 DEF TypeInv

-----------------------------------------------------------------------------
(* The steps of the program.                                               *)

LEMMA BeginType == ASSUME TypeInv, BeginCall PROVE TypeInv'
  <1>1. PICK c \in FileCalls : Begin(c)
    BY DEF BeginCall, FileCalls
  <1>2. c.op \in FileOps
    BY DEF FileCalls, FileOps
  <1>3. /\ stage = "idle" /\ up /\ stage' = "ask" /\ call' = c
        /\ at' = IF c.op \in {"read", "write"} THEN "open" ELSE "only"
        /\ sure' = sound
        /\ UNCHANGED <<head, handle, blocks, overread, up, afcRequests, more, ldAnswers,
                       wire, files, handles, sound, lossless, faults>>
    BY <1>1 DEF Begin, Ready, pipe, phone
  <1>4. CallOK'
    BY <1>2, <1>3 DEF CallOK, FileOps
  <1>5. HeadOK' /\ LocalsOK' /\ PipeOK' /\ PhoneOK'
    BY <1>3 DEF TypeInv, HeadOK, LocalsOK, PipeOK, PhoneOK
  <1>6. FlagsOK'
    BY <1>3 DEF TypeInv, FlagsOK
  <1> QED BY <1>3, <1>4, <1>5, <1>6 DEF TypeInv

LEMMA PathTooLongType == ASSUME TypeInv, PathTooLong PROVE TypeInv'
  <1>1. /\ stage = "ask" /\ stage' = "idle" /\ call' = NoCall /\ at' = "only"
        /\ handle' = 0 /\ blocks' = <<>> /\ overread' = FALSE
        /\ UNCHANGED <<sure, head, up, afcRequests, more, ldAnswers, wire, files, handles,
                       sound, lossless, faults>>
    BY DEF PathTooLong, Leave, pipe, phone
  <1>2. CallOK'
    BY <1>1, NoCallOp DEF CallOK, FileOps
  <1>3. LocalsOK'
    BY <1>1, AfcAssumption DEF LocalsOK
  <1>4. HeadOK' /\ PipeOK' /\ PhoneOK'
    BY <1>1 DEF TypeInv, HeadOK, PipeOK, PhoneOK
  <1>5. FlagsOK'
    BY <1>1 DEF TypeInv, FlagsOK
  <1> QED BY <1>1, <1>2, <1>3, <1>4, <1>5 DEF TypeInv

LEMMA AskType == ASSUME TypeInv, Ask PROVE TypeInv'
  <1>1. call.op \in FileOps
    BY StageCall DEF Ask
  <1>2. afcRequests' \in Seq(Requests)
    BY <1>1, RequestType, AppendProperties DEF TypeInv, PipeOK, Ask
  <1>3. /\ stage = "ask" /\ stage' = "head"
        /\ UNCHANGED <<call, at, sure, head, handle, blocks, overread, up, more,
                       ldAnswers, wire, files, handles, sound, lossless, faults>>
    BY DEF Ask, ops, locals, phone, NoFault
  <1>4. CallOK' /\ HeadOK' /\ LocalsOK' /\ PipeOK' /\ PhoneOK'
    BY <1>1, <1>2, <1>3 DEF TypeInv, CallOK, HeadOK, LocalsOK, PipeOK, PhoneOK
  <1>5. FlagsOK'
    BY <1>3 DEF TypeInv, FlagsOK
  <1> QED BY <1>3, <1>4, <1>5 DEF TypeInv

LEMMA AskFailsType == ASSUME TypeInv, AskFails PROVE TypeInv'
  <1>1. call.op \in FileOps
    BY StageCall DEF AskFails
  <1>2. faults' \in 0..MaxFaults /\ lossless' \in BOOLEAN
    BY FaultType DEF AskFails, TypeInv, FlagsOK
  <1>3. PipeOK' /\ PhoneOK'
    BY DEF AskFails, pipe, phone, TypeInv, PipeOK, PhoneOK
  <1> QED BY <1>1, <1>2, <1>3, ResumeType DEF AskFails

LEMMA AnsweredShape ==
    ASSUME NEW a \in Answers, Answered(a)
    PROVE \E b \in Answers \cup {NoAnswer} : Resume(b)
  BY DEF Answered

LEMMA ReceiveHeadType == ASSUME TypeInv, ReceiveHead PROVE TypeInv'
  <1>1. /\ stage = "head" /\ call.op \in FileOps
        /\ NextFrame \in Frames /\ PipeOK' /\ PhoneOK'
        /\ faults' \in 0..MaxFaults /\ lossless' \in BOOLEAN
    BY TakeType, StageCall DEF ReceiveHead
  <1>2. NextFrame.type = "head" => NextFrame \in Headers
    BY <1>1, FrameShape
  <1>3. CASE \E a \in Answers \cup {NoAnswer} : Resume(a)
    BY <1>1, <1>3, ResumeType
  <1>4. CASE NextFrame.type = "head" /\ NextFrame.rest > 0 /\ Await("body") /\ head' = NextFrame
    <2>1. HeadOK'
      BY <1>2, <1>4 DEF HeadOK, Await
    <2> QED BY <1>1, <1>4, <2>1, AwaitType
  <1>5. CASE Await("mixed") /\ UNCHANGED head
    <2>1. HeadOK'
      BY <1>1, <1>5 DEF HeadOK, Await, TypeInv
    <2> QED BY <1>1, <1>5, <2>1, AwaitType
  <1>6. CASE NextFrame.type = "head" /\ Answered(NextFrame.answer)
    <2>1. NextFrame.answer \in Answers
      BY <1>2, <1>6 DEF Headers
    <2> QED BY <1>3, <1>6, <2>1, AnsweredShape
  <1> QED BY <1>3, <1>4, <1>5, <1>6 DEF ReceiveHead

LEMMA ReceiveMixedType == ASSUME TypeInv, ReceiveMixed PROVE TypeInv'
  <1>1. /\ stage = "mixed" /\ call.op \in FileOps
        /\ PipeOK' /\ PhoneOK'
        /\ faults' \in 0..MaxFaults /\ lossless' \in BOOLEAN
    BY TakeType, StageCall DEF ReceiveMixed
  <1>2. CASE Resume(NoAnswer)
    BY <1>1, <1>2, ResumeType
  <1>3. CASE Await("mixed") /\ UNCHANGED head
    <2>1. HeadOK'
      BY <1>1, <1>3 DEF HeadOK, Await, TypeInv
    <2> QED BY <1>1, <1>3, <2>1, AwaitType
  <1> QED BY <1>2, <1>3 DEF ReceiveMixed

LEMMA ReceiveBodyType == ASSUME TypeInv, ReceiveBody PROVE TypeInv'
  <1>1. /\ stage = "body" /\ call.op \in FileOps
        /\ PipeOK' /\ PhoneOK'
        /\ faults' \in 0..MaxFaults /\ lossless' \in BOOLEAN
    BY TakeType, StageCall DEF ReceiveBody
  <1>2. head \in Headers /\ head.rest > 0 /\ head.answer \in Answers
    BY <1>1 DEF TypeInv, HeadOK, Headers
  <1>3. CASE \E a \in Answers : Answered(a)
    BY <1>1, <1>3, AnsweredShape, ResumeType
  <1>4. CASE head.rest > 1 /\ Await("body") /\ head' = [head EXCEPT !.rest = @ - 1]
    <2>1. head' \in Headers /\ head'.rest > 0
      BY <1>2, <1>4, AfcAssumption DEF Headers
    <2> QED BY <1>1, <1>4, <2>1, AwaitType DEF HeadOK, Await
  <1>5. CASE Await("body") /\ UNCHANGED head
    <2>1. HeadOK'
      BY <1>2, <1>5 DEF HeadOK, Await
    <2> QED BY <1>1, <1>5, <2>1, AwaitType
  <1> QED BY <1>2, <1>3, <1>4, <1>5, AnswerKinds DEF ReceiveBody

LEMMA ReceiveFailsType == ASSUME TypeInv, ReceiveFails PROVE TypeInv'
  <1>1. call.op \in FileOps
    BY StageCall DEF ReceiveFails
  <1> QED BY <1>1, NoFrameType, ResumeType DEF ReceiveFails

LEMMA BeginPollType == ASSUME TypeInv, BeginPoll PROVE TypeInv'
  <1>1. /\ stage = "idle" /\ up /\ stage' = "query" /\ \E o \in Polls : call' = [op |-> o]
        /\ UNCHANGED <<at, sure, head, handle, blocks, overread, up, afcRequests, more,
                       ldAnswers, wire, files, handles, sound, lossless, faults>>
    BY DEF BeginPoll, Ready, pipe, phone
  <1>2. CallOK'
    <2>1. call' \in [op : Polls] /\ call'.op \in Polls
      BY <1>1
    <2>2. at = "only"
      BY <1>1 DEF TypeInv, CallOK
    <2> QED BY <1>1, <2>1, <2>2 DEF CallOK, FileOps, Polls
  <1>3. HeadOK' /\ LocalsOK' /\ PipeOK' /\ PhoneOK'
    BY <1>1 DEF TypeInv, HeadOK, LocalsOK, PipeOK, PhoneOK
  <1>4. FlagsOK'
    BY <1>1 DEF TypeInv, FlagsOK
  <1> QED BY <1>1, <1>2, <1>3, <1>4 DEF TypeInv

LEMMA QueryType == ASSUME TypeInv, Query \/ QueryFails PROVE TypeInv'
  <1>1. stage = "query" /\ call.op \in Polls
    BY StageCall DEF Query, QueryFails
  <1>2. faults' \in 0..MaxFaults /\ lossless' \in BOOLEAN
    BY FaultType DEF Query, QueryFails, TypeInv, FlagsOK
  <1>3. CASE Query
    <2>1. <<Length, Text(call.op)>> \in Seq({Length} \cup Texts)
      BY <1>1 DEF Text, Texts
    <2>2. ldAnswers' \in Seq({Length} \cup Texts)
      BY <1>3, <2>1, ConcatProperties DEF Query, TypeInv, PipeOK
    <2>3. PipeOK' /\ PhoneOK'
      BY <1>3, <2>2 DEF Query, phone, TypeInv, PipeOK, PhoneOK
    <2> QED BY <1>1, <1>2, <1>3, <2>3, PollType DEF Query
  <1>4. CASE QueryFails
    <2>1. PipeOK' /\ PhoneOK'
      BY <1>4 DEF QueryFails, pipe, phone, TypeInv, PipeOK, PhoneOK
    <2> QED BY <1>1, <1>2, <1>4, <2>1, PollType DEF QueryFails
  <1> QED BY <1>3, <1>4

LEMMA PollStepType ==
    ASSUME TypeInv, PollLength \/ PollText \/ PollDrain \/ PollFails
    PROVE TypeInv'
  <1>1. stage \in {"length", "text", "drain"} /\ call.op \in Polls
    BY StageCall DEF PollLength, PollText, PollDrain, PollFails
  <1>2. /\ PipeOK' /\ PhoneOK'
        /\ faults' \in 0..MaxFaults /\ lossless' \in BOOLEAN
    BY TakeType, NoFrameType DEF PollLength, PollText, PollDrain, PollFails
  <1>3. \/ \E ok \in BOOLEAN : PollEnds(ok)
        \/ \E next \in {"length", "text", "drain"} : PollAwaits(next)
    BY DEF PollLength, PollText, PollDrain, PollFails
  <1> QED BY <1>1, <1>2, <1>3, PollType

LEMMA ReconnectType == ASSUME TypeInv, Reconnect PROVE TypeInv'
  <1>1. /\ up' = TRUE /\ sound' = TRUE /\ lossless' = TRUE
        /\ wire' = <<>> /\ handles' = <<>>
        /\ UNCHANGED <<call, at, sure, stage, head, handle, blocks, overread, afcRequests,
                       more, ldAnswers, files, faults>>
    BY DEF Reconnect, ops, locals
  <1>2. PhoneOK'
    BY <1>1 DEF TypeInv, PhoneOK
  <1>3. CallOK' /\ HeadOK' /\ LocalsOK' /\ PipeOK'
    BY <1>1 DEF TypeInv, CallOK, HeadOK, LocalsOK, PipeOK
  <1>4. FlagsOK'
    BY <1>1 DEF TypeInv, FlagsOK
  <1> QED BY <1>1, <1>2, <1>3, <1>4 DEF TypeInv

-----------------------------------------------------------------------------
(* The steps of the phone.                                                 *)

\* What the program knows is left alone.
LEMMA PhoneStepType ==
    ASSUME TypeInv, UNCHANGED <<ops, stage, head, locals, up, sound>>,
           PipeOK', PhoneOK', faults' \in 0..MaxFaults, lossless' \in BOOLEAN
    PROVE TypeInv'
  <1>1. UNCHANGED <<call, at, sure, stage, head, handle, blocks, overread, up, sound>>
    BY DEF ops, locals
  <1>2. CallOK' /\ HeadOK' /\ LocalsOK'
    BY <1>1 DEF TypeInv, CallOK, HeadOK, LocalsOK
  <1>3. FlagsOK'
    BY <1>1 DEF TypeInv, FlagsOK
  <1> QED BY <1>2, <1>3 DEF TypeInv

LEMMA ReplyType ==
    ASSUME TypeInv, afcRequests # <<>>, UNCHANGED ldAnswers,
           NEW a \in Answers, NEW rest \in 0..MaxRest, NEW big \in BOOLEAN,
           Reply(a, rest, big)
    PROVE PipeOK'
  <1>1. Header(a, rest, big) \in Frames
    BY DEF Header, Headers, Frames
  <1>2. wire' \in Seq(Frames)
    BY <1>1, AppendProperties DEF Reply, TypeInv, PipeOK
  <1>3. afcRequests' \in Seq(Requests)
    BY HeadTailProperties DEF Reply, TypeInv, PipeOK
  <1> QED BY <1>2, <1>3 DEF Reply, TypeInv, PipeOK

LEMMA ShortReplyType ==
    ASSUME TypeInv, afcRequests # <<>>, UNCHANGED ldAnswers,
           NEW a \in Answers, Reply(a, 0, FALSE)
    PROVE PipeOK'
  <1>1. 0 \in 0..MaxRest /\ FALSE \in BOOLEAN
    BY AfcAssumption
  <1> QED BY <1>1, ReplyType

\* What a request carries.
LEMMA AskedShape ==
    ASSUME TypeInv, afcRequests # <<>>
    PROVE /\ Asked \in Requests
          /\ Asked.type \in {"FileOpen", "MakeDirectory", "RemovePath", "GetFileInfo",
                            "RenamePath"} => Asked.path \in Paths
          /\ Asked.type = "RenamePath" => Asked.to \in Paths
          /\ Asked.type = "FileWrite" => Asked.block \in BlockType
  <1>1. Asked \in Requests
    BY DEF TypeInv, PipeOK, Asked
  <1> QED BY <1>1 DEF Requests

LEMMA OpenedShape ==
    ASSUME PhoneOK, Asked.handle \in DOMAIN handles
    PROVE /\ Opened.path \in Paths /\ Opened.position \in Nat
          /\ Opened = [path |-> Opened.path, position |-> Opened.position]
          /\ files[Opened.path] \in Entry
  BY DEF PhoneOK, Opened, Position

LEMMA ExtendedType ==
    ASSUME NEW bs \in Seq(BlockType), NEW b \in BlockType
    PROVE Extended(bs, b) \in Seq(BlockType)
  <1>1. Append(bs, b) \in Seq(BlockType) /\ <<Junk>> \in Seq(BlockType)
    BY JunkOK, AppendProperties
  <1> QED BY <1>1 DEF Extended

LEMMA OpenType ==
    ASSUME TypeInv, afcRequests # <<>>, UNCHANGED ldAnswers, ServeOpen
    PROVE PipeOK' /\ PhoneOK'
  <1>1. PICK h \in 1..MaxHandles :
          /\ handles' = [g \in DOMAIN handles \cup {h} |->
                            IF g = h THEN [path |-> Asked.path, position |-> 0]
                            ELSE handles[g]]
          /\ Reply(AHandle(h), 0, FALSE)
    BY DEF ServeOpen
  <1>2. Asked.path \in Paths
    BY AskedShape DEF ServeOpen
  <1>3. PipeOK'
    <2>1. AHandle(h) \in Answers /\ 0 \in 0..MaxRest
      BY AfcAssumption DEF AHandle, Answers
    <2> QED BY <1>1, <2>1, ReplyType
  <1>4. handles' \in [DOMAIN handles \cup {h} -> Position]
    BY <1>1, <1>2 DEF TypeInv, PhoneOK, Position
  <1>5. files' \in [Paths -> Entry]
    <2>1. AFile(<<>>) \in Entry
      BY DEF AFile, Entry
    <2> QED BY <1>2, <2>1 DEF ServeOpen, TypeInv, PhoneOK
  <1> QED BY <1>3, <1>4, <1>5 DEF TypeInv, PhoneOK

LEMMA ReadType ==
    ASSUME TypeInv, afcRequests # <<>>, UNCHANGED ldAnswers, ServeRead
    PROVE PipeOK' /\ PhoneOK'
  <1> DEFINE bs == files[Opened.path].blocks
             n == Opened.position + 1
  <1>1. /\ Opened.path \in Paths /\ n \in Nat \ {0} /\ bs \in Seq(BlockType)
        /\ Opened = [path |-> Opened.path, position |-> Opened.position]
        /\ Asked.handle \in DOMAIN handles /\ UNCHANGED files
    BY OpenedShape DEF ServeRead, TypeInv, Entry
  <1>2. CASE n <= Len(bs) /\ (\E rest \in 0..MaxRest : Reply(ABlock(bs[n]), rest, FALSE))
             /\ handles' = [handles EXCEPT ![Asked.handle].position = n]
    <2>1. ABlock(bs[n]) \in Answers
      <3>1. bs[n] \in BlockType
        BY <1>1, <1>2
      <3> QED BY <3>1 DEF ABlock, Answers, BlockType
    <2>2. PipeOK'
      BY <1>2, <2>1, ReplyType
    <2>3. handles' = [handles EXCEPT ![Asked.handle] = [path |-> Opened.path, position |-> n]]
      <3>1. [handles[Asked.handle] EXCEPT !.position = n]
              = [path |-> Opened.path, position |-> n]
        BY <1>1 DEF Opened
      <3> QED BY <1>2, <3>1
    <2>4. handles' \in [DOMAIN handles -> Position] /\ DOMAIN handles' = DOMAIN handles
      BY <1>1, <2>3 DEF TypeInv, PhoneOK, Position
    <2> QED BY <1>1, <2>2, <2>4 DEF TypeInv, PhoneOK
  <1>3. CASE Reply(Empty, 0, FALSE) /\ UNCHANGED handles
    <2>1. PipeOK'
      BY <1>3, AnswerKinds, ShortReplyType
    <2> QED BY <1>1, <1>3, <2>1 DEF TypeInv, PhoneOK
  <1> QED BY <1>2, <1>3 DEF ServeRead

LEMMA WriteType ==
    ASSUME TypeInv, afcRequests # <<>>, UNCHANGED ldAnswers, ServeWrite
    PROVE PipeOK' /\ PhoneOK'
  <1>1. /\ Opened.path \in Paths /\ files[Opened.path] \in Entry
        /\ Asked.block \in BlockType
    BY OpenedShape, AskedShape DEF ServeWrite, TypeInv
  <1>2. PipeOK'
    BY AnswerKinds, ShortReplyType DEF ServeWrite
  <1>3. files' \in [Paths -> Entry]
    <2>1. CASE files' = files
      BY <2>1 DEF TypeInv, PhoneOK
    <2>2. CASE files' = [files EXCEPT ![Opened.path].blocks = Extended(@, Asked.block)]
      <3>1. Extended(files[Opened.path].blocks, Asked.block) \in Seq(BlockType)
        BY <1>1, ExtendedType DEF Entry
      <3>2. [files[Opened.path] EXCEPT !.blocks = Extended(@, Asked.block)] \in Entry
        BY <1>1, <3>1 DEF Entry
      <3> QED BY <1>1, <2>2, <3>2 DEF TypeInv, PhoneOK
    <2> QED BY <2>1, <2>2 DEF ServeWrite
  <1> QED BY <1>2, <1>3 DEF ServeWrite, TypeInv, PhoneOK

LEMMA CloseType ==
    ASSUME TypeInv, afcRequests # <<>>, UNCHANGED ldAnswers, ServeClose
    PROVE PipeOK' /\ PhoneOK'
  <1>1. PipeOK'
    BY AnswerKinds, ShortReplyType DEF ServeClose
  <1> QED BY <1>1 DEF ServeClose, TypeInv, PhoneOK

LEMMA ChangeType ==
    ASSUME TypeInv, afcRequests # <<>>, UNCHANGED ldAnswers, ServeChange
    PROVE PipeOK' /\ PhoneOK'
  <1>1. PipeOK'
    BY AnswerKinds, ShortReplyType DEF ServeChange
  <1>2. Nothing \in Entry /\ AFolder \in Entry
    BY DEF Nothing, AFolder, Entry
  <1>3. files' \in [Paths -> Entry]
    BY <1>2, AskedShape DEF ServeChange, TypeInv, PhoneOK
  <1> QED BY <1>1, <1>3 DEF ServeChange, TypeInv, PhoneOK

LEMMA ServeType == ASSUME TypeInv, ServeAfc PROVE TypeInv'
  <1>1. afcRequests # <<>> /\ UNCHANGED ldAnswers /\ UNCHANGED <<ops, stage, head, locals, up, sound>>
    BY DEF ServeAfc
  <1>2. faults' \in 0..MaxFaults /\ lossless' \in BOOLEAN
    BY FaultType DEF ServeAfc, ServeList, TypeInv, FlagsOK
  <1>3. CASE ServeOpen \/ ServeRead \/ ServeWrite \/ ServeClose \/ ServeChange
    BY <1>1, <1>2, <1>3, OpenType, ReadType, WriteType, CloseType, ChangeType, PhoneStepType
  <1>4. CASE ServeList
    <2>1. Listing(Present) \in Answers
      BY DEF Listing, Present, Answers
    <2>2. PipeOK'
      BY <1>1, <1>4, <2>1, ReplyType DEF ServeList
    <2>3. PhoneOK'
      BY <1>4 DEF ServeList, phone, TypeInv, PhoneOK
    <2> QED BY <1>1, <1>2, <2>2, <2>3, PhoneStepType
  <1>5. CASE ServeInfo \/ Refuse
    <2>1. Info(files[Asked.path].kind) \in Answers
      BY DEF Info, Answers
    <2>2. PipeOK'
      BY <1>1, <1>5, <2>1, AnswerKinds, ShortReplyType DEF ServeInfo, Refuse
    <2>3. PhoneOK'
      BY <1>5 DEF ServeInfo, Refuse, phone, TypeInv, PhoneOK
    <2> QED BY <1>1, <1>2, <2>2, <2>3, PhoneStepType
  <1> QED BY <1>3, <1>4, <1>5 DEF ServeAfc

LEMMA SendType == ASSUME TypeInv, SendRest \/ ServeLockdown PROVE TypeInv'
  <1>1. /\ UNCHANGED <<ops, stage, head, locals, up, sound>>
        /\ UNCHANGED <<afcRequests, files, handles, faults, lossless>>
    BY DEF SendRest, ServeLockdown, phone, NoFault
  <1>2. PhoneOK' /\ faults' \in 0..MaxFaults /\ lossless' \in BOOLEAN
    BY <1>1 DEF TypeInv, PhoneOK, FlagsOK
  <1>3. PipeOK'
    <2>1. CASE SendRest
      <3>1. wire' \in Seq(Frames)
        BY <2>1, AppendProperties DEF SendRest, TypeInv, PipeOK, Frames
      <3>2. more' \in 0..MaxRest
        BY <2>1, AfcAssumption DEF SendRest, TypeInv, PipeOK
      <3> QED BY <1>1, <2>1, <3>1, <3>2 DEF SendRest, TypeInv, PipeOK
    <2>2. CASE ServeLockdown
      <3>1. Head(ldAnswers) \in Frames /\ ldAnswers' \in Seq({Length} \cup Texts)
        BY <2>2, HeadTailProperties DEF ServeLockdown, TypeInv, PipeOK, Frames, Texts
      <3>2. wire' \in Seq(Frames)
        BY <2>2, <3>1, AppendProperties DEF ServeLockdown, TypeInv, PipeOK
      <3> QED BY <1>1, <2>2, <3>1, <3>2 DEF ServeLockdown, TypeInv, PipeOK
    <2> QED BY <2>1, <2>2
  <1> QED BY <1>1, <1>2, <1>3, PhoneStepType

-----------------------------------------------------------------------------
LEMMA InitType == Init => TypeInv
  <1> SUFFICES ASSUME Init PROVE TypeInv
    OBVIOUS
  <1> USE DEF Init
  <1>1. CallOK
    BY NoCallOp DEF CallOK, FileOps
  <1>2. HeadOK /\ LocalsOK /\ PipeOK
    BY AfcAssumption DEF HeadOK, LocalsOK, PipeOK
  <1>3. PhoneOK
    BY DEF PhoneOK, Entry, Nothing
  <1>4. FlagsOK
    BY DEF FlagsOK
  <1>5. faults \in 0..MaxFaults
    BY AfcAssumption
  <1> QED BY <1>1, <1>2, <1>3, <1>4, <1>5 DEF TypeInv

LEMMA NextType == TypeInv /\ [Next]_vars => TypeInv'
  <1> SUFFICES ASSUME TypeInv, [Next]_vars PROVE TypeInv'
    OBVIOUS
  <1>1. CASE BeginCall \/ BeginPoll \/ Reconnect
    BY <1>1, BeginType, BeginPollType, ReconnectType
  <1>2. CASE HostStep
    BY <1>2, PathTooLongType, AskType, AskFailsType, ReceiveHeadType, ReceiveMixedType,
       ReceiveBodyType, ReceiveFailsType, QueryType, PollStepType DEF HostStep
  <1>3. CASE ServeAfc \/ SendRest \/ ServeLockdown
    BY <1>3, ServeType, SendType
  <1>4. CASE UNCHANGED vars
    BY <1>4 DEF vars, ops, locals, pipe, phone, TypeInv, CallOK, HeadOK, LocalsOK, PipeOK,
       PhoneOK, FlagsOK
  <1> QED BY <1>1, <1>2, <1>3, <1>4 DEF Next

\* The variables keep their types, and each stage of Dispatch and Exchange has
\* the variables it uses: a response header while its body is received, a call
\* while one is under way, sessions whenever anything is.
THEOREM AfcTypeCorrect == Spec => []TypeOK
  <1>1. TypeInv => TypeOK
    <2> SUFFICES ASSUME TypeInv PROVE TypeOK
      OBVIOUS
    <2>1. call \in FileCalls <=> call.op \in FileOps
      BY CallShape DEF TypeInv, CallOK
    <2>2. call = NoCall <=> call.op = "none"
      BY CallShape DEF TypeInv, CallOK
    <2>3. at # "only" => call.op \in {"read", "write"}
      BY DEF TypeInv, CallOK
    <2>4. files \in [Paths -> [kind : {"none", "folder", "file"},
                             blocks : Seq([value : Values, index : Nat])]]
      BY DEF TypeInv, PhoneOK, Entry, BlockType
    <2>5. handle \in 0..MaxHandles /\ blocks \in Seq([value : Values, index : Nat])
      BY DEF TypeInv, LocalsOK, BlockType
    <2>6. /\ wire \in Seq(Frames) /\ more \in 0..MaxRest
          /\ ldAnswers \in Seq({Length} \cup [type : {"text"}, about : Polls])
      BY DEF TypeInv, PipeOK, Texts
    <2>7. /\ sure \in BOOLEAN /\ overread \in BOOLEAN /\ up \in BOOLEAN
          /\ sound \in BOOLEAN /\ lossless \in BOOLEAN
          /\ ~up => stage = "idle"
      BY DEF TypeInv, FlagsOK
    <2> QED BY <2>1, <2>2, <2>3, <2>4, <2>5, <2>6, <2>7
            DEF TypeOK, TypeInv, CallOK, HeadOK, PhoneOK
  <1> QED BY <1>1, InitType, NextType, PTL DEF Spec

-----------------------------------------------------------------------------
(* In step: until an exchange fails with something in flight, what is in   *)
(* flight at each stage is exactly what is missing of its own answer.      *)

Rests(i) == \A j \in i..Len(wire) : wire[j] = Rest

\* a FileOpen is answered with a handle, or refused
Fits(a) == at = "open" => a.kind \in {"handle", "error"}

Waiting ==
    /\ Len(afcRequests) = 1 /\ wire = <<>> /\ more = 0
    /\ at = "open" => Asked.type = "FileOpen"

Answering ==
    /\ afcRequests = <<>> /\ wire # <<>>
    /\ wire[1].type = "head" /\ wire[1].rest = more + Len(wire) - 1
    /\ Fits(wire[1].answer)
    /\ Rests(2)

Finishing ==
    /\ afcRequests = <<>>
    /\ head.rest = more + Len(wire)
    /\ Fits(head.answer)
    /\ Rests(1)

Measuring ==
    /\ afcRequests = <<>> /\ more = 0
    /\ \/ wire = <<>> /\ ldAnswers = <<Length, Text(call.op)>>
       \/ wire = <<Length>> /\ ldAnswers = <<Text(call.op)>>
       \/ wire = <<Length, Text(call.op)>> /\ ldAnswers = <<>>

Reading ==
    /\ afcRequests = <<>> /\ more = 0
    /\ \/ wire = <<>> /\ ldAnswers = <<Text(call.op)>>
       \/ wire = <<Text(call.op)>> /\ ldAnswers = <<>>

OwnAnswer ==
    /\ stage \in {"idle", "ask", "query"} => Quiet
    /\ stage = "head" => ldAnswers = <<>> /\ (Waiting \/ Answering)
    /\ stage = "body" => ldAnswers = <<>> /\ Finishing
    /\ stage = "length" => Measuring
    /\ stage = "text" => Reading
    /\ stage \notin {"mixed", "drain"}
    /\ ~overread

StepInv == sound => OwnAnswer

LEMMA ResumeReads ==
    ASSUME CallOK, call.op \in FileOps, ~overread,
           NEW a \in Answers \cup {NoAnswer}, Resume(a),
           at = "open" => a = NoAnswer \/ a.kind = "handle"
    PROVE ~overread'
  <1> USE DEF CallOK, FileOps, Leave, Go
  <1>1. CASE at = "open"
    <2>1. OpenAnswered(a)
      BY <1>1 DEF Resume
    <2>2. a.kind = "handle" => ~TooShort(a)
      BY DEF TooShort, Empty, Listing
    <2> QED BY <1>1, <2>1, <2>2 DEF OpenAnswered
  <1>2. CASE at = "data" /\ call.op = "write"
    <2>1. WriteAnswered(a)
      BY <1>2 DEF Resume
    <2> QED BY <2>1 DEF WriteAnswered
  <1>3. CASE at = "data" /\ call.op = "read"
    <2>1. ReadAnswered(a)
      BY <1>3 DEF Resume
    <2> QED BY <2>1 DEF ReadAnswered
  <1>4. CASE at \in {"close", "only"}
    BY <1>4 DEF Resume
  <1> QED BY <1>1, <1>2, <1>3, <1>4

\* An exchange ends: with its whole answer, or the session is out of step.
LEMMA ResumeStep ==
    ASSUME TypeInv, StepInv, call.op \in FileOps,
           NEW a \in Answers \cup {NoAnswer}, Resume(a),
           sound => /\ a = NoAnswer \/ Quiet'
                    /\ at = "open" => a = NoAnswer \/ a.kind = "handle"
    PROVE StepInv'
  <1>1. stage' \in {"idle", "ask"}
    BY ResumeCall DEF TypeInv
  <1>2. sound' => sound /\ Quiet'
    BY DEF Resume
  <1>3. sound' => ~overread'
    BY <1>2, ResumeReads DEF TypeInv, StepInv, OwnAnswer
  <1> QED BY <1>1, <1>2, <1>3 DEF StepInv, OwnAnswer

LEMMA AnsweredStep ==
    ASSUME TypeInv, StepInv, call.op \in FileOps,
           NEW a \in Answers, Answered(a), sound => Quiet' /\ Fits(a)
    PROVE StepInv'
  <1>1. CASE a = Error
    <2>1. Resume(NoAnswer)
      BY <1>1 DEF Answered
    <2> QED BY <2>1, ResumeStep
  <1>2. CASE a # Error
    <2>1. Resume(a)
      BY <1>2 DEF Answered
    <2>2. a.kind = "error" => a = Error
      BY DEF Answers, Error, Ok, Empty
    <2> QED BY <1>2, <2>1, <2>2, ResumeStep DEF Fits
  <1> QED BY <1>1, <1>2

\* Taking a frame moves the others up.
LEMMA TakeRests ==
    ASSUME TypeInv, Take
    PROVE /\ NextFrame = wire[1]
          /\ Len(wire) \in Nat \ {0} /\ Len(wire') = Len(wire) - 1
          /\ Len(wire) = 1 => wire' = <<>>
          /\ Rests(2) => Rests(1)'
          /\ UNCHANGED <<afcRequests, more, ldAnswers>>
  <1>1. /\ wire \in Seq(Frames) /\ wire # <<>> /\ wire' = Tail(wire)
        /\ UNCHANGED <<afcRequests, more, ldAnswers>>
    BY DEF TypeInv, PipeOK, Take
  <1>2. /\ Len(wire) \in Nat \ {0} /\ Len(wire') = Len(wire) - 1
        /\ wire' \in Seq(Frames)
        /\ \A j \in 1..Len(wire') : wire'[j] = wire[j + 1]
    BY <1>1, HeadTailProperties
  <1>3. Len(wire) = 1 => wire' = <<>>
    BY <1>2, EmptySeq
  <1>4. Rests(2) => Rests(1)'
    BY <1>2 DEF Rests, Rest
  <1> QED BY <1>1, <1>2, <1>3, <1>4 DEF NextFrame

LEMMA ReceiveHeadStep == ASSUME TypeInv, StepInv, ReceiveHead PROVE StepInv'
  <1>1. stage = "head" /\ call.op \in FileOps /\ Take
    BY StageCall DEF ReceiveHead
  <1>2. /\ NextFrame = wire[1]
        /\ Len(wire) \in Nat \ {0} /\ Len(wire') = Len(wire) - 1
        /\ Len(wire) = 1 => wire' = <<>>
        /\ Rests(2) => Rests(1)'
        /\ UNCHANGED <<afcRequests, more, ldAnswers>>
    BY <1>1, TakeRests
  <1>3. NextFrame.type = "head" => NextFrame \in Headers /\ NextFrame.answer \in Answers
    BY <1>1, TakeType, FrameShape DEF Headers
  <1>4. sound => ldAnswers = <<>> /\ Answering
    BY <1>1, <1>2 DEF StepInv, OwnAnswer, Waiting, Take
  <1>5. more \in Nat
    BY AfcAssumption DEF TypeInv, PipeOK
  <1>6. CASE Resume(NoAnswer)
    BY <1>1, <1>6, ResumeStep
  <1>7. CASE /\ NextFrame.type = "head" /\ NextFrame.rest = 0
             /\ Answered(NextFrame.answer)
    <2>1. sound => Quiet'
      <3>1. sound => more = 0 /\ Len(wire) = 1
        BY <1>2, <1>4, <1>5, <1>7 DEF Answering
      <3> QED BY <1>2, <1>4, <3>1 DEF Answering, Quiet
    <2>2. sound => Fits(NextFrame.answer)
      BY <1>2, <1>4 DEF Answering
    <2> QED BY <1>1, <1>3, <1>7, <2>1, <2>2, AnsweredStep
  <1>8. CASE /\ NextFrame.type = "head" /\ NextFrame.rest > 0
             /\ Await("body") /\ head' = NextFrame
    <2>1. /\ stage' = "body" /\ sound' = sound /\ overread' = overread /\ at' = at
      BY <1>8 DEF Await, locals, ops
    <2>2. sound => head'.rest = more' + Len(wire')
      BY <1>2, <1>4, <1>5, <1>8 DEF Answering
    <2>3. sound => Finishing'
      BY <1>2, <1>4, <1>8, <2>1, <2>2 DEF Answering, Finishing, Fits
    <2> QED BY <1>2, <1>4, <2>1, <2>3 DEF StepInv, OwnAnswer
  <1>9. CASE NextFrame.type # "head" /\ Await("mixed")
    <2>1. sound' = sound /\ ~sound
      BY <1>2, <1>4, <1>9 DEF Await, Answering
    <2> QED BY <2>1 DEF StepInv
  <1> QED BY <1>1, <1>6, <1>7, <1>8, <1>9 DEF ReceiveHead

LEMMA ReceiveMixedStep == ASSUME TypeInv, StepInv, ReceiveMixed PROVE StepInv'
  <1>1. ~sound /\ (Resume(NoAnswer) \/ Await("mixed"))
    BY DEF ReceiveMixed, StepInv, OwnAnswer
  <1>2. ~sound'
    BY <1>1 DEF Resume, Await
  <1> QED BY <1>2 DEF StepInv

LEMMA ReceiveBodyStep == ASSUME TypeInv, StepInv, ReceiveBody PROVE StepInv'
  <1>1. stage = "body" /\ call.op \in FileOps /\ Take
    BY StageCall DEF ReceiveBody
  <1>2. /\ NextFrame = wire[1]
        /\ Len(wire) \in Nat \ {0} /\ Len(wire') = Len(wire) - 1
        /\ Len(wire) = 1 => wire' = <<>>
        /\ Rests(2) => Rests(1)'
        /\ UNCHANGED <<afcRequests, more, ldAnswers>>
    BY <1>1, TakeRests
  <1>3. head \in Headers /\ head.answer \in Answers /\ head.rest \in Nat
    BY <1>1, AfcAssumption DEF TypeInv, HeadOK, Headers
  <1>4. sound => ldAnswers = <<>> /\ Finishing
    BY <1>1 DEF StepInv, OwnAnswer
  <1>5. more \in Nat
    BY AfcAssumption DEF TypeInv, PipeOK
  <1>6. sound => NextFrame.type = "rest" /\ Rests(2)
    BY <1>2, <1>4 DEF Finishing, Rests, Rest
  <1>7. CASE head.rest = 1 /\ Answered(head.answer)
    <2>1. sound => more = 0 /\ Len(wire) = 1
      BY <1>2, <1>4, <1>5, <1>7 DEF Finishing
    <2>2. sound => Quiet'
      BY <1>2, <1>4, <2>1 DEF Finishing, Quiet
    <2>3. sound => Fits(head.answer)
      BY <1>4 DEF Finishing
    <2> QED BY <1>1, <1>3, <1>7, <2>2, <2>3, AnsweredStep
  <1>8. CASE Await("body") /\ head' = [head EXCEPT !.rest = @ - 1]
    <2>1. /\ stage' = "body" /\ sound' = sound /\ overread' = overread /\ at' = at
      BY <1>8 DEF Await, locals, ops
    <2>2. head'.rest = head.rest - 1 /\ head'.answer = head.answer
      BY <1>3, <1>8 DEF Headers
    <2>3. sound => head'.rest = more' + Len(wire')
      BY <1>2, <1>3, <1>4, <1>5, <2>2 DEF Finishing
    <2>4. sound => Finishing'
      BY <1>2, <1>4, <1>6, <2>1, <2>2, <2>3 DEF Finishing, Fits
    <2> QED BY <1>2, <1>4, <2>1, <2>4 DEF StepInv, OwnAnswer
  <1>9. CASE NextFrame.type # "rest" /\ (Answered(Ok) \/ Await("body"))
    <2>1. ~sound
      BY <1>6, <1>9
    <2>2. (\E b \in Answers \cup {NoAnswer} : Resume(b)) \/ Await("body")
      BY <1>9, AnsweredShape, AnswerKinds
    <2>3. ~sound'
      BY <2>1, <2>2 DEF Resume, Await
    <2> QED BY <2>3 DEF StepInv
  <1> QED BY <1>1, <1>7, <1>8, <1>9 DEF ReceiveBody

LEMMA ReceiveFailsStep == ASSUME TypeInv, StepInv, ReceiveFails PROVE StepInv'
  <1>1. call.op \in FileOps
    BY StageCall DEF ReceiveFails
  <1> QED BY <1>1, ResumeStep DEF ReceiveFails

LEMMA BeginStep == ASSUME TypeInv, StepInv, BeginCall \/ BeginPoll PROVE StepInv'
  <1>1. /\ stage = "idle" /\ stage' \in {"ask", "query"}
        /\ UNCHANGED <<overread, afcRequests, more, ldAnswers, wire, sound>>
    BY DEF BeginCall, BeginPoll, Begin, Ready, pipe
  <1> QED BY <1>1 DEF StepInv, OwnAnswer, Quiet

LEMMA PathTooLongStep == ASSUME TypeInv, StepInv, PathTooLong PROVE StepInv'
  <1>1. /\ stage = "ask" /\ stage' = "idle" /\ ~overread'
        /\ UNCHANGED <<afcRequests, more, ldAnswers, wire, sound>>
    BY DEF PathTooLong, Leave, pipe
  <1> QED BY <1>1 DEF StepInv, OwnAnswer, Quiet

LEMMA AskStep == ASSUME TypeInv, StepInv, Ask \/ AskFails PROVE StepInv'
  <1>1. stage = "ask" /\ call.op \in FileOps
    BY StageCall DEF Ask, AskFails
  <1>2. CASE Ask
    <2>1. /\ stage' = "head" /\ afcRequests' = Append(afcRequests, Request)
          /\ UNCHANGED <<overread, at, more, ldAnswers, wire, sound>>
      BY <1>2 DEF Ask, locals, ops
    <2>2. sound => Quiet /\ ~overread
      BY <1>1 DEF StepInv, OwnAnswer
    <2>3. sound => Len(afcRequests') = 1 /\ Asked' = Request
      BY <2>1, <2>2 DEF Quiet, Asked
    <2>4. at = "open" => Request.type = "FileOpen"
      BY <1>1 DEF Request, TypeInv, CallOK
    <2>5. sound => Waiting'
      BY <2>1, <2>2, <2>3, <2>4 DEF Waiting, Quiet
    <2> QED BY <2>1, <2>2, <2>5 DEF StepInv, OwnAnswer, Quiet
  <1>3. CASE AskFails
    BY <1>1, <1>3, ResumeStep DEF AskFails
  <1> QED BY <1>2, <1>3

LEMMA PollEndsStep ==
    ASSUME TypeInv, StepInv, NEW ok \in BOOLEAN, PollEnds(ok), sound /\ ok => Quiet'
    PROVE StepInv'
  <1>1. stage' = "idle" /\ overread' = overread
    BY DEF PollEnds, locals
  <1>2. sound' => sound /\ Quiet'
    BY DEF PollEnds
  <1> QED BY <1>1, <1>2 DEF StepInv, OwnAnswer

LEMMA QueryStep == ASSUME TypeInv, StepInv, Query \/ QueryFails PROVE StepInv'
  <1>1. CASE Query
    <2>1. /\ stage = "query" /\ stage' = "length"
          /\ ldAnswers' = ldAnswers \o <<Length, Text(call.op)>>
          /\ UNCHANGED <<overread, call, afcRequests, more, wire, sound>>
      BY <1>1 DEF Query, PollAwaits, locals, ops
    <2>2. sound => Quiet /\ ~overread
      BY <2>1 DEF StepInv, OwnAnswer
    <2>3. sound => ldAnswers' = <<Length, Text(call.op)>>
      BY <2>1, <2>2 DEF Quiet
    <2> QED BY <2>1, <2>2, <2>3 DEF StepInv, OwnAnswer, Measuring, Quiet
  <1>2. CASE QueryFails
    BY <1>2, PollEndsStep DEF QueryFails
  <1> QED BY <1>1, <1>2

\* Frames of the lockdown client's answer are told apart.
LEMMA TextShape ==
    /\ Length.type = "length"
    /\ \A o : Text(o).type = "text" /\ Text(o).about = o
  BY DEF Length, Text

LEMMA PairTail ==
    \A x, y : /\ Head(<<x, y>>) = x /\ Tail(<<x, y>>) = <<y>>
              /\ Append(<<x>>, y) = <<x, y>>
  <1> TAKE x, y
  <1>1. Head(<<x, y>>) = x /\ Tail(<<x, y>>) = <<y>>
    OBVIOUS
  <1>2. Append(<<x>>, y) = <<x, y>>
    <2>1. <<x>> \in Seq({x, y}) /\ Len(<<x>>) = 1 /\ <<x>>[1] = x
      OBVIOUS
    <2>2. /\ Append(<<x>>, y) \in Seq({x, y}) /\ Len(Append(<<x>>, y)) = 2
          /\ Append(<<x>>, y)[1] = x /\ Append(<<x>>, y)[2] = y
      BY <2>1, AppendProperties
    <2>3. /\ <<x, y>> \in Seq({x, y}) /\ Len(<<x, y>>) = 2
          /\ <<x, y>>[1] = x /\ <<x, y>>[2] = y
      OBVIOUS
    <2>4. Len(Append(<<x>>, y)) = Len(<<x, y>>)
      BY <2>2, <2>3
    <2>5. \A i \in 1..Len(Append(<<x>>, y)) : Append(<<x>>, y)[i] = <<x, y>>[i]
      <3>1. 1..Len(Append(<<x>>, y)) = {1, 2}
        BY <2>2
      <3> QED BY <2>2, <2>3, <3>1
    <2> QED BY <2>2, <2>3, <2>4, <2>5, SeqEqual
  <1> QED BY <1>1, <1>2

LEMMA PollLengthStep == ASSUME TypeInv, StepInv, PollLength PROVE StepInv'
  <1>1. /\ stage = "length" /\ wire # <<>> /\ wire' = Tail(wire)
        /\ NextFrame = Head(wire)
        /\ UNCHANGED <<afcRequests, more, ldAnswers>>
    BY DEF PollLength, Take, NextFrame
  <1>2. sound => Measuring /\ ~overread
    BY <1>1 DEF StepInv, OwnAnswer
  <1>3. sound => /\ NextFrame = Length
                 /\ \/ wire' = <<>> /\ ldAnswers = <<Text(call.op)>>
                    \/ wire' = <<Text(call.op)>> /\ ldAnswers = <<>>
    <2>1. CASE sound /\ wire = <<Length>> /\ ldAnswers = <<Text(call.op)>>
      BY <1>1, <2>1
    <2>2. CASE sound /\ wire = <<Length, Text(call.op)>> /\ ldAnswers = <<>>
      <3>1. Head(wire) = Length /\ Tail(wire) = <<Text(call.op)>>
        BY <2>2, PairTail
      <3> QED BY <1>1, <2>2, <3>1
    <2> QED BY <1>1, <1>2, <2>1, <2>2 DEF Measuring
  <1>4. CASE PollAwaits("text")
    <2>1. /\ stage' = "text"
          /\ UNCHANGED <<call, overread, sound>>
      BY <1>4 DEF PollAwaits, locals, ops
    <2>2. sound => Reading'
      BY <1>1, <1>2, <1>3, <2>1 DEF Measuring, Reading
    <2> QED BY <1>2, <2>1, <2>2 DEF StepInv, OwnAnswer
  <1>5. CASE NextFrame.type # "length" /\ PollAwaits("drain")
    <2>1. ~sound /\ sound' = sound
      BY <1>3, <1>5, TextShape DEF PollAwaits
    <2> QED BY <2>1 DEF StepInv
  <1>6. CASE PollEnds(FALSE)
    BY <1>6, PollEndsStep
  <1> QED BY <1>4, <1>5, <1>6 DEF PollLength

LEMMA PollTextStep == ASSUME TypeInv, StepInv, PollText PROVE StepInv'
  <1>1. /\ stage = "text" /\ wire # <<>> /\ wire' = Tail(wire)
        /\ NextFrame = Head(wire) /\ call.op \in Polls
        /\ UNCHANGED <<afcRequests, more, ldAnswers>>
    BY StageCall DEF PollText, Take, NextFrame
  <1>2. sound => Reading /\ ~overread
    BY <1>1 DEF StepInv, OwnAnswer
  <1>3. sound => NextFrame = Text(call.op) /\ wire' = <<>> /\ ldAnswers = <<>>
    BY <1>1, <1>2 DEF Reading
  <1>4. CASE PollEnds(NextFrame.about = call.op)
    <2>1. sound => Quiet'
      BY <1>1, <1>2, <1>3 DEF Reading, Quiet
    <2> QED BY <1>4, <2>1, PollEndsStep
  <1>5. CASE NextFrame.type # "text" /\ PollAwaits("drain")
    <2>1. ~sound /\ sound' = sound
      BY <1>3, <1>5, TextShape DEF PollAwaits
    <2> QED BY <2>1 DEF StepInv
  <1>6. CASE PollEnds(FALSE)
    BY <1>6, PollEndsStep
  <1> QED BY <1>4, <1>5, <1>6 DEF PollText

LEMMA PollRestStep == ASSUME TypeInv, StepInv, PollDrain \/ PollFails PROVE StepInv'
  <1>1. CASE PollEnds(FALSE)
    BY <1>1, PollEndsStep
  <1>2. CASE stage = "drain" /\ PollAwaits("drain")
    <2>1. ~sound /\ sound' = sound
      BY <1>2 DEF StepInv, OwnAnswer, PollAwaits
    <2> QED BY <2>1 DEF StepInv
  <1> QED BY <1>1, <1>2 DEF PollDrain, PollFails

LEMMA ReconnectStep == ASSUME TypeInv, StepInv, Reconnect PROVE StepInv'
  <1>1. stage = "idle" /\ stage' = stage /\ ~overread /\ overread' = overread
    BY DEF Reconnect, locals, TypeInv, FlagsOK
  <1>2. Quiet'
    BY DEF Reconnect, Quiet
  <1> QED BY <1>1, <1>2 DEF StepInv, OwnAnswer

-----------------------------------------------------------------------------
(* The phone's answers.                                                    *)

\* Every request is answered, and a FileOpen with a handle or an error.
LEMMA ServeReplies ==
    ASSUME TypeInv, ServeAfc
    PROVE \E a \in Answers, rest \in 0..MaxRest, big \in BOOLEAN :
            /\ Reply(a, rest, big)
            /\ Asked.type = "FileOpen" => a.kind \in {"handle", "error"}
  <1>0. 0 \in 0..MaxRest /\ Ok \in Answers /\ Empty \in Answers /\ Error \in Answers
        /\ Error.kind = "error" /\ FALSE \in BOOLEAN /\ TRUE \in BOOLEAN
    BY AfcAssumption, AnswerKinds
  <1>1. afcRequests # <<>>
    BY DEF ServeAfc
  <1>2. CASE ServeOpen
    <2>1. PICK h \in 1..MaxHandles : Reply(AHandle(h), 0, FALSE)
      BY <1>2 DEF ServeOpen
    <2>2. AHandle(h) \in Answers /\ AHandle(h).kind = "handle"
      BY DEF AHandle, Answers
    <2> QED BY <1>0, <2>1, <2>2
  <1>3. CASE ServeRead
    <2> DEFINE bs == files[Opened.path].blocks
               n == Opened.position + 1
    <2>1. Asked.type # "FileOpen"
      BY <1>3 DEF ServeRead
    <2>2. CASE n <= Len(bs) /\ (\E rest \in 0..MaxRest : Reply(ABlock(bs[n]), rest, FALSE))
      <3>1. bs \in Seq(BlockType) /\ n \in Nat \ {0}
        BY <1>3, OpenedShape DEF ServeRead, TypeInv, Entry
      <3>2. bs[n] \in BlockType
        BY <2>2, <3>1
      <3>3. ABlock(bs[n]) \in Answers
        BY <3>2 DEF ABlock, Answers, BlockType
      <3> QED BY <1>0, <2>1, <2>2, <3>3
    <2>3. CASE Reply(Empty, 0, FALSE)
      BY <1>0, <2>1, <2>3
    <2> QED BY <1>3, <2>2, <2>3 DEF ServeRead
  <1>4. CASE ServeWrite \/ ServeClose \/ ServeChange
    <2>1. Reply(Ok, 0, FALSE) /\ Asked.type # "FileOpen"
      BY <1>4 DEF ServeWrite, ServeClose, ServeChange
    <2> QED BY <1>0, <2>1
  <1>5. CASE ServeList
    <2>1. Listing(Present) \in Answers
      BY DEF Listing, Present, Answers
    <2> QED BY <1>0, <1>5, <2>1 DEF ServeList
  <1>6. CASE ServeInfo
    <2>1. Info(files[Asked.path].kind) \in Answers
      BY DEF Info, Answers
    <2> QED BY <1>0, <1>6, <2>1 DEF ServeInfo
  <1>7. CASE Refuse
    BY <1>0, <1>7 DEF Refuse
  <1> QED BY <1>2, <1>3, <1>4, <1>5, <1>6, <1>7 DEF ServeAfc

LEMMA ServeStep == ASSUME TypeInv, StepInv, ServeAfc PROVE StepInv'
  <1>1. PICK a \in Answers, rest \in 0..MaxRest, big \in BOOLEAN :
          /\ Reply(a, rest, big)
          /\ Asked.type = "FileOpen" => a.kind \in {"handle", "error"}
    BY ServeReplies
  <1>2. /\ afcRequests # <<>>
        /\ UNCHANGED <<call, at, stage, overread, ldAnswers, sound>>
    BY DEF ServeAfc, ops, locals
  <1> SUFFICES ASSUME sound PROVE OwnAnswer'
    BY <1>2 DEF StepInv
  <1>3. stage = "head" /\ ldAnswers = <<>> /\ Waiting /\ ~overread
    BY <1>2 DEF StepInv, OwnAnswer, Quiet, Answering, Finishing, Measuring, Reading,
                TypeInv, CallOK
  <1>4. afcRequests' = <<>>
    <2>1. Tail(afcRequests) \in Seq(Requests) /\ Len(Tail(afcRequests)) = Len(afcRequests) - 1
      BY <1>2, HeadTailProperties DEF TypeInv, PipeOK
    <2>2. Len(Tail(afcRequests)) = 0
      BY <1>3, <2>1 DEF Waiting
    <2>3. Tail(afcRequests) = <<>>
      BY <2>1, <2>2, EmptySeq
    <2> QED BY <1>1, <2>3 DEF Reply
  <1>5. wire' = <<Header(a, rest, big)>> /\ more' = rest
    BY <1>1, <1>3 DEF Reply, Waiting
  <1>6. /\ Header(a, rest, big).type = "head" /\ Header(a, rest, big).rest = rest
        /\ Header(a, rest, big).answer = a
    BY DEF Header
  <1>7. Len(wire') = 1 /\ wire'[1] = Header(a, rest, big) /\ wire' # <<>>
    BY <1>5
  <1>8. wire'[1].rest = more' + Len(wire') - 1
    <2>1. rest = rest + 1 - 1
      BY AfcAssumption
    <2> QED BY <1>5, <1>6, <1>7, <2>1
  <1>9. Rests(2)'
    BY <1>7 DEF Rests
  <1>10. Fits(a)'
    BY <1>1, <1>2, <1>3 DEF Fits, Waiting
  <1>11. Answering'
    BY <1>4, <1>6, <1>7, <1>8, <1>9, <1>10 DEF Answering, Fits
  <1> QED BY <1>2, <1>3, <1>11 DEF OwnAnswer

LEMMA SendRestStep == ASSUME TypeInv, StepInv, SendRest PROVE StepInv'
  <1>1. /\ more \in Nat /\ more > 0 /\ more' = more - 1
        /\ wire \in Seq(Frames) /\ wire' = Append(wire, Rest)
        /\ UNCHANGED <<call, at, stage, head, overread, afcRequests, ldAnswers, sound>>
    BY AfcAssumption DEF SendRest, ops, locals, TypeInv, PipeOK
  <1> SUFFICES ASSUME sound PROVE OwnAnswer'
    BY <1>1 DEF StepInv
  <1>2. /\ Len(wire) \in Nat /\ Len(wire') = Len(wire) + 1 /\ wire' # <<>>
        /\ \A j \in 1..Len(wire) : wire'[j] = wire[j]
        /\ wire'[Len(wire')] = Rest
    BY <1>1, AppendProperties DEF Frames
  <1>3. OwnAnswer /\ ~overread
    BY DEF StepInv, OwnAnswer
  <1>4. stage \in {"head", "body"} /\ ldAnswers = <<>>
    BY <1>1, <1>3 DEF OwnAnswer, Quiet, Measuring, Reading, TypeInv, CallOK
  <1>5. CASE stage = "head"
    <2>1. Answering
      BY <1>1, <1>3, <1>5 DEF OwnAnswer, Waiting
    <2>2. Len(wire) # 0
      BY <1>1, <2>1, EmptySeq DEF Answering
    <2>3. wire'[1] = wire[1]
      BY <1>2, <2>2
    <2>4. wire'[1].rest = more' + Len(wire') - 1
      BY <1>1, <1>2, <2>1, <2>3 DEF Answering
    <2>5. Rests(2)'
      BY <1>2, <2>1 DEF Answering, Rests
    <2>6. Answering'
      BY <1>1, <1>2, <2>1, <2>3, <2>4, <2>5 DEF Answering, Fits
    <2> QED BY <1>1, <1>3, <1>4, <1>5, <2>6 DEF OwnAnswer
  <1>6. CASE stage = "body"
    <2>1. Finishing
      BY <1>3, <1>6 DEF OwnAnswer
    <2>2. head'.rest = more' + Len(wire')
      BY <1>1, <1>2, <2>1 DEF Finishing
    <2>3. Rests(1)'
      BY <1>2, <2>1 DEF Finishing, Rests
    <2>4. Finishing'
      BY <1>1, <2>1, <2>2, <2>3 DEF Finishing, Fits
    <2> QED BY <1>1, <1>3, <1>4, <1>6, <2>4 DEF OwnAnswer
  <1> QED BY <1>4, <1>5, <1>6

LEMMA ServeLockdownStep == ASSUME TypeInv, StepInv, ServeLockdown PROVE StepInv'
  <1>1. /\ ldAnswers # <<>>
        /\ wire' = Append(wire, Head(ldAnswers)) /\ ldAnswers' = Tail(ldAnswers)
        /\ UNCHANGED <<call, at, stage, overread, afcRequests, more, sound>>
    BY DEF ServeLockdown, ops, locals
  <1> SUFFICES ASSUME sound PROVE OwnAnswer'
    BY <1>1 DEF StepInv
  <1>2. OwnAnswer /\ ~overread
    BY DEF StepInv, OwnAnswer
  <1>3. stage \in {"length", "text"}
    BY <1>1, <1>2 DEF OwnAnswer, Quiet, TypeInv, CallOK
  <1>4. CASE stage = "length"
    <2>1. Measuring
      BY <1>2, <1>4 DEF OwnAnswer
    <2>2. CASE wire = <<>> /\ ldAnswers = <<Length, Text(call.op)>>
      <3>1. Head(ldAnswers) = Length /\ Tail(ldAnswers) = <<Text(call.op)>>
        BY <2>2, PairTail
      <3>2. wire' = <<Length>> /\ ldAnswers' = <<Text(call.op)>>
        BY <1>1, <2>2, <3>1
      <3>3. Measuring'
        BY <1>1, <2>1, <3>2 DEF Measuring
      <3> QED BY <1>1, <1>2, <1>4, <3>3 DEF OwnAnswer
    <2>3. CASE wire = <<Length>> /\ ldAnswers = <<Text(call.op)>>
      <3>1. Head(ldAnswers) = Text(call.op) /\ Tail(ldAnswers) = <<>>
        BY <2>3
      <3>2. wire' = <<Length, Text(call.op)>> /\ ldAnswers' = <<>>
        BY <1>1, <2>3, <3>1, PairTail
      <3>3. Measuring'
        BY <1>1, <2>1, <3>2 DEF Measuring
      <3> QED BY <1>1, <1>2, <1>4, <3>3 DEF OwnAnswer
    <2> QED BY <1>1, <2>1, <2>2, <2>3 DEF Measuring
  <1>5. CASE stage = "text"
    <2>1. Reading
      BY <1>2, <1>5 DEF OwnAnswer
    <2>2. wire = <<>> /\ ldAnswers = <<Text(call.op)>>
      BY <1>1, <2>1 DEF Reading
    <2>3. wire' = <<Text(call.op)>> /\ ldAnswers' = <<>>
      BY <1>1, <2>2
    <2>4. Reading'
      BY <1>1, <2>1, <2>3 DEF Reading
    <2> QED BY <1>1, <1>2, <1>5, <2>4 DEF OwnAnswer
  <1> QED BY <1>3, <1>4, <1>5

LEMMA InitStep == Init => TypeInv /\ StepInv
  <1> SUFFICES ASSUME Init PROVE TypeInv /\ StepInv
    OBVIOUS
  <1>1. OwnAnswer
    BY DEF Init, OwnAnswer, Quiet
  <1> QED BY <1>1, InitType DEF StepInv

LEMMA NextStep == TypeInv /\ StepInv /\ [Next]_vars => TypeInv' /\ StepInv'
  <1> SUFFICES ASSUME TypeInv, StepInv, [Next]_vars PROVE StepInv'
    BY NextType
  <1>1. CASE BeginCall \/ BeginPoll \/ Reconnect
    BY <1>1, BeginStep, ReconnectStep
  <1>2. CASE HostStep
    BY <1>2, PathTooLongStep, AskStep, ReceiveHeadStep, ReceiveMixedStep, ReceiveBodyStep,
       ReceiveFailsStep, QueryStep, PollLengthStep, PollTextStep, PollRestStep
       DEF HostStep
  <1>3. CASE ServeAfc \/ SendRest \/ ServeLockdown
    BY <1>3, ServeStep, SendRestStep, ServeLockdownStep
  <1>4. CASE UNCHANGED vars
    BY <1>4 DEF vars, ops, locals, pipe, phone, StepInv, OwnAnswer, Quiet, Waiting, Asked,
       Answering, Finishing, Measuring, Reading, Rests, Fits
  <1> QED BY <1>1, <1>2, <1>3, <1>4 DEF Next

\* As long as no exchange has failed and left something in flight, every request
\* of Dispatch and of Exchange finds nothing of an earlier one, so that the answer
\* it gets is its own, and ReadFile takes a handle only from a whole response.
THEOREM AnswersInStep == Spec => []InStep
  <1>1. TypeInv /\ StepInv => InStep
    <2> SUFFICES ASSUME TypeInv, StepInv, sound PROVE
           /\ stage \in {"idle", "ask", "query"} => Quiet
           /\ Len(afcRequests) <= 1
           /\ stage \in {"head", "body"} => ldAnswers = <<>>
           /\ ~overread
      BY DEF InStep
    <2>1. OwnAnswer
      BY DEF StepInv
    <2>2. afcRequests = <<>> \/ Len(afcRequests) = 1
      BY <2>1 DEF OwnAnswer, Quiet, Waiting, Answering, Finishing, Measuring, Reading,
                  TypeInv, CallOK
    <2>3. Len(afcRequests) <= 1
      <3>1. CASE afcRequests = <<>>
        <4>1. Len(afcRequests) = 0
          BY <3>1
        <4> QED BY <4>1
      <3>2. CASE Len(afcRequests) = 1
        BY <3>2
      <3> QED BY <2>2, <3>1, <3>2
    <2> QED BY <2>1, <2>3 DEF OwnAnswer
  <1> QED BY <1>1, InitStep, NextStep, PTL DEF Spec

-----------------------------------------------------------------------------
(* File handles: in step and without faults, the one that an operation     *)
(* knows of is the one that is open on the phone.                          *)

\* between two exchanges, and while a request is under way
Held == DOMAIN handles = IF at \in {"data", "close"} THEN {handle} ELSE {}

\* after the phone has done what was asked, and answered a
HeldAfter(a) ==
    DOMAIN handles = IF at = "open" /\ a.kind = "handle" THEN {a.handle}
                     ELSE IF at = "data" THEN {handle} ELSE {}

HandlesKnown ==
    /\ stage \in {"idle", "query", "length", "text"} => DOMAIN handles = {}
    /\ stage = "ask" => Held
    /\ stage = "head" /\ afcRequests # <<>> => Asked = Request /\ Held
    /\ stage = "head" /\ afcRequests = <<>> => ~wire[1].big /\ HeldAfter(wire[1].answer)
    /\ stage = "body" => HeldAfter(head.answer)

HandleInv == sound /\ lossless => HandlesKnown

\* A fault ends what is known.
LEMMA FaultHandles == ASSUME NEW f, Fault(f) PROVE HandleInv'
  BY DEF Fault, HandleInv

LEMMA ResumeHandles ==
    ASSUME TypeInv, call.op \in FileOps,
           NEW a \in Answers \cup {NoAnswer}, Resume(a), UNCHANGED handles,
           at = "open" => a = NoAnswer \/ a.kind = "handle",
           HeldAfter(a)
    PROVE HandleInv'
  <1> SUFFICES /\ stage' \in {"idle", "ask"}
               /\ stage' = "idle" => DOMAIN handles = {}
               /\ stage' = "ask" => Held'
    BY DEF HandleInv, HandlesKnown
  <1> USE DEF Leave, Go, Held, HeldAfter
  <1>0. /\ stage' \in {"idle", "ask"} /\ NoAnswer.kind # "handle"
        /\ CallOK /\ DOMAIN handles' = DOMAIN handles
    BY ResumeCall, AnswerKinds DEF TypeInv
  <1>1. CASE at = "open"
    <2>1. OpenAnswered(a)
      BY <1>1 DEF Resume
    <2>2. a.kind = "handle" => ~TooShort(a)
      BY DEF TooShort, Empty, Listing
    <2>3. CASE a = NoAnswer
      BY <1>0, <1>1, <2>1, <2>3 DEF OpenAnswered
    <2>4. CASE a.kind = "handle" /\ a # NoAnswer
      <3>1. Go("data") /\ handle' = a.handle
        BY <2>1, <2>2, <2>4 DEF OpenAnswered
      <3> QED BY <1>0, <1>1, <2>4, <3>1
    <2> QED BY <1>1, <2>3, <2>4
  <1>2. CASE at = "data" /\ call.op = "write"
    <2>1. WriteAnswered(a)
      BY <1>2 DEF Resume
    <2>2. stage' = "ask" /\ at' \in {"data", "close"} /\ handle' = handle
      BY <2>1 DEF WriteAnswered
    <2> QED BY <1>0, <1>2, <2>2
  <1>3. CASE at = "data" /\ call.op = "read"
    <2>1. ReadAnswered(a)
      BY <1>3 DEF Resume
    <2>2. stage' = "ask" /\ at' \in {"data", "close"} /\ handle' = handle
      BY <2>1 DEF ReadAnswered
    <2> QED BY <1>0, <1>3, <2>2
  <1>4. CASE at \in {"close", "only"}
    <2>1. stage' = "idle"
      BY <1>4 DEF Resume
    <2> QED BY <1>0, <1>4, <2>1
  <1> QED BY <1>0, <1>1, <1>2, <1>3, <1>4 DEF CallOK

LEMMA AnsweredHandles ==
    ASSUME TypeInv, call.op \in FileOps, UNCHANGED handles,
           NEW a \in Answers, Answered(a), Fits(a), HeldAfter(a)
    PROVE HandleInv'
  <1>1. CASE a = Error
    <2>1. Resume(NoAnswer)
      BY <1>1 DEF Answered
    <2>2. HeldAfter(NoAnswer)
      BY <1>1, AnswerKinds DEF HeldAfter
    <2> QED BY <2>1, <2>2, ResumeHandles
  <1>2. CASE a # Error
    <2>1. Resume(a)
      BY <1>2 DEF Answered
    <2>2. a.kind = "error" => a = Error
      BY DEF Answers, Error, Ok, Empty
    <2> QED BY <1>2, <2>1, <2>2, ResumeHandles DEF Fits
  <1> QED BY <1>1, <1>2

LEMMA ReceiveHeadHandles ==
    ASSUME TypeInv, StepInv, HandleInv, ReceiveHead PROVE HandleInv'
  <1>1. /\ stage = "head" /\ call.op \in FileOps /\ Take
        /\ UNCHANGED <<handles, afcRequests, lossless>>
    BY StageCall DEF ReceiveHead, Take, phone, NoFault
  <1>2. sound' => sound
    <2>1. \/ \E b \in Answers \cup {NoAnswer} : Resume(b)
          \/ \E a : Answered(a)
          \/ \E next : Await(next)
      BY DEF ReceiveHead
    <2> QED BY <2>1 DEF Answered, Resume, Await
  <1> SUFFICES ASSUME sound, lossless PROVE HandleInv'
    BY <1>1, <1>2 DEF HandleInv
  <1>3. Answering /\ wire # <<>> /\ NextFrame = wire[1]
    BY <1>1, TakeRests DEF StepInv, OwnAnswer, Waiting, Take
  <1>4. NextFrame.type = "head" /\ NextFrame.answer \in Answers
    BY <1>1, <1>3, TakeType, FrameShape DEF Headers, Answering
  <1>5. /\ ~NextFrame.big /\ HeldAfter(NextFrame.answer) /\ Fits(NextFrame.answer)
    BY <1>1, <1>3 DEF HandleInv, HandlesKnown, Answering
  <1>6. CASE Answered(NextFrame.answer)
    BY <1>1, <1>4, <1>5, <1>6, AnsweredHandles
  <1>7. CASE Await("body") /\ head' = NextFrame
    <2>1. stage' = "body" /\ at' = at /\ handle' = handle
      BY <1>7 DEF Await, ops, locals
    <2>2. HeldAfter(head.answer)'
      BY <1>1, <1>5, <1>7, <2>1 DEF HeldAfter
    <2> QED BY <2>1, <2>2 DEF HandleInv, HandlesKnown
  <1> QED BY <1>4, <1>5, <1>6, <1>7 DEF ReceiveHead

LEMMA ReceiveBodyHandles ==
    ASSUME TypeInv, StepInv, HandleInv, ReceiveBody PROVE HandleInv'
  <1>1. /\ stage = "body" /\ call.op \in FileOps /\ Take
        /\ UNCHANGED <<handles, afcRequests, lossless>>
    BY StageCall DEF ReceiveBody, Take, phone, NoFault
  <1>2. sound' => sound
    BY DEF ReceiveBody, Answered, Resume, Await
  <1> SUFFICES ASSUME sound, lossless PROVE HandleInv'
    BY <1>1, <1>2 DEF HandleInv
  <1>3. Finishing /\ HeldAfter(head.answer)
    BY <1>1 DEF StepInv, OwnAnswer, HandleInv, HandlesKnown
  <1>4. head \in Headers /\ head.answer \in Answers
    BY <1>1 DEF TypeInv, HeadOK, Headers
  <1>5. NextFrame.type = "rest"
    <2>1. NextFrame = wire[1] /\ Len(wire) \in Nat \ {0}
      BY <1>1, TakeRests
    <2> QED BY <1>3, <2>1 DEF Finishing, Rests, Rest
  <1>6. CASE Answered(head.answer)
    BY <1>1, <1>3, <1>4, <1>6, AnsweredHandles DEF Finishing
  <1>7. CASE Await("body") /\ head' = [head EXCEPT !.rest = @ - 1]
    <2>1. stage' = "body" /\ at' = at /\ handle' = handle /\ head'.answer = head.answer
      BY <1>4, <1>7 DEF Await, ops, locals, Headers
    <2>2. HeldAfter(head.answer)'
      BY <1>1, <1>3, <2>1 DEF HeldAfter
    <2> QED BY <2>1, <2>2 DEF HandleInv, HandlesKnown
  <1> QED BY <1>5, <1>6, <1>7 DEF ReceiveBody

\* In step, an answer that does not come is a fault.
LEMMA ReceiveFailsHandles ==
    ASSUME TypeInv, StepInv, HandleInv, ReceiveMixed \/ ReceiveFails PROVE HandleInv'
  <1>1. CASE ~sound
    <2>1. ~sound'
      BY <1>1 DEF ReceiveMixed, ReceiveFails, Resume, Await
    <2> QED BY <2>1 DEF HandleInv
  <1>2. CASE sound
    <2>1. OwnAnswer /\ stage \in {"head", "body"} /\ NoFrame
      BY <1>2 DEF StepInv, OwnAnswer, ReceiveMixed, ReceiveFails
    <2>2. ~Quiet
      <3>1. CASE stage = "head"
        <4>1. Len(<<>>) = 0
          OBVIOUS
        <4> QED BY <2>1, <3>1, <4>1 DEF OwnAnswer, Waiting, Answering, Quiet
      <3>2. CASE stage = "body"
        <4>1. head.rest > 0 /\ Finishing
          BY <2>1, <3>2 DEF OwnAnswer, TypeInv, HeadOK
        <4>2. SUFFICES ASSUME Quiet PROVE FALSE
          OBVIOUS
        <4>3. Len(wire) = 0 /\ more = 0
          BY <4>2 DEF Quiet
        <4> QED BY <4>1, <4>3 DEF Finishing
      <3> QED BY <2>1, <3>1, <3>2
    <2> QED BY <2>1, <2>2, FaultHandles DEF NoFrame
  <1> QED BY <1>1, <1>2 DEF StepInv

LEMMA AskHandles ==
    ASSUME TypeInv, StepInv, HandleInv, BeginCall \/ PathTooLong \/ Ask \/ AskFails
    PROVE HandleInv'
  <1>1. CASE BeginCall
    <2>1. /\ stage = "idle" /\ stage' = "ask" /\ at' \in {"open", "only"}
          /\ UNCHANGED <<handles, sound, lossless>>
      BY <1>1 DEF BeginCall, Begin, Ready, phone
    <2> QED BY <2>1 DEF HandleInv, HandlesKnown, Held
  <1>2. CASE PathTooLong
    <2>1. /\ stage = "ask" /\ stage' = "idle" /\ (at = "open" \/ call.op = "rename")
          /\ UNCHANGED <<handles, sound, lossless>>
      BY <1>2 DEF PathTooLong, Leave, TooLong, phone
    <2>2. at \notin {"data", "close"}
      BY <2>1 DEF TypeInv, CallOK
    <2> QED BY <2>1, <2>2 DEF HandleInv, HandlesKnown, Held
  <1>3. CASE Ask
    <2>1. /\ stage = "ask" /\ stage' = "head" /\ afcRequests' = Append(afcRequests, Request)
          /\ UNCHANGED <<call, at, handle, blocks, handles, sound, lossless>>
      BY <1>3 DEF Ask, ops, locals, phone, NoFault
    <2>2. Request' = Request
      BY <2>1 DEF Request
    <2>3. sound => Asked' = Request /\ afcRequests' # <<>>
      BY <2>1 DEF StepInv, OwnAnswer, Quiet, Asked
    <2> QED BY <2>1, <2>2, <2>3 DEF HandleInv, HandlesKnown, Held
  <1>4. CASE AskFails
    BY <1>4, FaultHandles DEF AskFails
  <1> QED BY <1>1, <1>2, <1>3, <1>4

LEMMA PollHandles ==
    ASSUME TypeInv, StepInv, HandleInv,
           \/ BeginPoll \/ Query \/ QueryFails
           \/ PollLength \/ PollText \/ PollDrain \/ PollFails
    PROVE HandleInv'
  <1>1. /\ stage \in {"idle", "query", "length", "text", "drain"}
        /\ stage' \in {"idle", "query", "length", "text", "drain"}
        /\ handles' = handles /\ (sound' => sound)
    <2>1. handles' = handles
      BY DEF BeginPoll, Query, QueryFails, PollLength, PollText, PollDrain, PollFails,
             Take, NoFrame, phone
    <2>2. stage \in {"idle", "query", "length", "text", "drain"}
      BY DEF BeginPoll, Ready, Query, QueryFails, PollLength, PollText, PollDrain, PollFails
    <2>3. \/ BeginPoll
          \/ \E ok \in BOOLEAN : PollEnds(ok)
          \/ \E next \in {"length", "text", "drain"} : PollAwaits(next)
      BY DEF Query, QueryFails, PollLength, PollText, PollDrain, PollFails
    <2>4. stage' \in {"idle", "query", "length", "text", "drain"}
      BY <2>3 DEF BeginPoll, PollEnds, PollAwaits
    <2>5. sound' => sound
      BY <2>3 DEF BeginPoll, PollEnds, PollAwaits
    <2> QED BY <2>1, <2>2, <2>4, <2>5
  <1>2. sound => stage # "drain"
    BY DEF StepInv, OwnAnswer
  <1>3. CASE lossless' => lossless
    BY <1>1, <1>2, <1>3 DEF HandleInv, HandlesKnown
  <1>4. CASE lossless' /\ ~lossless
    BY <1>4 DEF BeginPoll, Query, QueryFails, PollLength, PollText, PollDrain, PollFails,
                Take, NoFrame, NoFault, Fault
  <1> QED BY <1>3, <1>4

LEMMA ReconnectHandles == ASSUME TypeInv, Reconnect PROVE HandleInv'
  <1>1. stage' = "idle" /\ handles' = <<>>
    BY DEF Reconnect, TypeInv, FlagsOK
  <1>2. DOMAIN handles' = {}
    BY <1>1
  <1> QED BY <1>1, <1>2 DEF HandleInv, HandlesKnown

\* What the phone does for the request of an operation in step.
LEMMA ServeHeld ==
    ASSUME TypeInv, ServeAfc, lossless', Held, Asked = Request,
           stage = "head"
    PROVE \E a \in Answers, rest \in 0..MaxRest :
            /\ Reply(a, rest, FALSE)
            /\ HeldAfter(a)'
  <1>0. /\ 0 \in 0..MaxRest /\ Ok \in Answers /\ Empty \in Answers /\ Error \in Answers
        /\ Ok.kind # "handle" /\ Empty.kind # "handle" /\ Error.kind # "handle"
    BY AfcAssumption, AnswerKinds DEF Ok, Empty, Error
  <1>1. /\ UNCHANGED <<call, at, stage, handle>>
        /\ call.op \in FileOps /\ CallOK /\ afcRequests # <<>>
    BY StageCall DEF ServeAfc, ops, locals, TypeInv
  <1>2. /\ at = "open" <=> Asked.type = "FileOpen"
        /\ at = "data" <=> Asked.type \in {"FileRead", "FileWrite"}
        /\ at = "close" <=> Asked.type = "FileClose"
        /\ at = "close" => Asked.handle = handle
    <2>1. CASE at = "open"
      BY <1>1, <2>1 DEF Request, CallOK
    <2>2. CASE at = "data" /\ call.op = "read"
      BY <1>1, <2>2 DEF Request, CallOK
    <2>3. CASE at = "data" /\ call.op = "write"
      BY <1>1, <2>3 DEF Request, CallOK
    <2>4. CASE at = "close"
      BY <1>1, <2>4 DEF Request, CallOK
    <2>5. CASE at = "only"
      BY <1>1, <2>5 DEF Request, CallOK, FileOps
    <2> QED BY <1>1, <2>1, <2>2, <2>3, <2>4, <2>5 DEF CallOK
  <1> USE DEF Held, HeldAfter
  <1>3. CASE ServeOpen
    <2>1. PICK h \in 1..MaxHandles :
            /\ DOMAIN handles' = DOMAIN handles \cup {h}
            /\ Reply(AHandle(h), 0, FALSE)
      BY <1>3 DEF ServeOpen
    <2>2. AHandle(h) \in Answers /\ AHandle(h).kind = "handle" /\ AHandle(h).handle = h
      BY DEF AHandle, Answers
    <2>3. at = "open"
      BY <1>2, <1>3 DEF ServeOpen
    <2>4. HeldAfter(AHandle(h))'
      BY <1>1, <2>1, <2>2, <2>3
    <2> QED BY <1>0, <2>1, <2>2, <2>4
  <1>4. CASE ServeRead
    <2> DEFINE bs == files[Opened.path].blocks
               n == Opened.position + 1
    <2>1. at = "data" /\ bs \in Seq(BlockType) /\ n \in Nat \ {0}
      BY <1>2, <1>4, OpenedShape DEF ServeRead, TypeInv, Entry
    <2>2. DOMAIN handles' = DOMAIN handles
      BY <1>4 DEF ServeRead
    <2>3. CASE n <= Len(bs) /\ (\E rest \in 0..MaxRest : Reply(ABlock(bs[n]), rest, FALSE))
      <3>1. bs[n] \in BlockType
        BY <2>1, <2>3
      <3>2. ABlock(bs[n]) \in Answers /\ ABlock(bs[n]).kind # "handle"
        BY <3>1 DEF ABlock, Answers, BlockType
      <3> QED BY <1>1, <2>1, <2>2, <2>3, <3>2
    <2>4. CASE Reply(Empty, 0, FALSE)
      BY <1>0, <1>1, <2>1, <2>2, <2>4
    <2> QED BY <1>4, <2>3, <2>4 DEF ServeRead
  <1>5. CASE ServeWrite
    <2>1. Reply(Ok, 0, FALSE) /\ at = "data" /\ handles' = handles
      BY <1>2, <1>5 DEF ServeWrite
    <2> QED BY <1>0, <1>1, <2>1
  <1>6. CASE ServeClose
    <2>1. Reply(Ok, 0, FALSE) /\ at = "close" /\ DOMAIN handles' = DOMAIN handles \ {handle}
      BY <1>2, <1>6 DEF ServeClose
    <2> QED BY <1>0, <1>1, <2>1
  <1>7. CASE ServeChange
    <2>1. Reply(Ok, 0, FALSE) /\ at = "only" /\ handles' = handles
      BY <1>1, <1>2, <1>7 DEF ServeChange, CallOK
    <2> QED BY <1>0, <1>1, <2>1
  <1>8. CASE ServeList
    <2>1. Listing(Present) \in Answers /\ Listing(Present).kind # "handle"
      BY DEF Listing, Present, Answers
    <2>2. at = "only" /\ handles' = handles
      BY <1>1, <1>2, <1>8 DEF ServeList, CallOK, phone
    <2>3. \E rest \in 0..MaxRest : Reply(Listing(Present), rest, FALSE)
      BY <1>8 DEF ServeList, Fault
    <2> QED BY <1>1, <2>1, <2>2, <2>3
  <1>9. CASE ServeInfo
    <2>1. LET a == Info(files[Asked.path].kind)
          IN a \in Answers /\ a.kind # "handle" /\ Reply(a, 0, FALSE)
      BY <1>9 DEF Info, Answers, ServeInfo
    <2>2. at = "only" /\ handles' = handles
      BY <1>1, <1>2, <1>9 DEF ServeInfo, CallOK, phone
    <2> QED BY <1>0, <1>1, <2>1, <2>2
  <1>10. CASE Refuse
    <2>1. Reply(Error, 0, FALSE) /\ handles' = handles
      BY <1>10 DEF Refuse, phone
    <2>2. at # "close"
      BY <1>2, <1>10 DEF Refuse
    <2> QED BY <1>0, <1>1, <2>1, <2>2
  <1> QED BY <1>3, <1>4, <1>5, <1>6, <1>7, <1>8, <1>9, <1>10 DEF ServeAfc

LEMMA ServeHandles == ASSUME TypeInv, StepInv, HandleInv, ServeAfc PROVE HandleInv'
  <1>1. /\ afcRequests # <<>>
        /\ UNCHANGED <<call, at, stage, sound>>
    BY DEF ServeAfc, ops
  <1> SUFFICES ASSUME sound, lossless' PROVE HandlesKnown'
    BY <1>1 DEF HandleInv
  <1>2. lossless
    BY DEF ServeAfc, ServeList, NoFault, Fault
  <1>3. stage = "head" /\ Waiting
    BY <1>1 DEF StepInv, OwnAnswer, Quiet, Answering, Finishing, Measuring, Reading,
                TypeInv, CallOK
  <1>4. Held /\ Asked = Request
    BY <1>1, <1>2, <1>3 DEF HandleInv, HandlesKnown
  <1>5. PICK a \in Answers, rest \in 0..MaxRest : Reply(a, rest, FALSE) /\ HeldAfter(a)'
    BY <1>3, <1>4, ServeHeld
  <1>6. wire' = <<Header(a, rest, FALSE)>>
    BY <1>3, <1>5 DEF Reply, Waiting
  <1>7. ~wire'[1].big /\ wire'[1].answer = a
    BY <1>6 DEF Header
  <1>8. afcRequests' = <<>>
    <2>1. Tail(afcRequests) \in Seq(Requests) /\ Len(Tail(afcRequests)) = Len(afcRequests) - 1
      BY <1>1, HeadTailProperties DEF TypeInv, PipeOK
    <2>2. Len(Tail(afcRequests)) = 0
      BY <1>3, <2>1 DEF Waiting
    <2>3. Tail(afcRequests) = <<>>
      BY <2>1, <2>2, EmptySeq
    <2> QED BY <1>5, <2>3 DEF Reply
  <1>9. HeldAfter(wire[1].answer)'
    BY <1>5, <1>7 DEF HeldAfter
  <1> QED BY <1>1, <1>3, <1>7, <1>8, <1>9 DEF HandlesKnown

LEMMA SendHandles ==
    ASSUME TypeInv, StepInv, HandleInv, SendRest \/ ServeLockdown PROVE HandleInv'
  <1>1. UNCHANGED <<call, at, stage, head, handle, blocks, afcRequests, handles, sound, lossless>>
    BY DEF SendRest, ServeLockdown, ops, locals, phone, NoFault
  <1> SUFFICES ASSUME sound, lossless PROVE HandlesKnown'
    BY <1>1 DEF HandleInv
  <1>2. HandlesKnown /\ OwnAnswer
    BY DEF HandleInv, StepInv
  <1>3. Request' = Request /\ Asked' = Asked
    BY <1>1 DEF Request, Asked
  <1>4. stage = "head" /\ afcRequests = <<>> => wire'[1] = wire[1]
    <2> SUFFICES ASSUME stage = "head", afcRequests = <<>> PROVE wire'[1] = wire[1]
      OBVIOUS
    <2>1. wire \in Seq(Frames) /\ wire # <<>> /\ ldAnswers = <<>>
      <3>1. Len(<<>>) = 0
        OBVIOUS
      <3> QED BY <1>2, <3>1 DEF OwnAnswer, Waiting, Answering, TypeInv, PipeOK
    <2>2. wire' = Append(wire, Rest) /\ Rest \in Frames
      BY <2>1 DEF SendRest, ServeLockdown, Frames
    <2>3. Len(wire) \in Nat /\ Len(wire) # 0
      BY <2>1, EmptySeq
    <2> QED BY <2>1, <2>2, <2>3, AppendProperties
  <1> QED BY <1>1, <1>2, <1>3, <1>4 DEF HandlesKnown, Held, HeldAfter

\* Without faults every path through an operation, those of refused requests as
\* well, has given its file handle back to the phone when the operation returns.
THEOREM HandlesGivenBack == Spec => []HandlesClosed
  <1>1. Init => TypeInv /\ StepInv /\ HandleInv
    <2> SUFFICES ASSUME Init PROVE HandleInv
      BY InitStep
    <2>1. stage = "idle" /\ DOMAIN handles = {}
      BY DEF Init
    <2> QED BY <2>1 DEF HandleInv, HandlesKnown
  <1>2. TypeInv /\ StepInv /\ HandleInv /\ [Next]_vars => TypeInv' /\ StepInv' /\ HandleInv'
    <2> SUFFICES ASSUME TypeInv, StepInv, HandleInv, [Next]_vars PROVE HandleInv'
      BY NextStep
    <2>1. CASE BeginCall \/ BeginPoll \/ Reconnect
      BY <2>1, AskHandles, PollHandles, ReconnectHandles
    <2>2. CASE HostStep
      BY <2>2, AskHandles, PollHandles, ReceiveHeadHandles, ReceiveBodyHandles,
         ReceiveFailsHandles DEF HostStep
    <2>3. CASE ServeAfc \/ SendRest \/ ServeLockdown
      BY <2>3, ServeHandles, SendHandles
    <2>4. CASE UNCHANGED vars
      BY <2>4 DEF vars, ops, locals, pipe, phone, HandleInv, HandlesKnown, Held, HeldAfter,
         Asked, Request
    <2> QED BY <2>1, <2>2, <2>3, <2>4 DEF Next
  <1>3. HandleInv => HandlesClosed
    BY DEF HandleInv, HandlesKnown, HandlesClosed
  <1> QED BY <1>1, <1>2, <1>3, PTL DEF Spec
=============================================================================
