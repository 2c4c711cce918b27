----------------------------- MODULE AfcSession ------------------------------
(***************************************************************************)
(* core/afc/AppleFileConduitSession.cpp: the file operations and Dispatch, *)
(* the exchange that they share; with the lockdown client's Exchange,      *)
(* which reads from the same pipe between two file operations.             *)
(*                                                                         *)
(* session_send_frame and session_recv are one step per frame, as long as  *)
(* nothing is lost inside a frame (MuxSession).  session_recv looks at no  *)
(* port: both sessions take whatever frame is next on the wire.  No answer *)
(* is compared with its request, so m_packetNumber is left out.            *)
(*                                                                         *)
(* The phone is external: an AFC server and a lockdownd that answer one    *)
(* request after the other, each at its own pace.                          *)
(***************************************************************************)
EXTENDS Naturals, Sequences, FiniteSets

CONSTANTS
    Paths,
    LongPaths,      \* others, which do not fit the request of a file operation
    Values,         \* what the program writes
    Blocks,         \* value |-> its length in blocks of 4096 bytes
    ShortTail,      \* the values whose last block is short
    MaxHandles,     \* bound: files open on the phone
    MaxRest,        \* bound: frames of an answer after the first
    MaxLeft,        \* bound: requests and frames in flight when a call begins
    NoFile, Folder, Torn,
    Faults,         \* the kinds of fault that happen
    MaxFaults       \* bound: how many of them

\* send: a request is not sent; lost: frames on the wire are lost;
\* late: no answer within the time-out, but it is still to come;
\* big: a folder has more entries than fit the buffer for responses
AllFaults == {"send", "lost", "late", "big"}

ASSUME AfcAssumption ==
    /\ LongPaths \cap Paths = {}
    /\ Values # {} /\ Blocks \in [Values -> Nat \ {0}]
    /\ ShortTail \subseteq Values
    /\ MaxHandles \in Nat \ {0}
    /\ MaxRest \in Nat
    /\ MaxLeft \in Nat
    /\ Faults \subseteq AllFaults
    /\ MaxFaults \in Nat

\* what a path can stand for can be told apart
ASSUME StoredAssumption ==
    /\ NoFile \notin Values \cup {Folder, Torn}
    /\ Folder \notin Values \cup {Torn}

VARIABLES
    \* the program
    call,           \* the file operation under way
    at,             \* its Dispatch: "open", "data", "close", or the "only" one
    stage,          \* where Dispatch or Exchange is; "idle" outside of both
    head,           \* the response header, while the rest is received
    handle,         \* the operation's local variables: the file handle,
    blocks,         \* the blocks that were read, or sent,
    result,         \* what it is going to return
    overread,       \* ReadFile has read past the end of a response
    up,             \* the sessions exist
    \* the pipe
    afcRequests,    \* the requests that the AFC server has not begun with,
    more,           \* the frames that are left of the answer it has begun,
    ldAnswers,      \* and those that lockdownd has yet to send
    wire,           \* frames sent and not received
    \* the phone
    files,          \* path |-> entry
    handles,        \* handle |-> the open file
    \* history
    sure,           \* the operation began with nothing in flight
    sound,          \* no exchange has failed and left something in flight
    lossless,       \* no fault so far
    faults          \* how many there have been

locals == <<handle, blocks, result, overread>>
ops == <<call, at, sure>>
phone == <<files, handles>>
pipe == <<afcRequests, more, ldAnswers, wire>>
vars == <<ops, stage, head, locals, up, pipe, phone, sound, lossless, faults>>

NoCall == [op |-> "none"]
Failed == [ok |-> FALSE]
Done == [ok |-> TRUE]
Polls == {"IsOpen", "GetValue"}

Quiet == wire = <<>> /\ afcRequests = <<>> /\ more = 0 /\ ldAnswers = <<>>

\* the caller may begin something else
Ready ==
    /\ up /\ stage = "idle"
    /\ Len(wire) + Len(afcRequests) + more + Len(ldAnswers) <= MaxLeft

Fault(f) ==
    /\ f \in Faults /\ faults < MaxFaults
    /\ faults' = faults + 1
    /\ lossless' = FALSE
NoFault == UNCHANGED <<faults, lossless>>

-----------------------------------------------------------------------------
(* Files, requests and answers.                                            *)

Block(v, i) == [value |-> v, index |-> i]
Whole(v) == [i \in 1..Blocks[v] |-> Block(v, i)]
IsShort(b) == b.index = Blocks[b.value] /\ b.value \in ShortTail

\* bytes that are no block of any value
Junk == Block(CHOOSE v \in Values : TRUE, 0)

\* a file that is not the beginning of a value is not kept apart from others
Beginnings == UNION {{SubSeq(Whole(v), 1, n) : n \in 0..Blocks[v]} : v \in Values}
Extended(bs, b) ==
    IF Append(bs, b) \in Beginnings THEN Append(bs, b) ELSE <<Junk>>

Nothing == [kind |-> "none", blocks |-> <<>>]
AFolder == [kind |-> "folder", blocks |-> <<>>]
AFile(bs) == [kind |-> "file", blocks |-> bs]
Present == {p \in Paths : files[p].kind # "none"}

\* what the file operation sends: OperationType and the payload
Request ==
    CASE at = "open" -> [type |-> "FileOpen", path |-> call.path,
                         write |-> call.op = "write"]
      [] at = "data" /\ call.op = "read" ->
           [type |-> "FileRead", handle |-> handle]
      [] at = "data" /\ call.op = "write" ->
           [type |-> "FileWrite", handle |-> handle,
            block |-> Block(call.value, Len(blocks) + 1)]
      [] at = "close" -> [type |-> "FileClose", handle |-> handle]
      [] call.op = "list" -> [type |-> "ReadDirectory"]
      [] call.op = "make" -> [type |-> "MakeDirectory", path |-> call.path]
      [] call.op = "delete" -> [type |-> "RemovePath", path |-> call.path]
      [] call.op = "kind" -> [type |-> "GetFileInfo", path |-> call.path]
      [] call.op = "rename" -> [type |-> "RenamePath", path |-> call.path,
                                to |-> call.to]

\* the payload of a response; "ok" and "error" are a Status
Ok == [kind |-> "ok"]
Error == [kind |-> "error"]
AHandle(h) == [kind |-> "handle", handle |-> h]
ABlock(b) == [kind |-> "block", block |-> b]
Empty == [kind |-> "empty"]
Listing(ps) == [kind |-> "list", names |-> ps]
Info(k) == [kind |-> "info", folder |-> k = "folder"]

\* no payload: Dispatch returns std::nullopt
NoAnswer == [kind |-> "none"]

\* less than the eight bytes of a handle
TooShort(a) == a = Empty \/ a = Listing({})

Header(a, rest, big) == [type |-> "head", answer |-> a, rest |-> rest, big |-> big]
Rest == [type |-> "rest"]
Length == [type |-> "length"]
Text(about) == [type |-> "text", about |-> about]

-----------------------------------------------------------------------------
(* The operations, from one Dispatch to the next.                          *)

Begin(c) ==
    /\ Ready
    /\ call' = c
    /\ at' = IF c.op \in {"read", "write"} THEN "open" ELSE "only"
    /\ stage' = "ask"
    /\ sure' = sound
    /\ result' = Failed
    /\ UNCHANGED <<head, handle, blocks, overread, up, pipe, phone, sound, lossless,
                   faults>>

BeginCall ==
    \/ \E p \in Paths \cup LongPaths, v \in Values :
          Begin([op |-> "write", value |-> v, path |-> p])
    \/ \E p \in Paths \cup LongPaths, q \in Paths :
          p # q /\ Begin([op |-> "rename", path |-> p, to |-> q])
    \/ \E p \in Paths \cup LongPaths : Begin([op |-> "read", path |-> p])
    \/ \E o \in {"make", "delete", "kind"}, p \in Paths :
          Begin([op |-> o, path |-> p])
    \/ Begin([op |-> "list"])

\* the operation returns r
Leave(r) ==
    /\ call' = NoCall
    /\ at' = "only"
    /\ stage' = "idle"
    /\ result' = r
    /\ handle' = 0
    /\ blocks' = <<>>
    /\ overread' = FALSE
    /\ UNCHANGED sure

\* the next Dispatch of the operation
Go(next) == at' = next /\ stage' = "ask" /\ UNCHANGED <<call, sure>>

\* "Path too long", "Rename paths too long"
TooLong ==
    /\ at = "open" \/ call.op = "rename"
    /\ call.path \in LongPaths

PathTooLong ==
    /\ stage = "ask"
    /\ TooLong
    /\ Leave(Failed)
    /\ UNCHANGED <<head, up, pipe, phone, sound, lossless, faults>>

\* what the operations with one exchange make of its payload
Outcome(a) ==
    CASE a = NoAnswer -> Failed
      [] a # NoAnswer /\ call.op = "list" ->
           [ok |-> TRUE, names |-> IF a.kind = "list" THEN a.names ELSE {}]
      [] a # NoAnswer /\ call.op = "kind" ->
           [ok |-> TRUE, folder |-> a.kind = "info" /\ a.folder]
      [] OTHER -> Done

\* ReadFile copies a handle from whatever came; WriteFile looks at its length
OpenAnswered(a) ==
    IF a = NoAnswer \/ (call.op = "write" /\ TooShort(a))
    THEN Leave(Failed)
    ELSE /\ Go("data")
         /\ handle' = IF a.kind = "handle" THEN a.handle ELSE 0
         /\ overread' = (overread \/ TooShort(a))
         /\ UNCHANGED <<blocks, result>>

\* mutant: WriteFile returns false without FileClose when a write fails
WriteNotClosed(a) ==
    IF a = NoAnswer THEN Leave(Failed)
    ELSE LET sent == Append(blocks, Block(call.value, Len(blocks) + 1))
             last == Len(sent) = Blocks[call.value]
         IN /\ blocks' = sent
            /\ Go(IF last THEN "close" ELSE "data")
            /\ result' = IF last THEN Done ELSE Failed
            /\ UNCHANGED <<handle, overread>>

WriteAnswered(a) ==
    LET sent == IF a = NoAnswer THEN blocks
                ELSE Append(blocks, Block(call.value, Len(blocks) + 1))
        last == Len(sent) = Blocks[call.value]
    IN /\ blocks' = sent
       /\ Go(IF a = NoAnswer \/ last THEN "close" ELSE "data")
       /\ result' = IF a # NoAnswer /\ last THEN Done ELSE Failed
       /\ UNCHANGED <<handle, overread>>

\* the contents that were read, as a value
AsValue(bs) ==
    IF \E v \in Values : bs = Whole(v) THEN CHOOSE v \in Values : bs = Whole(v)
    ELSE Torn

\* a payload that is no block of a file is taken for a short one
ReadAnswered(a) ==
    LET got == IF a.kind = "block" THEN a.block ELSE Junk
        all == IF a \in {NoAnswer, Empty} THEN blocks ELSE Append(blocks, got)
        again == a.kind = "block" /\ ~IsShort(a.block)
    IN /\ blocks' = all
       /\ Go(IF again THEN "data" ELSE "close")
       /\ result' = IF a = NoAnswer \/ again THEN Failed
                    ELSE [ok |-> TRUE, content |-> AsValue(all)]
       /\ UNCHANGED <<handle, overread>>

\* Dispatch returns a
Resume(a) ==
    /\ CASE at = "open" -> OpenAnswered(a)
         [] at = "data" /\ call.op = "write" -> WriteAnswered(a)
         [] at = "data" /\ call.op = "read" -> ReadAnswered(a)
         [] at = "close" -> Leave(result)
         [] at = "only" -> Leave(Outcome(a))
    /\ head' = NoAnswer
    /\ sound' = (sound /\ (a = NoAnswer => Quiet'))
    /\ UNCHANGED up

-----------------------------------------------------------------------------
(* Dispatch.                                                               *)

\* session_send_frame
Ask ==
    /\ stage = "ask"
    /\ ~TooLong
    /\ afcRequests' = Append(afcRequests, Request)
    /\ stage' = "head"
    /\ UNCHANGED <<ops, head, locals, up, more, ldAnswers, wire, phone, sound>>
    /\ NoFault

AskFails ==
    /\ stage = "ask"
    /\ ~TooLong
    /\ Fault("send")
    /\ UNCHANGED <<pipe, phone>>
    /\ Resume(NoAnswer)

\* session_recv hands over the payload of the next frame, whosever it is
NextFrame == Head(wire)
Take ==
    /\ wire # <<>>
    /\ wire' = Tail(wire)
    /\ UNCHANGED <<afcRequests, more, ldAnswers, phone>>
    /\ NoFault

\* mutant: the status is not looked at
AnsweredAnyhow(a) == Resume(a)

\* a response is whole: a Status other than zero is a failure
Answered(a) == Resume(IF a = Error THEN NoAnswer ELSE a)

\* the loop goes on
Await(next) ==
    /\ stage' = next
    /\ UNCHANGED <<ops, locals, up, sound>>

\* mutant: the first frame is taken for the whole response
ReceiveHeadOnly ==
    /\ stage = "head"
    /\ Take
    /\ IF NextFrame.type = "head" THEN Answered(NextFrame.answer) ELSE Resume(NoAnswer)

\* the header: "Bad magic", "Response too large", or a response begins
ReceiveHead ==
    /\ stage = "head"
    /\ Take
    /\ \/ NextFrame.type = "head" /\ NextFrame.big /\ Resume(NoAnswer)
       \/ /\ NextFrame.type = "head" /\ ~NextFrame.big /\ NextFrame.rest = 0
          /\ Answered(NextFrame.answer)
       \/ /\ NextFrame.type = "head" /\ ~NextFrame.big /\ NextFrame.rest > 0
          /\ Await("body")
          /\ head' = NextFrame
       \/ NextFrame.type \in {"rest", "text"} /\ Resume(NoAnswer)
       \/ /\ NextFrame.type \in {"rest", "length"}
          /\ Await("mixed")
          /\ UNCHANGED head

\* a frame shorter than a header came first: what follows has no magic
ReceiveMixed ==
    /\ stage = "mixed"
    /\ Take
    /\ \/ NextFrame.type # "length" /\ Resume(NoAnswer)
       \/ /\ NextFrame.type \in {"rest", "length"}
          /\ Await("mixed")
          /\ UNCHANGED head

\* mutant: the loop compares with <= and waits for a frame too many
ReceiveBodyLonger ==
    /\ stage = "body"
    /\ Take
    /\ Await("body")
    /\ head' = [head EXCEPT !.rest = @ - 1]

\* the rest of the response, by length; another frame counts as well
ReceiveBody ==
    /\ stage = "body"
    /\ Take
    /\ \/ NextFrame.type = "rest" /\ head.rest = 1 /\ Answered(head.answer)
       \/ /\ NextFrame.type = "rest" /\ head.rest > 1
          /\ Await("body")
          /\ head' = [head EXCEPT !.rest = @ - 1]
       \/ NextFrame.type # "rest" /\ Answered(Ok)
       \/ NextFrame.type # "rest" /\ Await("body") /\ UNCHANGED head

\* session_recv fails: nothing comes and nothing will, or not in time, or the
\* transfer fails and takes frames with it
NoFrame ==
    /\ UNCHANGED <<afcRequests, more, ldAnswers, phone>>
    /\ \/ Quiet /\ UNCHANGED wire /\ NoFault
       \/ wire = <<>> /\ ~Quiet /\ UNCHANGED wire /\ Fault("late")
       \/ /\ wire # <<>>
          /\ Fault("lost")
          /\ \E n \in 1..Len(wire) : wire' = SubSeq(wire, n + 1, Len(wire))

ReceiveFails ==
    /\ stage \in {"head", "mixed", "body"}
    /\ NoFrame
    /\ Resume(NoAnswer)

-----------------------------------------------------------------------------
(* The lockdown client's Exchange, for IsOpen and GetValueString.          *)

BeginPoll ==
    /\ Ready
    /\ \E o \in Polls : call' = [op |-> o]
    /\ stage' = "query"
    /\ result' = Failed
    /\ UNCHANGED <<at, sure, head, handle, blocks, overread, up, pipe, phone, sound, lossless, faults>>

\* mutant: the window keeps its sessions
PollEndsKept(ok) ==
    /\ call' = NoCall
    /\ stage' = "idle"
    /\ sound' = (sound /\ (ok \/ Quiet'))
    /\ UNCHANGED <<at, sure, head, locals, up>>

\* IsOpen's caller drops both sessions when it returns false; a value that is
\* missing changes only what is displayed
PollEnds(ok) ==
    /\ call' = NoCall
    /\ stage' = "idle"
    /\ up' = (ok \/ call.op # "IsOpen")
    /\ sound' = (sound /\ (ok \/ Quiet'))
    /\ UNCHANGED <<at, sure, head, locals>>

PollAwaits(next) ==
    /\ stage' = next
    /\ UNCHANGED <<ops, head, locals, up, sound>>

\* the length and the request
Query ==
    /\ stage = "query"
    /\ ldAnswers' = ldAnswers \o <<Length, Text(call.op)>>
    /\ PollAwaits("length")
    /\ UNCHANGED <<afcRequests, more, wire, phone>>
    /\ NoFault

QueryFails ==
    /\ stage = "query"
    /\ Fault("send")
    /\ UNCHANGED <<pipe, phone>>
    /\ PollEnds(FALSE)

\* the first four bytes of any other frame are a length as well: zero, or so
\* much that the frames that follow are read in its place
PollLength ==
    /\ stage = "length"
    /\ Take
    /\ \/ NextFrame.type = "length" /\ PollAwaits("text")
       \/ NextFrame.type # "length" /\ PollAwaits("drain")
       \/ NextFrame.type = "rest" /\ PollEnds(FALSE)

PollText ==
    /\ stage = "text"
    /\ Take
    /\ \/ NextFrame.type = "text" /\ PollEnds(NextFrame.about = call.op)
       \/ NextFrame.type # "text" /\ PollAwaits("drain")
       \/ NextFrame.type \in {"head", "rest"} /\ PollEnds(FALSE)

\* what is received is no property list
PollDrain ==
    /\ stage = "drain"
    /\ Take
    /\ PollAwaits("drain") \/ PollEnds(FALSE)

PollFails ==
    /\ stage \in {"length", "text", "drain"}
    /\ NoFrame
    /\ PollEnds(FALSE)

\* new sessions: session_connect flushes the pipe (MuxSession); an AFC
\* connection begins without handles
Reconnect ==
    /\ ~up /\ afcRequests = <<>> /\ more = 0 /\ ldAnswers = <<>>
    /\ up' = TRUE
    /\ wire' = <<>>
    /\ handles' = <<>>
    /\ sound' = TRUE
    /\ lossless' = TRUE
    /\ UNCHANGED <<ops, stage, head, locals, afcRequests, more, ldAnswers, files, faults>>

-----------------------------------------------------------------------------
(* The phone.                                                              *)

Reply(a, rest, big) ==
    /\ wire' = Append(wire, Header(a, rest, big))
    /\ more' = rest
    /\ afcRequests' = Tail(afcRequests)

\* the requests' next
Asked == afcRequests[1]

ServeOpen ==
    /\ Asked.type = "FileOpen"
    /\ \/ files[Asked.path].kind = "file"
       \/ Asked.write /\ files[Asked.path].kind = "none"
    /\ \E h \in 1..MaxHandles :
          /\ \A g \in 1..MaxHandles \ DOMAIN handles : h <= g
          /\ h \notin DOMAIN handles
          /\ handles' = [g \in DOMAIN handles \cup {h} |->
                            IF g = h THEN [path |-> Asked.path, position |-> 0]
                            ELSE handles[g]]
          /\ Reply(AHandle(h), 0, FALSE)
    /\ files' = IF Asked.write THEN [files EXCEPT ![Asked.path] = AFile(<<>>)]
                ELSE files

\* the file that the request's handle stands for
Opened == handles[Asked.handle]
ServeRead ==
    /\ Asked.type = "FileRead"
    /\ Asked.handle \in DOMAIN handles
    /\ LET bs == files[Opened.path].blocks
           n == Opened.position + 1
       IN \/ /\ n <= Len(bs)
             /\ \E rest \in 0..MaxRest : Reply(ABlock(bs[n]), rest, FALSE)
             /\ handles' = [handles EXCEPT ![Asked.handle].position = n]
          \/ /\ n > Len(bs)
             /\ Reply(Empty, 0, FALSE)
             /\ UNCHANGED handles
    /\ UNCHANGED files

ServeWrite ==
    /\ Asked.type = "FileWrite"
    /\ Asked.handle \in DOMAIN handles
    /\ files' = IF files[Opened.path].kind = "file"
                THEN [files EXCEPT ![Opened.path].blocks = Extended(@, Asked.block)]
                ELSE files
    /\ Reply(Ok, 0, FALSE)
    /\ UNCHANGED handles

ServeClose ==
    /\ Asked.type = "FileClose"
    /\ Asked.handle \in DOMAIN handles
    /\ handles' = [h \in DOMAIN handles \ {Asked.handle} |-> handles[h]]
    /\ Reply(Ok, 0, FALSE)
    /\ UNCHANGED files

ServeList ==
    /\ Asked.type = "ReadDirectory"
    /\ \E rest \in 0..MaxRest :
          \/ Reply(Listing(Present), rest, FALSE) /\ NoFault
          \/ Reply(Listing(Present), rest, TRUE) /\ Fault("big")
    /\ UNCHANGED phone

ServeChange ==
    /\ \/ /\ Asked.type = "MakeDirectory"
          /\ files[Asked.path].kind = "none"
          /\ files' = [files EXCEPT ![Asked.path] = AFolder]
       \/ /\ Asked.type = "RemovePath"
          /\ Asked.path \in Present
          /\ files' = [files EXCEPT ![Asked.path] = Nothing]
       \/ /\ Asked.type = "RenamePath"
          /\ Asked.path \in Present
          /\ files[Asked.to].kind # "folder"
          /\ files' = [files EXCEPT ![Asked.path] = Nothing,
                                    ![Asked.to] = files[Asked.path]]
    /\ Reply(Ok, 0, FALSE)
    /\ UNCHANGED handles

ServeInfo ==
    /\ Asked.type = "GetFileInfo"
    /\ Asked.path \in Present
    /\ Reply(Info(files[Asked.path].kind), 0, FALSE)
    /\ UNCHANGED phone

\* a request that cannot be done, or is refused: permissions, a full disk
Refuse ==
    /\ Asked.type = "FileClose" => Asked.handle \notin DOMAIN handles
    /\ Reply(Error, 0, FALSE)
    /\ UNCHANGED phone

ServeAfc ==
    /\ afcRequests # <<>> /\ more = 0
    /\ \/ ServeList
       \/ /\ \/ ServeOpen \/ ServeRead \/ ServeWrite \/ ServeClose
             \/ ServeChange \/ ServeInfo \/ Refuse
          /\ NoFault
    /\ UNCHANGED <<ops, stage, head, locals, up, ldAnswers, sound>>

\* the next frame of an answer
SendRest ==
    /\ more > 0
    /\ more' = more - 1
    /\ wire' = Append(wire, Rest)
    /\ UNCHANGED <<ops, stage, head, locals, up, afcRequests, ldAnswers, phone, sound>>
    /\ NoFault

ServeLockdown ==
    /\ ldAnswers # <<>>
    /\ wire' = Append(wire, Head(ldAnswers))
    /\ ldAnswers' = Tail(ldAnswers)
    /\ UNCHANGED <<ops, stage, head, locals, up, afcRequests, more, phone, sound>>
    /\ NoFault

-----------------------------------------------------------------------------
Init ==
    /\ call = NoCall /\ at = "only" /\ stage = "idle" /\ sure = TRUE
    /\ head = NoAnswer
    /\ handle = 0 /\ blocks = <<>> /\ result = Failed /\ overread = FALSE
    /\ up = TRUE
    /\ afcRequests = <<>> /\ more = 0 /\ ldAnswers = <<>> /\ wire = <<>>
    /\ files = [p \in Paths |-> Nothing]
    /\ handles = <<>>
    /\ sound = TRUE /\ lossless = TRUE
    /\ faults = 0

\* a step of an operation or of a poll that is under way
HostStep ==
    \/ PathTooLong \/ Ask \/ AskFails
    \/ ReceiveHead \/ ReceiveMixed \/ ReceiveBody \/ ReceiveFails
    \/ Query \/ QueryFails
    \/ PollLength \/ PollText \/ PollDrain \/ PollFails

Next ==
    \/ BeginCall \/ BeginPoll \/ HostStep \/ Reconnect
    \/ ServeAfc \/ SendRest \/ ServeLockdown

Spec == Init /\ [][Next]_vars

\* every libusb call has a time-out; a phone that is slower than that is a
\* fault, so with the faults used up it answers
FairSpec ==
    /\ Spec /\ WF_vars(HostStep)
    /\ WF_vars(ServeAfc) /\ WF_vars(SendRest) /\ WF_vars(ServeLockdown)

-----------------------------------------------------------------------------
(* Properties.                                                             *)

FileCalls ==
    [op : {"write"}, path : Paths \cup LongPaths, value : Values]
    \cup [op : {"rename"}, path : Paths \cup LongPaths, to : Paths]
    \cup [op : {"read"}, path : Paths \cup LongPaths]
    \cup [op : {"make", "delete", "kind"}, path : Paths]
    \cup {[op |-> "list"]}

Answers ==
    {Ok, Error, Empty} \cup [kind : {"handle"}, handle : 1..MaxHandles]
    \cup [kind : {"block"}, block : [value : Values, index : Nat]]
    \cup [kind : {"list"}, names : SUBSET Paths]
    \cup [kind : {"info"}, folder : BOOLEAN]
Headers == [type : {"head"}, answer : Answers, rest : 0..MaxRest, big : BOOLEAN]
Frames == Headers \cup {Rest, Length} \cup [type : {"text"}, about : Polls]

\* Types, and each place of Dispatch and Exchange with the variables it uses.
TypeOK ==
    /\ call \in FileCalls \cup [op : Polls] \cup {NoCall}
    /\ at \in {"open", "data", "close", "only"}
    /\ stage \in {"idle", "ask", "head", "mixed", "body",
                  "query", "length", "text", "drain"}
    /\ stage = "idle" <=> call = NoCall
    /\ stage \in {"ask", "head", "mixed", "body"} <=> call \in FileCalls
    /\ at # "only" => call.op \in {"read", "write"}
    /\ IF stage = "body" THEN head \in Headers /\ head.rest > 0 ELSE head = NoAnswer
    /\ handle \in 0..MaxHandles
    /\ blocks \in Seq([value : Values, index : Nat])
    /\ sure \in BOOLEAN /\ overread \in BOOLEAN /\ up \in BOOLEAN
    /\ ~up => stage = "idle"
    /\ wire \in Seq(Frames)
    /\ ldAnswers \in Seq({Length} \cup [type : {"text"}, about : Polls])
    /\ more \in 0..MaxRest
    /\ files \in [Paths -> [kind : {"none", "folder", "file"},
                            blocks : Seq([value : Values, index : Nat])]]
    /\ DOMAIN handles \subseteq 1..MaxHandles
    /\ sound \in BOOLEAN /\ lossless \in BOOLEAN
    /\ faults \in 0..MaxFaults

\* As long as no exchange has failed with something in flight, a request is sent
\* only when nothing of an earlier one is left on either session: an exchange that
\* succeeds has taken its whole answer, and the answer that comes is its own.
InStep ==
    sound => /\ stage \in {"idle", "ask", "query"} => Quiet
             /\ Len(afcRequests) <= 1
             /\ stage \in {"head", "body"} => ldAnswers = <<>>
             /\ ~overread

\* Without faults every path through an operation, those of refused requests
\* as well, gives its file handle back.
HandlesClosed ==
    sound /\ lossless /\ stage = "idle" => DOMAIN handles = {}

\* A poll that finds a frame of the file service waiting ends both sessions, so
\* a window that polls does not stay out of step for good.
OutOfStepDropped ==
    (/\ call.op = "IsOpen" /\ stage = "query"
     /\ wire # <<>> /\ wire[1].type \in {"head", "rest"})
        ~> ~up

\* WriteFile returns true only when the file is whole.
WriteReported ==
    [][call.op = "write" /\ call' = NoCall /\ result' = Done
        => files[call.path] = AFile(Whole(call.value))]_vars

Stored(e) ==
    CASE e.kind = "none" -> NoFile
      [] e.kind = "folder" -> Folder
      [] e.kind = "file" -> AsValue(e.blocks)

\* The file operations implement what RemoteFiles promises: in step, what they
\* return is true of the phone's files; and each of them returns.
Contract == INSTANCE RemoteFiles WITH
    Paths <- Paths \cup LongPaths,
    store <- [p \in Paths \cup LongPaths |->
                IF p \in Paths THEN Stored(files[p]) ELSE NoFile],
    call <- IF call.op \in Polls THEN NoCall ELSE call,
    returned <- IF call \in FileCalls THEN Failed ELSE result
ImplementsFiles == Contract!FairSpec
=============================================================================
