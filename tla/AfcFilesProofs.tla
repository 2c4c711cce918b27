--------------------------- MODULE AfcFilesProofs ---------------------------
(***************************************************************************)
(* The file operations of AfcSession implement RemoteFiles: what they      *)
(* return is true of the phone's files, as long as answers are in step.    *)
(***************************************************************************)
EXTENDS AfcSessionProofs

-----------------------------------------------------------------------------
(* What an operation knows of the files, at each of its exchanges.         *)

Path == call.path

\* The first n blocks of a value, and a file that holds them.
First(v, n) == SubSeq(Whole(v), 1, n)

\* ReadFile has read the file up to its handle's position
ReadSoFar ==
    /\ files[Path].kind = "file"
    /\ handles[handle] = [path |-> Path, position |-> Len(blocks)]
    /\ Len(blocks) <= Len(files[Path].blocks)
    /\ \A i \in 1..Len(blocks) : blocks[i] = files[Path].blocks[i]

\* WriteFile has written what it has sent
WrittenSoFar ==
    /\ handles[handle].path = Path
    /\ Len(blocks) < Blocks[call.value]
    /\ files[Path] = AFile(First(call.value, Len(blocks)))

\* what is going to be returned is true already
Reported ==
    result # Failed =>
        \/ /\ call.op = "read" /\ files[Path].kind = "file"
           /\ result = [ok |-> TRUE, content |-> AsValue(files[Path].blocks)]
        \/ /\ call.op = "write" /\ result = Done
           /\ files[Path] = AFile(Whole(call.value))

\* between two exchanges, and until the phone has begun with a request
Before ==
    /\ at \in {"data", "close"} => Path \in Paths
    /\ at = "data" => handle \in DOMAIN handles
    /\ at = "data" /\ call.op = "read" => ReadSoFar
    /\ at = "data" /\ call.op = "write" => WrittenSoFar
    /\ at = "close" => Reported

Reachable == (at # "only" \/ call.op = "rename") => Path \in Paths

\* a tells the truth
TrueBlock(a) ==
    /\ a = Empty => ReadSoFar /\ Len(blocks) = Len(files[Path].blocks)
    /\ a # Empty =>
          /\ files[Path].kind = "file"
          /\ Len(blocks) < Len(files[Path].blocks)
          /\ \A i \in 1..Len(blocks) : blocks[i] = files[Path].blocks[i]
          /\ a = ABlock(files[Path].blocks[Len(blocks) + 1])
          /\ handles[handle] = [path |-> Path, position |-> Len(blocks) + 1]
TrueAnswer(a) ==
    CASE call.op = "make" -> files[Path].kind = "folder"
      [] call.op = "delete" -> files[Path].kind = "none"
      [] call.op = "rename" -> files[Path].kind = "none" /\ files[call.to].kind # "none"
      [] call.op = "kind" -> files[Path].kind # "none" /\ a = Info(files[Path].kind)
      [] call.op = "list" -> a = Listing(Present)

\* after the phone has done what was asked, and answered a
After(a) ==
    /\ Reachable
    /\ at = "open" /\ a # Error =>
          /\ a.handle \in DOMAIN handles
          /\ handles[a.handle] = [path |-> Path, position |-> 0]
          /\ files[Path].kind = "file"
          /\ call.op = "write" => files[Path] = AFile(<<>>)
    /\ at = "data" => handle \in DOMAIN handles
    /\ at = "data" /\ call.op = "read" /\ a # Error => TrueBlock(a)
    /\ at = "data" /\ call.op = "write" /\ a # Error =>
          /\ handles[handle].path = Path
          /\ Len(blocks) < Blocks[call.value]
          /\ files[Path] = AFile(First(call.value, Len(blocks) + 1))
    /\ at = "close" => Reported
    /\ at = "only" /\ a # Error => TrueAnswer(a)

FilesKnown ==
    /\ stage = "ask" => Before
    /\ stage = "head" /\ afcRequests # <<>> => Asked = Request /\ Before /\ Reachable
    /\ stage = "head" /\ afcRequests = <<>> => After(wire[1].answer)
    /\ stage = "body" => After(head.answer)

\* what is kept of the operations that end in a state that is not in step
Returnable ==
    /\ stage \in {"ask", "head", "mixed", "body"} /\ at = "close" =>
          \/ result = Failed
          \/ call.op = "write" /\ result = Done
          \/ call.op = "read" /\ \E x \in Values \cup {Torn} : result = [ok |-> TRUE, content |-> x]
    /\ stage \in {"ask", "head", "mixed", "body"} /\ sure /\ ~sound =>
          at = "close" /\ result = Failed
    /\ call.op = "rename" => Path # call.to
    /\ at \in {"open", "only"} => blocks = <<>>

\* a file is the beginning of a value, or nothing that can be told apart
FilesOK ==
    \A p \in Paths : files[p].kind = "file" => files[p].blocks \in Beginnings \cup {<<Junk>>}

FilesInv == Returnable /\ FilesOK /\ (sound => FilesKnown)

-----------------------------------------------------------------------------
(* Values, their beginnings, and what a file's blocks stand for.           *)

LEMMA WholeShape ==
    ASSUME NEW v \in Values
    PROVE /\ Blocks[v] \in Nat \ {0}
          /\ Whole(v) \in Seq(BlockType) /\ Len(Whole(v)) = Blocks[v]
          /\ \A i \in 1..Blocks[v] : Whole(v)[i] = Block(v, i)
  <1>1. Blocks[v] \in Nat \ {0}
    BY AfcAssumption
  <1>2. \A i \in 1..Blocks[v] : Block(v, i) \in BlockType
    BY <1>1 DEF Block, BlockType
  <1>3. Whole(v) \in [1..Blocks[v] -> BlockType] /\ DOMAIN Whole(v) = 1..Blocks[v]
    BY <1>2 DEF Whole
  <1>4. Whole(v) \in Seq(BlockType)
    BY <1>1, <1>3, SeqDef
  <1>5. Len(Whole(v)) = Blocks[v]
    BY <1>1, <1>3, <1>4, LenProperties
  <1> QED BY <1>1, <1>4, <1>5 DEF Whole

LEMMA FirstShape ==
    ASSUME NEW v \in Values, NEW n \in Nat, n <= Blocks[v]
    PROVE /\ First(v, n) \in Seq(BlockType) /\ Len(First(v, n)) = n
          /\ \A i \in 1..n : First(v, n)[i] = Block(v, i)
          /\ First(v, n) \in Beginnings
  <1>1. /\ Blocks[v] \in Nat \ {0}
        /\ Whole(v) \in Seq(BlockType) /\ Len(Whole(v)) = Blocks[v]
        /\ \A i \in 1..Blocks[v] : Whole(v)[i] = Block(v, i)
    BY WholeShape
  <1>2. \A i \in 1..n : Whole(v)[i] \in BlockType
    BY <1>1, ElementOfSeq
  <1>3. /\ First(v, n) \in Seq(BlockType)
        /\ Len(First(v, n)) = IF 1 <= n THEN n - 1 + 1 ELSE 0
        /\ \A i \in 1..(n - 1 + 1) : First(v, n)[i] = Whole(v)[1 + i - 1]
    BY <1>2, SubSeqProperties DEF First
  <1>4. Len(First(v, n)) = n
    BY <1>3
  <1>5. \A i \in 1..n : First(v, n)[i] = Block(v, i)
    <2> SUFFICES ASSUME NEW i \in 1..n PROVE First(v, n)[i] = Block(v, i)
      OBVIOUS
    <2>1. i \in 1..(n - 1 + 1) /\ 1 + i - 1 = i /\ i \in 1..Blocks[v]
      BY <1>1
    <2> QED BY <1>1, <1>3, <2>1
  <1>6. n \in 0..Blocks[v]
    BY <1>1
  <1>7. First(v, n) \in Beginnings
    BY <1>6 DEF Beginnings, First
  <1> QED BY <1>3, <1>4, <1>5, <1>7

\* Each block that is written makes the beginning one longer.
LEMMA FirstNext ==
    ASSUME NEW v \in Values, NEW n \in Nat, n < Blocks[v]
    PROVE Append(First(v, n), Block(v, n + 1)) = First(v, n + 1)
  <1>1. Blocks[v] \in Nat \ {0} /\ n + 1 \in Nat /\ n + 1 <= Blocks[v] /\ n <= Blocks[v]
    BY WholeShape
  <1>2. /\ First(v, n) \in Seq(BlockType) /\ Len(First(v, n)) = n
        /\ \A i \in 1..n : First(v, n)[i] = Block(v, i)
    BY <1>1, FirstShape
  <1>3. /\ First(v, n + 1) \in Seq(BlockType) /\ Len(First(v, n + 1)) = n + 1
        /\ \A i \in 1..(n + 1) : First(v, n + 1)[i] = Block(v, i)
    BY <1>1, FirstShape
  <1>4. Block(v, n + 1) \in BlockType
    BY <1>1 DEF Block, BlockType
  <1> DEFINE l == Append(First(v, n), Block(v, n + 1))
  <1>5. /\ l \in Seq(BlockType) /\ Len(l) = n + 1
        /\ \A i \in 1..n : l[i] = First(v, n)[i]
        /\ l[n + 1] = Block(v, n + 1)
    BY <1>2, <1>4, AppendProperties
  <1> HIDE DEF l
  <1>6. ASSUME NEW i \in 1..(n + 1) PROVE l[i] = First(v, n + 1)[i]
    <2>1. i \in 1..n \/ i = n + 1
      OBVIOUS
    <2> QED BY <1>2, <1>3, <1>5, <2>1
  <1>7. l = First(v, n + 1)
    BY <1>3, <1>5, <1>6, SeqEqual
  <1> QED BY <1>7 DEF l

LEMMA FirstAll ==
    ASSUME NEW v \in Values
    PROVE First(v, Blocks[v]) = Whole(v)
  BY WholeShape, SubSeqFull DEF First

LEMMA ValueOf == ASSUME NEW bs PROVE AsValue(bs) \in Values \cup {Torn}
  BY DEF AsValue

\* A whole value is known as itself.
LEMMA ValueWhole ==
    ASSUME NEW v \in Values
    PROVE AsValue(Whole(v)) = v
  <1>1. ASSUME NEW w \in Values, Whole(v) = Whole(w) PROVE v = w
    <2>1. 1 \in 1..Blocks[v] /\ 1 \in 1..Blocks[w]
      BY WholeShape
    <2>2. Whole(v)[1] = Block(v, 1) /\ Whole(w)[1] = Block(w, 1)
      BY <2>1, WholeShape
    <2>3. Block(v, 1).value = v /\ Block(w, 1).value = w
      BY DEF Block
    <2> QED BY <1>1, <2>2, <2>3
  <1> QED BY <1>1 DEF AsValue

\* Less than the whole of a value is no value.
LEMMA ValueFirst ==
    ASSUME NEW v \in Values, NEW n \in Nat, n < Blocks[v]
    PROVE AsValue(First(v, n)) = Torn
  <1>1. ASSUME NEW w \in Values, First(v, n) = Whole(w) PROVE FALSE
    <2>1. Blocks[v] \in Nat \ {0} /\ n <= Blocks[v] /\ Blocks[w] \in Nat \ {0}
      BY WholeShape
    <2>2. Len(First(v, n)) = n /\ \A i \in 1..n : First(v, n)[i] = Block(v, i)
      BY <2>1, FirstShape
    <2>3. Len(Whole(w)) = Blocks[w] /\ \A i \in 1..Blocks[w] : Whole(w)[i] = Block(w, i)
      BY WholeShape
    <2>4. n = Blocks[w] /\ 1 \in 1..n /\ 1 \in 1..Blocks[w]
      BY <1>1, <2>1, <2>2, <2>3
    <2>5. Block(v, 1) = Block(w, 1)
      BY <1>1, <2>2, <2>3, <2>4
    <2>6. v = w
      BY <2>5 DEF Block
    <2> QED BY <2>1, <2>4, <2>6
  <1> QED BY <1>1 DEF AsValue

\* A short block is the last of its file.
LEMMA ShortIsLast ==
    ASSUME NEW bs \in Beginnings \cup {<<Junk>>}, NEW n \in 1..Len(bs), IsShort(bs[n])
    PROVE n = Len(bs)
  <1>1. CASE bs = <<Junk>>
    <2>1. Len(bs) = 1
      BY <1>1
    <2> QED BY <2>1
  <1>2. CASE bs \in Beginnings
    <2>0. PICK v \in Values : bs \in {First(v, k) : k \in 0..Blocks[v]}
      BY <1>2 DEF Beginnings, First
    <2>1. PICK m \in 0..Blocks[v] : bs = First(v, m)
      BY <2>0
    <2>2. Blocks[v] \in Nat \ {0} /\ m \in Nat /\ m <= Blocks[v]
      BY <2>1, WholeShape
    <2>3. Len(bs) = m /\ \A i \in 1..m : bs[i] = Block(v, i)
      BY <2>1, <2>2, FirstShape
    <2>4. n \in 1..m /\ bs[n] = Block(v, n)
      BY <2>3
    <2>5. n = Blocks[v]
      BY <2>4 DEF IsShort, Block
    <2> QED BY <2>2, <2>3, <2>4, <2>5
  <1> QED BY <1>1, <1>2

-----------------------------------------------------------------------------
(* The host: what it makes of an answer.                                   *)

\* the operation uses the file's path only when the phone knows it
Known == at \in {"data", "close"} => Path \in Paths

LEMMA ResumeFiles ==
    ASSUME TypeInv, Returnable, FilesOK, call.op \in FileOps, UNCHANGED <<files, handles>>, Known,
           NEW a \in (Answers \ {Error}) \cup {NoAnswer}, Resume(a),
           at = "open" => a = NoAnswer \/ a.kind = "handle",
           a # NoAnswer => After(a)
    PROVE stage' = "ask" => Before'
  <1> SUFFICES ASSUME stage' = "ask" PROVE Before'
    OBVIOUS
  <1> USE DEF Leave, Go
  <1>1. /\ CallOK /\ blocks \in Seq(BlockType) /\ Len(blocks) \in Nat
        /\ call' = call /\ Path' = Path /\ stage' # "idle"
    <2>1. CallOK /\ blocks \in Seq(BlockType)
      BY DEF TypeInv, LocalsOK
    <2>2. call' = call
      BY <2>1 DEF Resume, OpenAnswered, WriteAnswered, ReadAnswered, CallOK
    <2> QED BY <2>1, <2>2, LenProperties DEF Path
  <1>2. CASE at = "open"
    <2>1. OpenAnswered(a)
      BY <1>2 DEF Resume
    <2>2. a # NoAnswer /\ a.kind = "handle" /\ at' = "data" /\ handle' = a.handle /\ blocks' = blocks
      BY <1>1, <1>2, <2>1 DEF OpenAnswered
    <2>3. /\ Path \in Paths /\ a.handle \in DOMAIN handles /\ files[Path].kind = "file"
          /\ handles[a.handle] = [path |-> Path, position |-> 0]
          /\ call.op = "write" => files[Path] = AFile(<<>>)
      <3>1. a # Error
        BY <2>2, AnswerKinds
      <3> QED BY <1>2, <2>2, <3>1 DEF After, Reachable
    <2>4. blocks = <<>> /\ Len(blocks) = 0
      BY <1>2 DEF Returnable
    <2>5. call.op = "read" => ReadSoFar'
      <3>1. Len(files[Path].blocks) \in Nat
        BY <2>3, LenProperties DEF TypeInv, PhoneOK, Entry
      <3> QED BY <1>1, <2>2, <2>3, <2>4, <3>1 DEF ReadSoFar
    <2>6. call.op = "write" => WrittenSoFar'
      <3> SUFFICES ASSUME call.op = "write" PROVE WrittenSoFar'
        OBVIOUS
      <3>1. call.value \in Values
        BY <1>1, CallShape DEF CallOK
      <3>2. 0 < Blocks[call.value] /\ 0 <= Blocks[call.value] /\ 0 \in Nat
        BY <3>1, WholeShape
      <3>3. First(call.value, 0) = <<>>
        BY <3>1, <3>2, FirstShape, EmptySeq
      <3> QED BY <1>1, <2>2, <2>3, <2>4, <3>2, <3>3 DEF WrittenSoFar
    <2> QED BY <1>1, <2>2, <2>3, <2>5, <2>6 DEF Before
  <1>3. CASE at = "data" /\ call.op = "write"
    <2>1. WriteAnswered(a) /\ Path \in Paths /\ call.value \in Values
      BY <1>1, <1>3, CallShape DEF Resume, Known, CallOK
    <2>2. handle' = handle /\ at' \in {"data", "close"}
      BY <2>1 DEF WriteAnswered
    <2>3. CASE a = NoAnswer
      <3>1. at' = "close" /\ result' = Failed
        BY <2>1, <2>3 DEF WriteAnswered
      <3> QED BY <1>1, <2>1, <3>1 DEF Before, Reported
    <2>4. CASE a # NoAnswer
      <3> DEFINE n == Len(blocks)
      <3>1. /\ handle \in DOMAIN handles /\ handles[handle].path = Path
            /\ n < Blocks[call.value]
            /\ files[Path] = AFile(First(call.value, n + 1))
        BY <1>3, <2>4 DEF After
      <3>2. /\ blocks' = Append(blocks, Block(call.value, n + 1))
            /\ at' = IF Len(blocks') = Blocks[call.value] THEN "close" ELSE "data"
            /\ result' = IF Len(blocks') = Blocks[call.value] THEN Done ELSE Failed
        BY <2>1, <2>4 DEF WriteAnswered
      <3>3. Block(call.value, n + 1) \in BlockType
        BY <1>1, <2>1 DEF Block, BlockType
      <3>4. Len(blocks') = n + 1
        BY <1>1, <3>2, <3>3, AppendProperties
      <3>5. Blocks[call.value] \in Nat
        BY <2>1, WholeShape
      <3>6. CASE n + 1 = Blocks[call.value]
        <4>1. at' = "close" /\ result' = Done /\ files[Path] = AFile(Whole(call.value))
          BY <2>1, <3>1, <3>2, <3>4, <3>6, FirstAll
        <4> QED BY <1>1, <1>3, <2>1, <4>1 DEF Before, Reported
      <3>7. CASE n + 1 # Blocks[call.value]
        <4>1. at' = "data" /\ Len(blocks') < Blocks[call.value]
          BY <1>1, <3>1, <3>2, <3>4, <3>5, <3>7
        <4>2. WrittenSoFar'
          BY <1>1, <2>2, <3>1, <3>4, <4>1 DEF WrittenSoFar
        <4> QED BY <1>1, <1>3, <2>1, <2>2, <3>1, <4>1, <4>2 DEF Before
      <3> QED BY <3>6, <3>7
    <2> QED BY <2>3, <2>4
  <1>4. CASE at = "data" /\ call.op = "read"
    <2>1. ReadAnswered(a) /\ Path \in Paths
      BY <1>1, <1>4 DEF Resume, Known
    <2>2. handle' = handle /\ at' \in {"data", "close"}
      BY <2>1 DEF ReadAnswered
    <2>3. CASE a = NoAnswer
      <3>1. at' = "close" /\ result' = Failed
        BY <2>1, <2>3, AnswerKinds DEF ReadAnswered
      <3> QED BY <1>1, <2>1, <3>1 DEF Before, Reported
    <2>4. CASE a # NoAnswer
      <3> DEFINE n == Len(blocks)
                 bs == files[Path].blocks
      <3>1. handle \in DOMAIN handles /\ TrueBlock(a)
        BY <1>4, <2>4 DEF After
      <3>2. bs \in Seq(BlockType) /\ Len(bs) \in Nat
        BY <2>1, LenProperties DEF TypeInv, PhoneOK, Entry
      <3>3. CASE a = Empty
        <4>1. ReadSoFar /\ n = Len(bs)
          BY <3>1, <3>3 DEF TrueBlock
        <4>2. blocks = bs
          BY <1>1, <3>2, <4>1, SeqEqual DEF ReadSoFar
        <4>3. at' = "close" /\ result' = [ok |-> TRUE, content |-> AsValue(blocks)]
          BY <2>1, <2>4, <3>3 DEF ReadAnswered, Empty
        <4> QED BY <1>1, <1>4, <2>1, <4>1, <4>2, <4>3 DEF Before, Reported, ReadSoFar
      <3>4. CASE a # Empty
        <4>1. /\ files[Path].kind = "file" /\ n < Len(bs)
              /\ \A i \in 1..n : blocks[i] = bs[i]
              /\ a = ABlock(bs[n + 1])
              /\ handles[handle] = [path |-> Path, position |-> n + 1]
          BY <3>1, <3>4 DEF TrueBlock
        <4>2. a.kind = "block" /\ a.block = bs[n + 1]
          BY <4>1 DEF ABlock
        <4>3. n + 1 \in 1..Len(bs) /\ bs[n + 1] \in BlockType
          BY <1>1, <3>2, <4>1
        <4>4. /\ blocks' = Append(blocks, bs[n + 1])
              /\ at' = IF IsShort(bs[n + 1]) THEN "close" ELSE "data"
              /\ result' = IF IsShort(bs[n + 1]) THEN [ok |-> TRUE, content |-> AsValue(blocks')]
                           ELSE Failed
          BY <2>1, <2>4, <3>4, <4>2 DEF ReadAnswered
        <4>5. /\ blocks' \in Seq(BlockType) /\ Len(blocks') = n + 1
              /\ \A i \in 1..n : blocks'[i] = blocks[i]
              /\ blocks'[n + 1] = bs[n + 1]
          BY <1>1, <4>3, <4>4, AppendProperties
        <4>6. \A i \in 1..(n + 1) : blocks'[i] = bs[i]
          <5> SUFFICES ASSUME NEW i \in 1..(n + 1) PROVE blocks'[i] = bs[i]
            OBVIOUS
          <5>1. i \in 1..n \/ i = n + 1
            BY <1>1
          <5> QED BY <4>1, <4>5, <5>1
        <4>7. CASE IsShort(bs[n + 1])
          <5>1. bs \in Beginnings \cup {<<Junk>>}
            BY <2>1, <4>1 DEF FilesOK
          <5>2. n + 1 = Len(bs)
            BY <4>3, <4>7, <5>1, ShortIsLast
          <5>3. blocks' = bs
            BY <3>2, <4>5, <4>6, <5>2, SeqEqual
          <5>4. at' = "close" /\ result' = [ok |-> TRUE, content |-> AsValue(bs)]
            BY <4>4, <4>7, <5>3
          <5> QED BY <1>1, <1>4, <2>1, <4>1, <5>4 DEF Before, Reported
        <4>8. CASE ~IsShort(bs[n + 1])
          <5>1. at' = "data" /\ n + 1 <= Len(bs)
            BY <4>3, <4>4, <4>8
          <5>2. ReadSoFar'
            BY <1>1, <2>2, <4>1, <4>5, <4>6, <5>1 DEF ReadSoFar
          <5> QED BY <1>1, <1>4, <2>1, <2>2, <3>1, <5>1, <5>2 DEF Before
        <4> QED BY <4>7, <4>8
      <3> QED BY <3>3, <3>4
    <2> QED BY <2>3, <2>4
  <1>5. ~(at \in {"close", "only"})
    BY <1>1 DEF Resume
  <1> QED BY <1>1, <1>2, <1>3, <1>4, <1>5 DEF CallOK

-----------------------------------------------------------------------------
(* What is returned.                                                       *)

AllPaths == Paths \cup LongPaths
Store == [p \in AllPaths |-> IF p \in Paths THEN Stored(files[p]) ELSE NoFile]

LEMMA StoredKind ==
    ASSUME NEW e \in Entry
    PROVE /\ Stored(e) \in Values \cup {NoFile, Folder, Torn}
          /\ Stored(e) = NoFile <=> e.kind = "none"
          /\ Stored(e) = Folder <=> e.kind = "folder"
          /\ e.kind = "file" => Stored(e) = AsValue(e.blocks)
  <1>1. AsValue(e.blocks) \in Values \cup {Torn}
    BY ValueOf
  <1>2. e.kind \in {"none", "folder", "file"}
    BY DEF Entry
  <1> QED BY <1>1, <1>2, StoredAssumption DEF Stored

LEMMA StoredAt ==
    ASSUME TypeInv, NEW p \in Paths
    PROVE files[p] \in Entry /\ Store[p] = Stored(files[p])
  BY DEF TypeInv, PhoneOK, Store, AllPaths

\* What an operation with one exchange returns is true.
LEMMA OnlyReturns ==
    ASSUME TypeInv, call.op \in FileOps, at = "only", NEW a \in Answers \cup {NoAnswer},
           NEW r, r = Outcome(a)
    PROVE /\ r \in Contract!Results
          /\ r.ok => a # NoAnswer /\ Contract!Form(call, r)
          /\ r.ok /\ After(a) /\ a # Error => Contract!Truthful(call, r)
  <1>1. /\ call.op \in {"rename", "make", "delete", "kind", "list"}
        /\ call.op \in {"make", "delete", "kind"} => Path \in Paths
        /\ call.op = "rename" => call.to \in Paths
    <2>1. CallOK
      BY DEF TypeInv
    <2> QED BY <2>1, CallShape DEF CallOK, FileOps, Path
  <1>2. CASE a = NoAnswer
    BY <1>1, <1>2 DEF Outcome, Contract!Results, Contract!Failed, Failed
  <1>3. CASE a # NoAnswer /\ call.op \in {"rename", "make", "delete"}
    <2>1. r = Done
      BY <1>3 DEF Outcome
    <2>2. r \in Contract!Results /\ Contract!Form(call, r)
      BY <1>3, <2>1 DEF Done, Contract!Results, Contract!Done, Contract!Form
    <2>3. ASSUME After(a), a # Error PROVE Contract!Truthful(call, r)
      <3>1. TrueAnswer(a) /\ Path \in Paths
        BY <1>1, <1>3, <2>3 DEF After, Reachable
      <3>2. CASE call.op = "make"
        <4>1. Store[Path] = Folder
          BY <3>1, <3>2, StoredAt, StoredKind DEF TrueAnswer
        <4> QED BY <3>2, <4>1 DEF Contract!Truthful, Store, AllPaths, Path
      <3>3. CASE call.op = "delete"
        <4>1. Store[Path] = NoFile
          BY <3>1, <3>3, StoredAt, StoredKind DEF TrueAnswer
        <4> QED BY <3>3, <4>1 DEF Contract!Truthful, Store, AllPaths, Path
      <3>4. CASE call.op = "rename"
        <4>1. Store[Path] = NoFile /\ Store[call.to] # NoFile
          BY <1>1, <3>1, <3>4, StoredAt, StoredKind DEF TrueAnswer
        <4> QED BY <3>4, <4>1 DEF Contract!Truthful, Store, AllPaths, Path
      <3> QED BY <1>3, <3>2, <3>3, <3>4
    <2> QED BY <1>3, <2>2, <2>3
  <1>4. CASE a # NoAnswer /\ call.op = "kind"
    <2>1. r = [ok |-> TRUE, folder |-> a.kind = "info" /\ a.folder]
      BY <1>4 DEF Outcome
    <2>2. a.kind = "info" => a.folder \in BOOLEAN
      BY <1>4 DEF Answers, Ok, Error, Empty
    <2>3. (a.kind = "info" /\ a.folder) \in BOOLEAN
      BY <2>2
    <2>4. r \in Contract!Results
      BY <2>1, <2>3 DEF Contract!Results
    <2>5. Contract!Form(call, r)
      BY <1>4, <2>1 DEF Contract!Form
    <2>6. ASSUME After(a), a # Error PROVE Contract!Truthful(call, r)
      <3>1. files[Path].kind # "none" /\ a = Info(files[Path].kind) /\ Path \in Paths
        BY <1>1, <1>4, <2>6 DEF After, TrueAnswer
      <3>2. Store[Path] # NoFile /\ (Store[Path] = Folder <=> files[Path].kind = "folder")
        BY <3>1, StoredAt, StoredKind
      <3>3. r.folder <=> files[Path].kind = "folder"
        <4>1. a.kind = "info" /\ (a.folder <=> files[Path].kind = "folder")
          BY <3>1 DEF Info
        <4>2. r.folder = (a.kind = "info" /\ a.folder)
          BY <2>1
        <4> QED BY <4>1, <4>2, Zenon
      <3> QED BY <1>4, <3>2, <3>3 DEF Contract!Truthful, Store, AllPaths, Path
    <2> QED BY <1>4, <2>4, <2>5, <2>6
  <1>5. CASE a # NoAnswer /\ call.op = "list"
    <2>1. r = [ok |-> TRUE, names |-> IF a.kind = "list" THEN a.names ELSE {}]
      BY <1>5 DEF Outcome
    <2>2. a.kind = "list" => a.names \subseteq Paths
      BY <1>5 DEF Answers, Ok, Error, Empty
    <2>3. r \in Contract!Results
      BY <2>1, <2>2 DEF Contract!Results
    <2>4. Contract!Form(call, r)
      BY <1>5, <2>1 DEF Contract!Form
    <2>5. ASSUME After(a), a # Error PROVE Contract!Truthful(call, r)
      <3>1. a = Listing(Present)
        BY <1>1, <1>5, <2>5 DEF After, TrueAnswer
      <3>2. r.names = Present
        BY <2>1, <3>1 DEF Listing
      <3>3. Present = {p \in AllPaths : Store[p] # NoFile}
        <4>1. ASSUME NEW p \in AllPaths PROVE Store[p] # NoFile <=> p \in Present
          <5>1. CASE p \in Paths
            BY <5>1, StoredAt, StoredKind DEF Present
          <5>2. CASE p \notin Paths
            BY <5>2 DEF Store, Present
          <5> QED BY <5>1, <5>2
        <4>2. Present \subseteq AllPaths
          BY DEF Present, AllPaths
        <4> QED BY <4>1, <4>2
      <3> QED BY <1>5, <3>2, <3>3 DEF Contract!Truthful, Store, AllPaths
    <2> QED BY <2>3, <1>5, <2>4, <2>5
  <1> QED BY <1>1, <1>2, <1>3, <1>4, <1>5

\* What an operation on an open file returns was known when it closed the file.
LEMMA CloseReturns ==
    ASSUME TypeInv, Returnable, stage \in {"ask", "head", "mixed", "body"}, at = "close"
    PROVE /\ result \in Contract!Results
          /\ result.ok => Contract!Form(call, result)
          /\ result.ok /\ sure => sound
          /\ result.ok /\ Known /\ Reported => Contract!Truthful(call, result)
  <1>1. /\ \/ result = Failed
           \/ call.op = "write" /\ result = Done
           \/ call.op = "read" /\ \E x \in Values \cup {Torn} : result = [ok |-> TRUE, content |-> x]
        /\ sure /\ ~sound => result = Failed
    BY DEF Returnable
  <1>2. result \in Contract!Results
    <2>1. CASE result \in {Failed, Done}
      BY <2>1 DEF Contract!Results, Contract!Failed, Contract!Done, Failed, Done
    <2>2. CASE \E x \in Values \cup {Torn} : result = [ok |-> TRUE, content |-> x]
      BY <2>2 DEF Contract!Results
    <2> QED BY <1>1, <2>1, <2>2
  <1>3. result.ok => Contract!Form(call, result)
    BY <1>1 DEF Contract!Form, Contract!Done, Failed, Done
  <1>4. result.ok /\ sure => sound
    BY <1>1 DEF Failed
  <1>5. ASSUME result.ok, Known, Reported PROVE Contract!Truthful(call, result)
    <2>1. Path \in Paths /\ result # Failed
      BY <1>5 DEF Known, Failed
    <2>2. Store[Path] = Stored(files[Path]) /\ files[Path] \in Entry
      BY <2>1, StoredAt
    <2>3. CASE call.op = "read"
      <3>1. files[Path].kind = "file" /\ result = [ok |-> TRUE, content |-> AsValue(files[Path].blocks)]
        BY <1>5, <2>1, <2>3 DEF Reported
      <3>2. Store[Path] = result.content
        BY <2>2, <3>1, StoredKind
      <3> QED BY <2>3, <3>2 DEF Contract!Truthful, Store, AllPaths, Path
    <2>4. CASE call.op = "write"
      <3>1. files[Path] = AFile(Whole(call.value)) /\ call.value \in Values
        <4>1. CallOK
          BY DEF TypeInv
        <4> QED BY <1>5, <2>1, <2>4, <4>1, CallShape DEF Reported, CallOK
      <3>2. files[Path].kind = "file" /\ files[Path].blocks = Whole(call.value)
        BY <3>1 DEF AFile
      <3>3. Store[Path] = call.value
        BY <2>2, <3>1, <3>2, StoredKind, ValueWhole
      <3> QED BY <2>4, <3>3 DEF Contract!Truthful, Store, AllPaths, Path
    <2> QED BY <1>5, <2>1, <2>3, <2>4 DEF Reported
  <1> QED BY <1>2, <1>3, <1>4, <1>5

-----------------------------------------------------------------------------
(* What is known stays known while nothing that it is about changes.       *)

subject == <<call, at, handle, blocks, result, files, handles>>

LEMMA AfterSame ==
    ASSUME UNCHANGED subject, NEW a, After(a)
    PROVE /\ head'.answer = a => After(head.answer)'
          /\ wire'[1].answer = a => After(wire[1].answer)'
  <1>1. /\ Path' = Path /\ call' = call /\ at' = at /\ handle' = handle /\ blocks' = blocks
        /\ result' = result /\ files' = files /\ handles' = handles /\ Present' = Present
    BY DEF subject, Path, Present
  <1>2. ReadSoFar' = ReadSoFar /\ Reported' = Reported /\ Reachable' = Reachable
    BY <1>1 DEF ReadSoFar, Reported, Reachable
  <1>3. head'.answer = a => After(head.answer)'
    <2> SUFFICES ASSUME head'.answer = a PROVE After(head.answer)'
      OBVIOUS
    <2> QED BY <1>1, <1>2 DEF After, TrueBlock, TrueAnswer
  <1>4. wire'[1].answer = a => After(wire[1].answer)'
    <2> SUFFICES ASSUME wire'[1].answer = a PROVE After(wire[1].answer)'
      OBVIOUS
    <2> QED BY <1>1, <1>2 DEF After, TrueBlock, TrueAnswer
  <1> QED BY <1>3, <1>4

LEMMA BeforeSame ==
    ASSUME UNCHANGED subject
    PROVE (Before' = Before) /\ (Reachable' = Reachable)
  <1>1. /\ Path' = Path /\ call' = call /\ at' = at /\ handle' = handle /\ blocks' = blocks
        /\ result' = result /\ files' = files /\ handles' = handles
    BY DEF subject, Path
  <1>2. ReadSoFar' = ReadSoFar /\ Reported' = Reported /\ WrittenSoFar' = WrittenSoFar
    BY <1>1 DEF ReadSoFar, Reported, WrittenSoFar
  <1> QED BY <1>1, <1>2 DEF Before, Reachable

-----------------------------------------------------------------------------
(* An exchange goes on or ends.                                            *)

Within == {"ask", "head", "mixed", "body"}
NotError == (Answers \ {Error}) \cup {NoAnswer}

\* It ends with a, which is true when answers are in step.
EndsWith(a) ==
    /\ Resume(a)
    /\ sound => /\ Known
                /\ a # NoAnswer => After(a)
                /\ at = "open" => a = NoAnswer \/ a.kind = "handle"

LEMMA AnsweredEnds ==
    ASSUME NEW a \in Answers, Answered(a), sound => Known /\ After(a) /\ Fits(a)
    PROVE \E b \in NotError : EndsWith(b)
  <1>1. CASE a = Error
    BY <1>1 DEF Answered, EndsWith, NotError
  <1>2. CASE a # Error
    <2>1. a \in NotError /\ Resume(a)
      BY <1>2 DEF Answered, NotError
    <2>2. a.kind = "error" => a = Error
      BY DEF Answers, Error, Ok, Empty
    <2> QED BY <1>2, <2>1, <2>2 DEF EndsWith, Fits
  <1> QED BY <1>1, <1>2

LEMMA HeadEnds ==
    ASSUME TypeInv, StepInv, FilesInv, ReceiveHead
    PROVE \/ \E a \in NotError : EndsWith(a)
          \/ \E next \in Within \ {"ask"} : Await(next) /\ (sound => FilesKnown')
  <1>1. /\ stage = "head" /\ call.op \in FileOps /\ Take
        /\ UNCHANGED <<files, handles, afcRequests>>
    BY StageCall DEF ReceiveHead, Take, phone
  <1>2. NextFrame.type = "head" => NextFrame.answer \in Answers
    BY <1>1, TakeType, FrameShape DEF Headers
  <1>3. sound => /\ NextFrame = wire[1] /\ NextFrame.type = "head"
                 /\ Fits(NextFrame.answer) /\ After(NextFrame.answer) /\ Known
    <2> SUFFICES ASSUME sound
                 PROVE /\ NextFrame = wire[1] /\ NextFrame.type = "head"
                       /\ Fits(NextFrame.answer) /\ After(NextFrame.answer) /\ Known
      OBVIOUS
    <2>1. Answering /\ NextFrame = wire[1]
      BY <1>1, TakeRests DEF StepInv, OwnAnswer, Waiting, Take
    <2>2. After(NextFrame.answer)
      BY <1>1, <2>1 DEF FilesInv, FilesKnown, Answering
    <2> QED BY <2>1, <2>2 DEF Answering, After, Reachable, Known
  <1>4. CASE Resume(NoAnswer)
    <2>1. NoAnswer \in NotError
      BY DEF NotError
    <2> QED BY <1>3, <1>4, <2>1 DEF EndsWith
  <1>5. CASE NextFrame.type = "head" /\ Answered(NextFrame.answer)
    BY <1>2, <1>3, <1>5, AnsweredEnds
  <1>6. CASE NextFrame.type = "head" /\ Await("body") /\ head' = NextFrame
    <2>1. stage' = "body" /\ UNCHANGED subject /\ sound' = sound
      BY <1>1, <1>6 DEF Await, ops, locals, subject
    <2>2. sound => After(head.answer)'
      BY <1>3, <1>6, <2>1, AfterSame
    <2>3. sound => FilesKnown'
      BY <2>1, <2>2 DEF FilesKnown
    <2> QED BY <1>6, <2>3 DEF Within
  <1>7. CASE NextFrame.type # "head" /\ Await("mixed")
    BY <1>3, <1>7 DEF Within
  <1> QED BY <1>1, <1>4, <1>5, <1>6, <1>7 DEF ReceiveHead

LEMMA BodyEnds ==
    ASSUME TypeInv, StepInv, FilesInv, ReceiveBody
    PROVE \/ \E a \in NotError : EndsWith(a)
          \/ \E next \in Within \ {"ask"} : Await(next) /\ (sound => FilesKnown')
  <1>1. /\ stage = "body" /\ call.op \in FileOps /\ Take
        /\ UNCHANGED <<files, handles, afcRequests>>
    BY StageCall DEF ReceiveBody, Take, phone
  <1>2. head \in Headers /\ head.answer \in Answers
    BY <1>1 DEF TypeInv, HeadOK, Headers
  <1>3. sound => NextFrame.type = "rest" /\ Fits(head.answer) /\ After(head.answer) /\ Known
    <2> SUFFICES ASSUME sound
                 PROVE NextFrame.type = "rest" /\ Fits(head.answer) /\ After(head.answer) /\ Known
      OBVIOUS
    <2>1. Finishing /\ After(head.answer)
      BY <1>1 DEF StepInv, OwnAnswer, FilesInv, FilesKnown
    <2>2. NextFrame = wire[1] /\ Len(wire) \in Nat \ {0}
      BY <1>1, TakeRests
    <2> QED BY <2>1, <2>2 DEF Finishing, Rests, Rest, After, Reachable, Known
  <1>4. CASE Answered(head.answer)
    BY <1>2, <1>3, <1>4, AnsweredEnds
  <1>5. CASE Await("body") /\ head' = [head EXCEPT !.rest = @ - 1]
    <2>1. stage' = "body" /\ UNCHANGED subject /\ sound' = sound
      BY <1>1, <1>5 DEF Await, ops, locals, subject
    <2>2. head'.answer = head.answer
      BY <1>2, <1>5 DEF Headers
    <2>3. sound => After(head.answer)'
      BY <1>3, <2>1, <2>2, AfterSame
    <2>4. sound => FilesKnown'
      BY <2>1, <2>3 DEF FilesKnown
    <2> QED BY <1>5, <2>4 DEF Within
  <1>6. CASE NextFrame.type # "rest" /\ Answered(Ok)
    BY <1>3, <1>6, AnswerKinds, AnsweredEnds
  <1>7. CASE NextFrame.type # "rest" /\ Await("body")
    BY <1>3, <1>7 DEF Within
  <1> QED BY <1>1, <1>4, <1>5, <1>6, <1>7 DEF ReceiveBody

LEMMA FailsEnd ==
    ASSUME TypeInv, StepInv, FilesInv, ReceiveMixed \/ ReceiveFails \/ AskFails
    PROVE \/ \E a \in NotError : EndsWith(a)
          \/ \E next \in Within \ {"ask"} : Await(next) /\ (sound => FilesKnown')
  <1>1. sound => Known
    <2> SUFFICES ASSUME sound PROVE Known
      OBVIOUS
    <2>1. stage \in {"ask", "head", "body"} /\ FilesKnown
      BY DEF StepInv, OwnAnswer, ReceiveMixed, ReceiveFails, AskFails, FilesInv
    <2> QED BY <2>1 DEF FilesKnown, Before, After, Reachable, Known
  <1>2. CASE Resume(NoAnswer)
    <2>1. NoAnswer \in NotError
      BY DEF NotError
    <2> QED BY <1>1, <1>2, <2>1 DEF EndsWith
  <1>3. CASE ReceiveMixed /\ Await("mixed")
    BY <1>3 DEF Within, ReceiveMixed, StepInv, OwnAnswer
  <1> QED BY <1>2, <1>3 DEF ReceiveMixed, ReceiveFails, AskFails

\* What is returned of an exchange that has ended, or kept for the next one.
LEMMA EndReturns ==
    ASSUME TypeInv, Returnable, call.op \in FileOps, NEW a \in NotError, Resume(a)
    PROVE Returnable'
  <1>1. /\ CallOK /\ CallOK' /\ stage' \in {"idle", "ask"} /\ sure' = sure
        /\ stage \in Within
    <2>1. a \in Answers \cup {NoAnswer} /\ CallOK /\ LocalsOK
      BY DEF NotError, TypeInv
    <2> QED BY <2>1, ResumeCall DEF CallOK, Within
  <1> USE DEF Leave, Go
  <1>2. CASE at = "open"
    <2>1. OpenAnswered(a)
      BY <1>2 DEF Resume
    <2>2. CASE stage' = "idle"
      <3>1. blocks' = <<>> /\ call' = NoCall
        BY <2>1, <2>2 DEF OpenAnswered
      <3> QED BY <2>2, <3>1, NoCallOp DEF Returnable
    <2>3. CASE stage' = "ask"
      <3>1. at' = "data" /\ call.op # "rename" /\ call' = call /\ a # NoAnswer
        BY <1>1, <1>2, <2>1, <2>3 DEF OpenAnswered, CallOK
      <3>2. sound' = sound /\ ~(sure /\ ~sound)
        <4>1. sound' = (sound /\ (a = NoAnswer => Quiet'))
          BY DEF Resume
        <4>2. ~(sure /\ ~sound)
          BY <1>1, <1>2 DEF Returnable, Within
        <4>3. sound \in BOOLEAN
          BY DEF TypeInv, FlagsOK
        <4> QED BY <3>1, <4>1, <4>2, <4>3
      <3> QED BY <1>1, <3>1, <3>2 DEF Returnable
    <2> QED BY <1>1, <2>2, <2>3
  <1>3. CASE at = "data"
    <2>1. /\ call.op = "write" => WriteAnswered(a)
          /\ call.op = "read" => ReadAnswered(a)
          /\ call.op \in {"read", "write"}
      BY <1>1, <1>3 DEF Resume, CallOK
    <2>2. stage' = "ask" /\ at' \in {"data", "close"} /\ call' = call
      BY <2>1 DEF WriteAnswered, ReadAnswered
    <2>3. a = NoAnswer => at' = "close" /\ result' = Failed
      BY <2>1, AnswerKinds DEF WriteAnswered, ReadAnswered
    <2>4. sure /\ ~sound' => a = NoAnswer
      <3>1. sound' = (sound /\ (a = NoAnswer => Quiet'))
        BY DEF Resume
      <3>2. ~(sure /\ ~sound)
        BY <1>1, <1>3 DEF Returnable, Within
      <3> QED BY <3>1, <3>2
    <2>5. at' = "close" =>
            \/ result' = Failed
            \/ call.op = "write" /\ result' = Done
            \/ call.op = "read" /\ \E x \in Values \cup {Torn} : result' = [ok |-> TRUE, content |-> x]
      <3>1. CASE call.op = "write"
        BY <2>1, <3>1 DEF WriteAnswered
      <3>2. CASE call.op = "read"
        <4>1. ReadAnswered(a)
          BY <2>1, <3>2
        <4>2. result' = Failed \/ \E bs : result' = [ok |-> TRUE, content |-> AsValue(bs)]
          BY <4>1 DEF ReadAnswered
        <4> QED BY <3>2, <4>2, ValueOf
      <3> QED BY <2>1, <3>1, <3>2
    <2>6. call'.op # "rename"
      BY <2>1, <2>2
    <2> QED BY <1>1, <2>2, <2>3, <2>4, <2>5, <2>6 DEF Returnable
  <1>4. CASE at \in {"close", "only"}
    <2>1. blocks' = <<>> /\ call' = NoCall /\ stage' = "idle"
      BY <1>4 DEF Resume
    <2> QED BY <2>1, NoCallOp DEF Returnable
  <1> QED BY <1>1, <1>2, <1>3, <1>4 DEF CallOK

LEMMA EndFiles ==
    ASSUME TypeInv, FilesInv, call.op \in FileOps, UNCHANGED <<files, handles>>,
           NEW a \in NotError, EndsWith(a)
    PROVE FilesInv'
  <1>1. Resume(a) /\ a \in (Answers \ {Error}) \cup {NoAnswer}
    BY DEF EndsWith, NotError
  <1>2. Returnable'
    BY <1>1, EndReturns DEF FilesInv
  <1>3. FilesOK'
    BY DEF FilesInv, FilesOK
  <1>4. ASSUME sound' PROVE FilesKnown'
    <2>1. sound
      BY <1>1, <1>4 DEF Resume
    <2>2. stage' = "ask" => Before'
      BY <1>1, <2>1, ResumeFiles DEF EndsWith, FilesInv
    <2>3. stage' \in {"idle", "ask"}
      BY <1>1, ResumeCall DEF TypeInv
    <2> QED BY <2>2, <2>3 DEF FilesKnown
  <1> QED BY <1>2, <1>3, <1>4 DEF FilesInv

\* The loop of Dispatch goes on.
LEMMA GoesOn ==
    ASSUME TypeInv, FilesInv, UNCHANGED <<files, handles>>, stage \in Within,
           NEW next \in Within \ {"ask"}, Await(next), sound => FilesKnown'
    PROVE FilesInv'
  <1>1. /\ stage' \in Within
        /\ UNCHANGED <<call, at, sure, handle, blocks, result, sound>>
    BY DEF Await, Within, ops, locals
  <1>2. Returnable'
    BY <1>1 DEF FilesInv, Returnable, Within, Path
  <1>3. FilesOK'
    BY DEF FilesInv, FilesOK
  <1> QED BY <1>1, <1>2, <1>3 DEF FilesInv

\* Every step of an exchange.
LEMMA ExchangeEnds ==
    ASSUME TypeInv, StepInv, FilesInv,
           ReceiveHead \/ ReceiveBody \/ ReceiveMixed \/ ReceiveFails \/ AskFails
    PROVE /\ stage \in Within /\ call.op \in FileOps /\ UNCHANGED <<files, handles>>
          /\ \/ \E a \in NotError : EndsWith(a)
             \/ \E next \in Within \ {"ask"} : Await(next) /\ (sound => FilesKnown')
  <1>1. stage \in Within
    BY DEF ReceiveHead, ReceiveBody, ReceiveMixed, ReceiveFails, AskFails, Within
  <1>2. UNCHANGED <<files, handles>>
    BY DEF ReceiveHead, ReceiveBody, ReceiveMixed, ReceiveFails, AskFails, Take, NoFrame, phone
  <1> QED BY <1>1, <1>2, StageCall, HeadEnds, BodyEnds, FailsEnd DEF Within

LEMMA ExchangeFiles ==
    ASSUME TypeInv, StepInv, FilesInv,
           ReceiveHead \/ ReceiveBody \/ ReceiveMixed \/ ReceiveFails \/ AskFails
    PROVE FilesInv'
  BY ExchangeEnds, EndFiles, GoesOn

-----------------------------------------------------------------------------
(* The other steps of the host, and those of the phone that leave its      *)
(* files alone.                                                            *)

LEMMA BeginFiles ==
    ASSUME TypeInv, FilesInv, BeginCall
    PROVE FilesInv' /\ call = NoCall /\ call' \in FileCalls
  <1>1. \E c \in FileCalls : Begin(c) /\ (c.op = "rename" => c.path # c.to)
    <2> DEFINE New(c) == c \in FileCalls /\ Begin(c) /\ (c.op = "rename" => c.path # c.to)
    <2>1. ASSUME NEW p \in Paths \cup LongPaths, NEW v \in Values,
                 Begin([op |-> "write", value |-> v, path |-> p])
          PROVE New([op |-> "write", value |-> v, path |-> p])
      BY <2>1 DEF FileCalls
    <2>2. ASSUME NEW p \in Paths \cup LongPaths, NEW q \in Paths, p # q,
                 Begin([op |-> "rename", path |-> p, to |-> q])
          PROVE New([op |-> "rename", path |-> p, to |-> q])
      BY <2>2 DEF FileCalls
    <2>3. ASSUME NEW p \in Paths \cup LongPaths, Begin([op |-> "read", path |-> p])
          PROVE New([op |-> "read", path |-> p])
      BY <2>3 DEF FileCalls
    <2>4. ASSUME NEW o \in {"make", "delete", "kind"}, NEW p \in Paths,
                 Begin([op |-> o, path |-> p])
          PROVE New([op |-> o, path |-> p])
      BY <2>4 DEF FileCalls
    <2>5. Begin([op |-> "list"]) => New([op |-> "list"])
      BY DEF FileCalls
    <2>6. \E c : New(c)
      <3> HIDE DEF New
      <3> QED BY <2>1, <2>2, <2>3, <2>4, <2>5, Zenon DEF BeginCall
    <2> QED BY <2>6
  <1>2. PICK c \in FileCalls : Begin(c) /\ (c.op = "rename" => c.path # c.to)
    BY <1>1
  <1>3. /\ stage = "idle" /\ stage' = "ask" /\ at' \in {"open", "only"} /\ call' = c
        /\ sure' = sound /\ sound' = sound /\ result' = Failed /\ blocks' = blocks
        /\ UNCHANGED <<files, handles>>
    BY <1>2 DEF Begin, Ready, phone
  <1>4. at = "only" /\ call = NoCall
    BY <1>3, CallShape DEF TypeInv, CallOK
  <1>5. Returnable'
    BY <1>2, <1>3, <1>4 DEF FilesInv, Returnable, Path
  <1>6. FilesKnown'
    BY <1>3 DEF FilesKnown, Before
  <1>7. FilesOK'
    BY <1>3 DEF FilesInv, FilesOK
  <1> QED BY <1>3, <1>4, <1>5, <1>6, <1>7 DEF FilesInv

LEMMA TooLongFiles == ASSUME TypeInv, FilesInv, PathTooLong PROVE FilesInv'
  <1>1. /\ stage' = "idle" /\ call' = NoCall /\ blocks' = <<>> /\ UNCHANGED <<files, handles>>
    BY DEF PathTooLong, Leave, phone
  <1> QED BY <1>1, NoCallOp DEF FilesInv, Returnable, FilesOK, FilesKnown

LEMMA AskFiles == ASSUME TypeInv, StepInv, FilesInv, Ask PROVE FilesInv'
  <1>1. /\ stage = "ask" /\ stage' = "head" /\ afcRequests' = Append(afcRequests, Request)
        /\ ~TooLong
        /\ UNCHANGED <<sure, sound>> /\ UNCHANGED subject
    BY DEF Ask, ops, locals, phone, subject
  <1>2. Request' = Request
    BY <1>1 DEF Request, subject
  <1>3. Returnable'
    BY <1>1 DEF FilesInv, Returnable, subject, Path
  <1>4. FilesOK'
    BY <1>1 DEF FilesInv, FilesOK, subject
  <1>5. ASSUME sound PROVE FilesKnown'
    <2>1. Asked' = Request /\ afcRequests' # <<>>
      BY <1>1, <1>5 DEF StepInv, OwnAnswer, Quiet, Asked
    <2>2. Before
      BY <1>1, <1>5 DEF FilesInv, FilesKnown
    <2>3. Reachable
      <3>1. CallOK /\ call.op \in FileOps
        BY <1>1, StageCall DEF TypeInv
      <3>2. at # "only" \/ call.op = "rename" => Path \in Paths \cup LongPaths
        BY <3>1, CallShape DEF CallOK, FileOps, Path
      <3>3. at \in {"data", "close"} => Path \in Paths
        BY <2>2 DEF Before
      <3> QED BY <1>1, <3>1, <3>2, <3>3 DEF Reachable, TooLong, Path, CallOK
    <2>4. Before' /\ Reachable'
      BY <1>1, <2>2, <2>3, BeforeSame
    <2> QED BY <1>1, <1>2, <2>1, <2>4 DEF FilesKnown
  <1> QED BY <1>1, <1>3, <1>4, <1>5 DEF FilesInv

\* The poll of the lockdown client uses none of an operation's variables.
LEMMA PollFiles ==
    ASSUME TypeInv, FilesInv,
           \/ BeginPoll \/ Query \/ QueryFails
           \/ PollLength \/ PollText \/ PollDrain \/ PollFails
    PROVE /\ FilesInv' /\ UNCHANGED <<files, sure>>
          /\ call.op \in Polls \cup {"none"} /\ call'.op \in Polls \cup {"none"}
          /\ \/ call = NoCall /\ result' = Failed /\ sound' = sound
             \/ UNCHANGED <<result, sound>>
             \/ UNCHANGED result /\ sound' = FALSE
  <1>1. UNCHANGED <<files, handles>>
    BY DEF BeginPoll, Query, QueryFails, PollLength, PollText, PollDrain, PollFails,
           Take, NoFrame, phone
  <1>2. stage \in {"idle", "query", "length", "text", "drain"}
    BY DEF BeginPoll, Ready, Query, QueryFails, PollLength, PollText, PollDrain, PollFails
  <1>3. \/ BeginPoll
        \/ \E ok \in BOOLEAN : PollEnds(ok)
        \/ \E next \in {"length", "text", "drain"} : PollAwaits(next)
    BY DEF Query, QueryFails, PollLength, PollText, PollDrain, PollFails
  <1>4. /\ stage' \in {"idle", "query", "length", "text", "drain"}
        /\ UNCHANGED <<at, sure, blocks>>
        /\ call'.op \in Polls \cup {"none"} \cup {call.op}
    BY <1>3, NoCallOp DEF BeginPoll, PollEnds, PollAwaits, ops, locals
  <1>5. call.op \in Polls \cup {"none"}
    BY <1>2, CallShape DEF TypeInv, CallOK, FileOps, Polls
  <1>6. call'.op \in Polls \cup {"none"} /\ call'.op # "rename"
    BY <1>4, <1>5 DEF Polls
  <1>7. Returnable'
    BY <1>4, <1>6 DEF FilesInv, Returnable
  <1>8. FilesOK' /\ FilesKnown'
    BY <1>1, <1>4 DEF FilesInv, FilesOK, FilesKnown
  <1>9. \/ call = NoCall /\ result' = Failed /\ sound' = sound
        \/ UNCHANGED <<result, sound>>
        \/ UNCHANGED result /\ sound' = FALSE
    <2>1. CASE BeginPoll
      BY <2>1, CallShape DEF BeginPoll, Ready, TypeInv, CallOK
    <2>2. CASE \E ok \in BOOLEAN : PollEnds(ok)
      <3>1. PICK ok \in BOOLEAN : PollEnds(ok)
        BY <2>2
      <3>2. result' = result /\ sound' = (sound /\ (ok \/ Quiet'))
        BY <3>1 DEF PollEnds, locals
      <3>3. sound \in BOOLEAN
        BY DEF TypeInv, FlagsOK
      <3> QED BY <3>2, <3>3
    <2>3. CASE \E next \in {"length", "text", "drain"} : PollAwaits(next)
      BY <2>3 DEF PollAwaits, locals
    <2> QED BY <1>3, <2>1, <2>2, <2>3
  <1> QED BY <1>1, <1>4, <1>5, <1>6, <1>7, <1>8, <1>9 DEF FilesInv

LEMMA ReconnectFiles ==
    ASSUME TypeInv, FilesInv, Reconnect
    PROVE /\ FilesInv' /\ UNCHANGED <<call, sure, result, files>>
          /\ sound' = TRUE /\ call = NoCall
  <1>1. stage = "idle" /\ call = NoCall
    BY CallShape DEF Reconnect, TypeInv, FlagsOK, CallOK
  <1>2. UNCHANGED <<stage, at, sure, call, blocks, result, files>> /\ sound' = TRUE
    BY DEF Reconnect, ops, locals
  <1> QED BY <1>1, <1>2 DEF FilesInv, Returnable, FilesOK, FilesKnown, Path

LEMMA SendFiles ==
    ASSUME TypeInv, StepInv, FilesInv, SendRest \/ ServeLockdown
    PROVE FilesInv' /\ UNCHANGED <<call, sure, result, files, sound>>
  <1>1. UNCHANGED <<stage, head, sure, sound, afcRequests>> /\ UNCHANGED subject
    BY DEF SendRest, ServeLockdown, ops, locals, phone, subject
  <1>2. Returnable' /\ FilesOK'
    BY <1>1 DEF FilesInv, Returnable, FilesOK, subject, Path
  <1>3. ASSUME sound PROVE FilesKnown'
    <2>1. FilesKnown /\ OwnAnswer
      BY <1>3 DEF FilesInv, StepInv
    <2>2. Request' = Request /\ Asked' = Asked /\ Before' = Before /\ Reachable' = Reachable
      BY <1>1, BeforeSame DEF Request, Asked, subject
    <2>3. stage = "head" /\ afcRequests = <<>> => wire'[1] = wire[1]
      <3> SUFFICES ASSUME stage = "head", afcRequests = <<>> PROVE wire'[1] = wire[1]
        OBVIOUS
      <3>1. wire \in Seq(Frames) /\ wire # <<>> /\ ldAnswers = <<>>
        <4>1. Len(<<>>) = 0
          OBVIOUS
        <4> QED BY <2>1, <4>1 DEF OwnAnswer, Waiting, Answering, TypeInv, PipeOK
      <3>2. wire' = Append(wire, Rest) /\ Rest \in Frames
        BY <3>1 DEF SendRest, ServeLockdown, Frames
      <3>3. Len(wire) \in Nat /\ Len(wire) # 0
        BY <3>1, EmptySeq
      <3> QED BY <3>1, <3>2, <3>3, AppendProperties
    <2>4. stage = "head" /\ afcRequests = <<>> => After(wire[1].answer)'
      <3> SUFFICES ASSUME stage = "head", afcRequests = <<>> PROVE After(wire[1].answer)'
        OBVIOUS
      <3>1. After(wire[1].answer) /\ wire'[1].answer = wire[1].answer
        BY <2>1, <2>3 DEF FilesKnown
      <3> QED BY <1>1, <3>1, AfterSame
    <2>5. stage = "body" => After(head.answer)'
      <3> SUFFICES ASSUME stage = "body" PROVE After(head.answer)'
        OBVIOUS
      <3>1. After(head.answer) /\ head'.answer = head.answer
        BY <1>1, <2>1 DEF FilesKnown
      <3> QED BY <1>1, <3>1, AfterSame
    <2> QED BY <1>1, <2>1, <2>2, <2>4, <2>5 DEF FilesKnown
  <1> QED BY <1>1, <1>2, <1>3 DEF FilesInv, subject

-----------------------------------------------------------------------------
(* The phone does what it is asked, and answers with what is true.         *)

LEMMA NothingWritten ==
    /\ <<>> \in Beginnings /\ AFile(<<>>) \in Entry
    /\ Stored(AFile(<<>>)) = Torn
  <1>1. PICK v \in Values : TRUE
    BY AfcAssumption
  <1>2. 0 < Blocks[v] /\ 0 <= Blocks[v] /\ 0 \in Nat
    BY WholeShape
  <1>3. First(v, 0) = <<>> /\ First(v, 0) \in Beginnings /\ AsValue(First(v, 0)) = Torn
    BY <1>2, FirstShape, ValueFirst, EmptySeq
  <1>4. AFile(<<>>) \in Entry /\ AFile(<<>>).kind = "file" /\ AFile(<<>>).blocks = <<>>
    BY DEF AFile, Entry
  <1> QED BY <1>3, <1>4, StoredKind

\* Whatever the phone does, its files stay as they are kept apart.
LEMMA ServeFilesOK == ASSUME TypeInv, FilesOK, ServeAfc PROVE FilesOK'
  <1> USE DEF FilesOK
  <1>0. afcRequests # <<>> /\ PhoneOK
    BY DEF ServeAfc, TypeInv
  <1>1. CASE files' = files
    BY <1>1
  <1>2. CASE ServeOpen
    <2>1. Asked.path \in Paths /\ files \in [Paths -> Entry]
      BY <1>0, <1>2, AskedShape DEF ServeOpen, PhoneOK
    <2>2. files' = files \/ files' = [files EXCEPT ![Asked.path] = AFile(<<>>)]
      BY <1>2 DEF ServeOpen
    <2>3. AFile(<<>>).blocks = <<>>
      BY DEF AFile
    <2> QED BY <1>1, <2>1, <2>2, <2>3, NothingWritten
  <1>3. CASE ServeWrite
    <2>1. Opened.path \in Paths /\ files \in [Paths -> Entry] /\ files[Opened.path] \in Entry
      BY <1>0, <1>3, OpenedShape DEF ServeWrite, PhoneOK
    <2> DEFINE bs == Extended(files[Opened.path].blocks, Asked.block)
    <2>2. bs \in Beginnings \cup {<<Junk>>}
      BY DEF Extended
    <2>3. files' = files \/ files' = [files EXCEPT ![Opened.path].blocks = bs]
      BY <1>3 DEF ServeWrite
    <2>4. [files[Opened.path] EXCEPT !.blocks = bs].blocks = bs
      BY <2>1 DEF Entry
    <2> HIDE DEF bs
    <2>5. files' = [files EXCEPT ![Opened.path].blocks = bs] =>
            \A p \in Paths : files'[p] = files[p] \/ files'[p].blocks = bs
      BY <2>1, <2>4
    <2> QED BY <1>1, <2>2, <2>3, <2>5
  <1>4. CASE ServeChange
    <2>1. /\ files \in [Paths -> Entry]
          /\ Asked.type \in {"MakeDirectory", "RemovePath", "RenamePath"} => Asked.path \in Paths
          /\ Asked.type = "RenamePath" => Asked.to \in Paths
      BY <1>0, AskedShape DEF PhoneOK
    <2>2. AFolder.kind = "folder" /\ Nothing.kind = "none"
      BY DEF AFolder, Nothing
    <2>3. CASE Asked.type \in {"MakeDirectory", "RemovePath"}
                 /\ (\E e \in {AFolder, Nothing} : files' = [files EXCEPT ![Asked.path] = e])
      BY <2>1, <2>2, <2>3
    <2>4. CASE Asked.type = "RenamePath"
                 /\ files' = [files EXCEPT ![Asked.path] = Nothing, ![Asked.to] = files[Asked.path]]
      BY <2>1, <2>2, <2>4
    <2> QED BY <1>4, <2>3, <2>4 DEF ServeChange
  <1> QED BY <1>1, <1>2, <1>3, <1>4
          DEF ServeAfc, ServeRead, ServeClose, ServeList, ServeInfo, Refuse, phone

\* What a request stands for.
LEMMA AskedCall ==
    ASSUME CallOK, call.op \in FileOps, Asked = Request
    PROVE /\ Asked.type = "FileOpen" =>
               at = "open" /\ Asked.path = Path /\ (Asked.write <=> call.op = "write")
          /\ Asked.type = "FileRead" =>
               at = "data" /\ call.op = "read" /\ Asked.handle = handle
          /\ Asked.type = "FileWrite" =>
               /\ at = "data" /\ call.op = "write" /\ Asked.handle = handle
               /\ Asked.block = Block(call.value, Len(blocks) + 1)
          /\ Asked.type = "FileClose" => at = "close"
          /\ Asked.type = "ReadDirectory" => at = "only" /\ call.op = "list"
          /\ Asked.type = "MakeDirectory" => at = "only" /\ call.op = "make" /\ Asked.path = Path
          /\ Asked.type = "RemovePath" => at = "only" /\ call.op = "delete" /\ Asked.path = Path
          /\ Asked.type = "GetFileInfo" => at = "only" /\ call.op = "kind" /\ Asked.path = Path
          /\ Asked.type = "RenamePath" =>
               at = "only" /\ call.op = "rename" /\ Asked.path = Path /\ Asked.to = call.to
  <1>1. CASE at = "open"
    <2>1. Asked = [type |-> "FileOpen", path |-> call.path, write |-> call.op = "write"]
      BY <1>1 DEF Request, CallOK
    <2>2. Asked.type = "FileOpen" /\ Asked.path = Path /\ Asked.write = (call.op = "write")
      BY <2>1 DEF Path
    <2> QED BY <1>1, <2>2, Zenon
  <1>2. CASE at = "data" /\ call.op = "read"
    BY <1>2 DEF Request
  <1>3. CASE at = "data" /\ call.op = "write"
    BY <1>3 DEF Request
  <1>4. CASE at = "close"
    BY <1>4 DEF Request, CallOK
  <1>5. CASE at = "only"
    <2>1. call.op \in {"list", "make", "delete", "kind", "rename"}
      BY <1>5 DEF CallOK, FileOps
    <2> QED BY <1>5, <2>1 DEF Request, Path
  <1> QED BY <1>1, <1>2, <1>3, <1>4, <1>5 DEF CallOK

\* One entry of the phone's files changes.
LEMMA StoreSet ==
    ASSUME TypeInv, NEW p \in Paths, NEW e \in Entry, files' = [files EXCEPT ![p] = e]
    PROVE /\ Store' = [Store EXCEPT ![p] = Stored(e)]
          /\ files'[p] = e
  <1>1. files \in [Paths -> Entry]
    BY DEF TypeInv, PhoneOK
  <1>2. \A q \in Paths : files'[q] = IF q = p THEN e ELSE files[q]
    BY <1>1
  <1>3. Store' = [q \in AllPaths |-> IF q \in Paths THEN Stored(files'[q]) ELSE NoFile]
    BY DEF Store, Stored, AsValue, Whole, AllPaths
  <1>4. [Store EXCEPT ![p] = Stored(e)]
          = [q \in AllPaths |-> IF q = p THEN Stored(e)
                                ELSE IF q \in Paths THEN Stored(files[q]) ELSE NoFile]
    BY DEF Store, AllPaths
  <1>5. ASSUME NEW q \in AllPaths
        PROVE (IF q \in Paths THEN Stored(files'[q]) ELSE NoFile)
              = (IF q = p THEN Stored(e)
                 ELSE IF q \in Paths THEN Stored(files[q]) ELSE NoFile)
    BY <1>2
  <1> QED BY <1>2, <1>3, <1>4, <1>5

LEMMA EffectsOf ==
    Contract!Effects(call) =
        CASE call.op = "write" -> {[Store EXCEPT ![Path] = x] : x \in {Torn, call.value}}
          [] call.op = "make" -> {[Store EXCEPT ![Path] = Folder]}
          [] call.op = "delete" -> {[Store EXCEPT ![Path] = NoFile]}
          [] call.op = "rename" ->
               IF Store[Path] = NoFile THEN {}
               ELSE {[Store EXCEPT ![Path] = NoFile, ![call.to] = Store[Path]]}
          [] OTHER -> {}
  BY DEF Contract!Effects, Store, AllPaths, Path

\* What a request of an operation in step does: what the contract allows, and
\* the answer tells what was done.
Effect == Store' = Store \/ Store' \in Contract!Effects(call)
Served == \E a, rest, big : Reply(a, rest, big) /\ After(a)'
InPlace ==
    /\ TypeInv /\ Returnable /\ FilesOK
    /\ afcRequests # <<>> /\ Asked = Request /\ Before /\ Reachable
    /\ call.op \in FileOps
    /\ UNCHANGED <<call, at, handle, blocks, result>>

LEMMA StoreSame ==
    ASSUME UNCHANGED files
    PROVE Store' = Store
  BY DEF Store, Stored, AsValue, Whole, AllPaths

LEMMA OpenServed == ASSUME InPlace, ServeOpen PROVE Served /\ Effect
  <1>0. /\ at = "open" /\ Asked.path = Path /\ (Asked.write <=> call.op = "write")
        /\ Path \in Paths
    BY AskedCall DEF InPlace, ServeOpen, TypeInv, Reachable
  <1>1. /\ TypeInv /\ Path' = Path /\ UNCHANGED <<call, at, handle, blocks, result>>
        /\ files \in [Paths -> Entry]
    BY DEF InPlace, Path, TypeInv, PhoneOK
  <1>2. PICK h \in 1..MaxHandles :
          /\ handles' = [g \in DOMAIN handles \cup {h} |->
                            IF g = h THEN [path |-> Asked.path, position |-> 0]
                            ELSE handles[g]]
          /\ Reply(AHandle(h), 0, FALSE)
    BY DEF ServeOpen
  <1>3. AHandle(h).handle = h /\ h \in DOMAIN handles'
        /\ handles'[h] = [path |-> Path, position |-> 0]
    BY <1>0, <1>2 DEF AHandle
  <1>4. /\ files'[Path].kind = "file"
        /\ call.op = "write" => files'[Path] = AFile(<<>>)
        /\ Effect
    <2>1. CASE call.op = "write"
      <3>1. files' = [files EXCEPT ![Path] = AFile(<<>>)]
        BY <1>0, <2>1 DEF ServeOpen
      <3>2. files'[Path] = AFile(<<>>) /\ Store' = [Store EXCEPT ![Path] = Torn]
        BY <1>0, <1>1, <3>1, NothingWritten, StoreSet
      <3>3. AFile(<<>>).kind = "file"
        BY DEF AFile
      <3> QED BY <2>1, <3>2, <3>3, EffectsOf DEF Effect
    <2>2. CASE call.op # "write"
      <3>1. files' = files /\ files[Path].kind = "file"
        BY <1>0, <2>2 DEF ServeOpen
      <3> QED BY <2>2, <3>1, StoreSame DEF Effect
    <2> QED BY <2>1, <2>2
  <1>5. After(AHandle(h))'
    BY <1>0, <1>1, <1>3, <1>4 DEF After, Reachable
  <1> QED BY <1>2, <1>4, <1>5 DEF Served

LEMMA ReadServed == ASSUME InPlace, ServeRead PROVE Served /\ Effect
  <1> DEFINE bs == files[Path].blocks
             n == Len(blocks) + 1
  <1>0. /\ at = "data" /\ call.op = "read" /\ Asked.handle = handle
        /\ handle \in DOMAIN handles /\ Path \in Paths
        /\ ReadSoFar /\ files' = files
    BY AskedCall DEF InPlace, ServeRead, TypeInv, Before
  <1>1. /\ Path' = Path /\ UNCHANGED <<call, at, handle, blocks, result>>
        /\ blocks \in Seq(BlockType) /\ Len(blocks) \in Nat
        /\ bs \in Seq(BlockType) /\ Len(bs) \in Nat
    <2>1. blocks \in Seq(BlockType) /\ bs \in Seq(BlockType)
      BY <1>0 DEF InPlace, TypeInv, LocalsOK, PhoneOK, Entry
    <2> QED BY <2>1, LenProperties DEF InPlace, Path
  <1>2. Opened = [path |-> Path, position |-> Len(blocks)]
    BY <1>0 DEF Opened, ReadSoFar
  <1>3. Opened.path = Path /\ Opened.position + 1 = n
    BY <1>2
  <1>4. Effect
    BY <1>0, StoreSame DEF Effect
  <1>5. CASE /\ n <= Len(bs) /\ (\E rest \in 0..MaxRest : Reply(ABlock(bs[n]), rest, FALSE))
             /\ handles' = [handles EXCEPT ![handle].position = n]
    <2>1. [handles[handle] EXCEPT !.position = n] = [path |-> Path, position |-> n]
      BY <1>0 DEF ReadSoFar
    <2>2. handles'[handle] = [path |-> Path, position |-> n] /\ handle \in DOMAIN handles'
      BY <1>0, <1>5, <2>1
    <2>0. PICK b : b = ABlock(bs[n])
      OBVIOUS
    <2>3. b # Empty
      BY <2>0 DEF ABlock, Empty
    <2>4. Len(blocks) < Len(bs)
      BY <1>1, <1>5
    <2>5. TrueBlock(b)'
      BY <1>0, <1>1, <2>0, <2>2, <2>3, <2>4 DEF TrueBlock, ReadSoFar
    <2>6. After(b)'
      BY <1>0, <1>1, <2>2, <2>5 DEF After, Reachable
    <2> QED BY <1>4, <1>5, <2>0, <2>6 DEF Served
  <1>6. CASE n > Len(bs) /\ Reply(Empty, 0, FALSE) /\ UNCHANGED handles
    <2>1. Len(blocks) = Len(bs)
      BY <1>0, <1>1, <1>6 DEF ReadSoFar
    <2>2. ReadSoFar'
      BY <1>0, <1>1, <1>6 DEF ReadSoFar
    <2>3. TrueBlock(Empty)'
      BY <1>0, <1>1, <2>1, <2>2 DEF TrueBlock
    <2>4. After(Empty)'
      BY <1>0, <1>1, <1>6, <2>3 DEF After, Reachable
    <2> QED BY <1>4, <1>6, <2>4 DEF Served
  <1> QED BY <1>0, <1>3, <1>5, <1>6 DEF ServeRead

LEMMA WriteServed == ASSUME InPlace, ServeWrite PROVE Served /\ Effect
  <1> DEFINE n == Len(blocks)
             v == call.value
  <1>0. /\ at = "data" /\ call.op = "write" /\ Asked.handle = handle
        /\ Asked.block = Block(v, n + 1)
        /\ handle \in DOMAIN handles /\ Path \in Paths /\ handles' = handles
        /\ WrittenSoFar
    BY AskedCall DEF InPlace, ServeWrite, TypeInv, Before
  <1>1. /\ Path' = Path /\ UNCHANGED <<call, at, handle, blocks, result>>
        /\ n \in Nat /\ v \in Values /\ TypeInv
        /\ files \in [Paths -> Entry]
    <2>1. blocks \in Seq(BlockType) /\ CallOK
      BY DEF InPlace, TypeInv, LocalsOK
    <2> QED BY <1>0, <2>1, LenProperties, CallShape DEF InPlace, Path, CallOK, TypeInv, PhoneOK
  <1>2. /\ n < Blocks[v] /\ Blocks[v] \in Nat \ {0} /\ n + 1 \in Nat /\ n + 1 <= Blocks[v]
        /\ files[Path] = AFile(First(v, n)) /\ Opened.path = Path
    BY <1>0, <1>1, WholeShape DEF WrittenSoFar, Opened
  <1>3. Extended(First(v, n), Block(v, n + 1)) = First(v, n + 1)
    BY <1>1, <1>2, FirstNext, FirstShape DEF Extended
  <1>4. /\ AFile(First(v, n + 1)) \in Entry
        /\ AFile(First(v, n + 1)).kind = "file"
        /\ AFile(First(v, n + 1)).blocks = First(v, n + 1)
    BY <1>1, <1>2, FirstShape DEF AFile, Entry
  <1>5. files' = [files EXCEPT ![Path] = AFile(First(v, n + 1))]
    <2>1. files[Path].kind = "file" /\ files[Path].blocks = First(v, n)
      BY <1>2 DEF AFile
    <2>2. files' = [files EXCEPT ![Path].blocks = Extended(@, Block(v, n + 1))]
      BY <1>0, <1>2, <2>1 DEF ServeWrite
    <2>3. [files[Path] EXCEPT !.blocks = Extended(@, Block(v, n + 1))] = AFile(First(v, n + 1))
      <3>1. [files[Path] EXCEPT !.blocks = Extended(@, Block(v, n + 1))]
              = [files[Path] EXCEPT !.blocks = First(v, n + 1)]
        BY <1>3, <2>1
      <3> QED BY <1>2, <3>1 DEF AFile
    <2> QED BY <1>0, <1>1, <2>2, <2>3
  <1>6. /\ files'[Path] = AFile(First(v, n + 1))
        /\ Store' = [Store EXCEPT ![Path] = Stored(AFile(First(v, n + 1)))]
    BY <1>0, <1>1, <1>4, <1>5, StoreSet
  <1>7. Stored(AFile(First(v, n + 1))) \in {Torn, v}
    <2>1. Stored(AFile(First(v, n + 1))) = AsValue(First(v, n + 1))
      BY <1>4, StoredKind
    <2>2. CASE n + 1 = Blocks[v]
      BY <1>1, <2>1, <2>2, FirstAll, ValueWhole
    <2>3. CASE n + 1 < Blocks[v]
      BY <1>1, <1>2, <2>1, <2>3, ValueFirst
    <2> QED BY <1>2, <2>2, <2>3
  <1>8. Effect
    BY <1>0, <1>6, <1>7, EffectsOf DEF Effect
  <1>9. After(Ok)'
    BY <1>0, <1>1, <1>2, <1>6 DEF After, Reachable, WrittenSoFar
  <1>10. Reply(Ok, 0, FALSE)
    BY DEF ServeWrite
  <1> QED BY <1>8, <1>9, <1>10 DEF Served

LEMMA CloseServed == ASSUME InPlace, ServeClose PROVE Served /\ Effect
  <1>1. /\ at = "close" /\ Before /\ Reachable /\ Path' = Path
        /\ UNCHANGED <<call, at, handle, blocks, result, files>>
    BY AskedCall DEF InPlace, ServeClose, TypeInv, Path
  <1>2. Reported' /\ Reachable'
    BY <1>1 DEF Before, Reported, Reachable
  <1>3. After(Ok)'
    BY <1>1, <1>2 DEF After
  <1>4. Reply(Ok, 0, FALSE)
    BY DEF ServeClose
  <1> QED BY <1>1, <1>3, <1>4, StoreSame DEF Served, Effect

\* An entry of the phone's files gets another name.
LEMMA StoreMoved ==
    ASSUME TypeInv, NEW p \in Paths, NEW t \in Paths, p # t,
           files' = [files EXCEPT ![p] = Nothing, ![t] = files[p]]
    PROVE /\ Store' = [Store EXCEPT ![p] = NoFile, ![t] = Store[p]]
          /\ files'[p] = Nothing /\ files'[t] = files[p]
  <1>1. files \in [Paths -> Entry]
    BY DEF TypeInv, PhoneOK
  <1>2. \A q \in Paths : files'[q] = IF q = t THEN files[p] ELSE IF q = p THEN Nothing ELSE files[q]
    BY <1>1
  <1>3. Store' = [q \in AllPaths |-> IF q \in Paths THEN Stored(files'[q]) ELSE NoFile]
    BY DEF Store, Stored, AsValue, Whole, AllPaths
  <1>4. [Store EXCEPT ![p] = NoFile, ![t] = Store[p]]
          = [q \in AllPaths |-> IF q = t THEN Store[p] ELSE IF q = p THEN NoFile
                                ELSE IF q \in Paths THEN Stored(files[q]) ELSE NoFile]
    <2>1. PICK c : c = Store[p]
      OBVIOUS
    <2>2. [Store EXCEPT ![p] = NoFile, ![t] = c]
            = [q \in AllPaths |-> IF q = t THEN c ELSE IF q = p THEN NoFile ELSE Store[q]]
      BY DEF Store
    <2>3. ASSUME NEW q \in AllPaths
          PROVE Store[q] = IF q \in Paths THEN Stored(files[q]) ELSE NoFile
      BY DEF Store
    <2>4. ASSUME NEW q \in AllPaths
          PROVE (IF q = t THEN c ELSE IF q = p THEN NoFile ELSE Store[q])
                = (IF q = t THEN c ELSE IF q = p THEN NoFile
                   ELSE IF q \in Paths THEN Stored(files[q]) ELSE NoFile)
      BY <2>3
    <2>5. [Store EXCEPT ![p] = NoFile, ![t] = c]
            = [q \in AllPaths |-> IF q = t THEN c ELSE IF q = p THEN NoFile
                                  ELSE IF q \in Paths THEN Stored(files[q]) ELSE NoFile]
      BY <2>2, <2>4
    <2> QED BY <2>1, <2>5
  <1>5. Store[p] = Stored(files[p]) /\ Stored(Nothing) = NoFile
    BY StoredAt DEF Stored, Nothing
  <1>6. ASSUME NEW q \in AllPaths
        PROVE (IF q \in Paths THEN Stored(files'[q]) ELSE NoFile)
              = (IF q = t THEN Store[p] ELSE IF q = p THEN NoFile
                 ELSE IF q \in Paths THEN Stored(files[q]) ELSE NoFile)
    <2>0. /\ files'[t] = files[p] /\ files'[p] = Nothing
          /\ q \in Paths /\ q # t /\ q # p => files'[q] = files[q]
      BY <1>2
    <2>1. CASE q = t
      BY <1>5, <2>0, <2>1, Zenon
    <2>2. CASE q = p
      <3>1. Stored(files'[q]) = NoFile
        BY <1>5, <2>0, <2>2
      <3> QED BY <2>2, <3>1
    <2>3. CASE q # t /\ q # p /\ q \in Paths
      <3>1. files'[q] = files[q]
        BY <2>0, <2>3
      <3>2. Stored(files'[q]) = Stored(files[q])
        BY <3>1
      <3> QED BY <2>3, <3>2
    <2>4. CASE q \notin Paths
      BY <2>4
    <2> QED BY <2>1, <2>2, <2>3, <2>4
  <1> QED BY <1>2, <1>3, <1>4, <1>6

LEMMA ChangeServed == ASSUME InPlace, ServeChange PROVE Served /\ Effect
  <1>0. /\ TypeInv /\ Path' = Path /\ UNCHANGED <<call, at, handle, blocks, result>>
        /\ Reply(Ok, 0, FALSE) /\ Reachable /\ files \in [Paths -> Entry]
        /\ call.op = "rename" => Path # call.to
        /\ call.op = "rename" => call.to \in Paths
        /\ call.op \in {"make", "delete", "rename"} => Path \in Paths
    <2>1. TypeInv /\ CallOK /\ Reachable
      BY DEF InPlace, TypeInv
    <2> QED BY <2>1, CallShape DEF InPlace, ServeChange, CallOK, Path, Reachable, Returnable,
                                  TypeInv, PhoneOK
  <1>1. /\ Nothing \in Entry /\ AFolder \in Entry
        /\ Stored(Nothing) = NoFile /\ Stored(AFolder) = Folder
        /\ Nothing.kind = "none" /\ AFolder.kind = "folder"
    BY DEF Nothing, AFolder, Entry, Stored
  <1>2. CASE /\ at = "only" /\ call.op = "make" /\ Asked.path = Path
             /\ files' = [files EXCEPT ![Asked.path] = AFolder]
    <2>1. Store' = [Store EXCEPT ![Path] = Folder] /\ files'[Path] = AFolder
      BY <1>0, <1>1, <1>2, StoreSet
    <2>2. Effect
      BY <1>2, <2>1, EffectsOf DEF Effect
    <2>3. After(Ok)'
      BY <1>0, <1>1, <1>2, <2>1 DEF After, Reachable, TrueAnswer
    <2> QED BY <1>0, <2>2, <2>3 DEF Served
  <1>3. CASE /\ at = "only" /\ call.op = "delete" /\ Asked.path = Path
             /\ files' = [files EXCEPT ![Asked.path] = Nothing]
    <2>1. Store' = [Store EXCEPT ![Path] = NoFile] /\ files'[Path] = Nothing
      BY <1>0, <1>1, <1>3, StoreSet
    <2>2. Effect
      BY <1>3, <2>1, EffectsOf DEF Effect
    <2>3. After(Ok)'
      BY <1>0, <1>1, <1>3, <2>1 DEF After, Reachable, TrueAnswer
    <2> QED BY <1>0, <2>2, <2>3 DEF Served
  <1>4. CASE /\ at = "only" /\ call.op = "rename" /\ Asked.path = Path /\ Asked.to = call.to
             /\ Asked.path \in Present
             /\ files' = [files EXCEPT ![Asked.path] = Nothing, ![Asked.to] = files[Asked.path]]
    <2>1. /\ Store' = [Store EXCEPT ![Path] = NoFile, ![call.to] = Store[Path]]
          /\ files'[Path] = Nothing /\ files'[call.to] = files[Path]
      BY <1>0, <1>4, StoreMoved
    <2>2. files[Path].kind # "none" /\ Store[Path] # NoFile
      BY <1>0, <1>4, StoredAt, StoredKind DEF Present
    <2>3. Effect
      BY <1>4, <2>1, <2>2, EffectsOf DEF Effect
    <2>4. After(Ok)'
      BY <1>0, <1>1, <1>4, <2>1, <2>2 DEF After, Reachable, TrueAnswer
    <2> QED BY <1>0, <2>3, <2>4 DEF Served
  <1>5. TypeInv /\ CallOK /\ call.op \in FileOps /\ Asked = Request
    BY DEF InPlace, TypeInv
  <1> QED BY <1>2, <1>3, <1>4, <1>5, AskedCall DEF ServeChange

LEMMA OthersServed == ASSUME InPlace, ServeList \/ ServeInfo \/ Refuse PROVE Served /\ Effect
  <1>0. /\ TypeInv /\ Path' = Path /\ UNCHANGED <<call, at, handle, blocks, result>>
        /\ CallOK /\ Asked = Request /\ Before /\ Reachable /\ call.op \in FileOps
    BY DEF InPlace, Path, TypeInv
  <1>1. UNCHANGED <<files, handles>>
    BY DEF ServeList, ServeInfo, Refuse, phone
  <1>2. Effect
    BY <1>1, StoreSame DEF Effect
  <1>3. CASE ServeList
    <2>1. at = "only" /\ call.op = "list"
      BY <1>0, <1>3, AskedCall DEF ServeList
    <2>2. PICK a : a = Listing(Present)
      OBVIOUS
    <2>3. Present' = Present
      BY <1>1 DEF Present
    <2>4. After(a)'
      BY <1>0, <2>1, <2>2, <2>3 DEF After, Reachable, TrueAnswer
    <2>5. \E rest, big : Reply(a, rest, big)
      BY <1>3, <2>2 DEF ServeList
    <2> QED BY <1>2, <2>4, <2>5 DEF Served
  <1>4. CASE ServeInfo
    <2>1. at = "only" /\ call.op = "kind" /\ Asked.path = Path /\ files[Path].kind # "none"
      BY <1>0, <1>4, AskedCall DEF ServeInfo, Present
    <2>2. PICK a : a = Info(files[Path].kind)
      OBVIOUS
    <2>3. After(a)'
      BY <1>0, <1>1, <2>1, <2>2 DEF After, Reachable, TrueAnswer
    <2>4. Reply(a, 0, FALSE)
      BY <1>4, <2>1, <2>2 DEF ServeInfo
    <2> QED BY <1>2, <2>3, <2>4 DEF Served
  <1>5. CASE Refuse
    <2>1. Reported' = Reported
      BY <1>0, <1>1 DEF Reported
    <2>2. After(Error)'
      BY <1>0, <1>1, <2>1 DEF After, Reachable, Before
    <2>3. Reply(Error, 0, FALSE)
      BY <1>5 DEF Refuse
    <2> QED BY <1>2, <2>2, <2>3 DEF Served
  <1> QED BY <1>3, <1>4, <1>5

\* A request in step is served, and what the operation knows follows.
LEMMA ServeFiles ==
    ASSUME TypeInv, StepInv, FilesInv, ServeAfc
    PROVE /\ FilesInv' /\ UNCHANGED <<call, sure, result, sound>>
          /\ sound => Effect /\ call.op \in FileOps
  <1>1. /\ afcRequests # <<>>
        /\ UNCHANGED <<call, at, sure, stage, head, handle, blocks, result, sound>>
    BY DEF ServeAfc, ops, locals
  <1>2. Returnable'
    BY <1>1 DEF FilesInv, Returnable, Path
  <1>3. FilesOK'
    BY ServeFilesOK DEF FilesInv
  <1>4. ASSUME sound PROVE FilesKnown' /\ Effect /\ call.op \in FileOps
    <2>1. stage = "head" /\ Waiting
      BY <1>1, <1>4 DEF StepInv, OwnAnswer, Quiet, Answering, Finishing, Measuring, Reading,
                        TypeInv, CallOK
    <2>2. InPlace
      BY <1>1, <1>4, <2>1, StageCall DEF FilesInv, FilesKnown, InPlace
    <2>3. Served /\ Effect
      BY <2>2, OpenServed, ReadServed, WriteServed, CloseServed, ChangeServed, OthersServed
         DEF ServeAfc
    <2>4. PICK a, rest, big : Reply(a, rest, big) /\ After(a)'
      BY <2>3 DEF Served
    <2>5. wire' = <<Header(a, rest, big)>>
      BY <2>1, <2>4 DEF Reply, Waiting
    <2>6. wire'[1].answer = a
      BY <2>5 DEF Header
    <2>7. afcRequests' = <<>>
      <3>1. Tail(afcRequests) \in Seq(Requests) /\ Len(Tail(afcRequests)) = Len(afcRequests) - 1
        BY <1>1, HeadTailProperties DEF TypeInv, PipeOK
      <3>2. Len(Tail(afcRequests)) = 0
        BY <2>1, <3>1 DEF Waiting
      <3>3. Tail(afcRequests) = <<>>
        BY <3>1, <3>2, EmptySeq
      <3> QED BY <2>4, <3>3 DEF Reply
    <2>8. After(wire[1].answer)'
      BY <2>4, <2>6 DEF After, TrueBlock, TrueAnswer
    <2> QED BY <1>1, <2>1, <2>2, <2>3, <2>7, <2>8 DEF FilesKnown, InPlace
  <1> QED BY <1>1, <1>2, <1>3, <1>4 DEF FilesInv

-----------------------------------------------------------------------------
(* FilesInv is inductive.                                                  *)

LEMMA InitFiles == Init => FilesInv
  <1> SUFFICES ASSUME Init PROVE FilesInv
    OBVIOUS
  <1>1. stage = "idle" /\ call = NoCall /\ blocks = <<>> /\ files = [p \in Paths |-> Nothing]
    BY DEF Init
  <1>2. FilesOK
    BY <1>1 DEF FilesOK, Nothing
  <1> QED BY <1>1, <1>2, NoCallOp DEF FilesInv, Returnable, FilesKnown

LEMMA SameFiles == ASSUME FilesInv, UNCHANGED vars PROVE FilesInv'
  <1>1. UNCHANGED <<stage, head, sure, sound, afcRequests, wire>> /\ UNCHANGED subject
    BY DEF vars, ops, locals, pipe, phone, subject
  <1>2. Returnable' /\ FilesOK'
    BY <1>1 DEF FilesInv, Returnable, FilesOK, subject, Path
  <1>3. ASSUME sound PROVE FilesKnown'
    <2>1. FilesKnown
      BY <1>3 DEF FilesInv
    <2>2. Request' = Request /\ Asked' = Asked /\ Before' = Before /\ Reachable' = Reachable
      BY <1>1, BeforeSame DEF Request, Asked, subject
    <2>3. stage = "head" /\ afcRequests = <<>> => After(wire[1].answer)'
      BY <1>1, <2>1, AfterSame DEF FilesKnown
    <2>4. stage = "body" => After(head.answer)'
      BY <1>1, <2>1, AfterSame DEF FilesKnown
    <2> QED BY <1>1, <2>1, <2>2, <2>3, <2>4 DEF FilesKnown
  <1> QED BY <1>1, <1>2, <1>3 DEF FilesInv

LEMMA NextFiles == TypeInv /\ StepInv /\ FilesInv /\ [Next]_vars => FilesInv'
  <1> SUFFICES ASSUME TypeInv, StepInv, FilesInv, [Next]_vars PROVE FilesInv'
    OBVIOUS
  <1>1. CASE BeginCall \/ BeginPoll \/ Reconnect
    BY <1>1, BeginFiles, PollFiles, ReconnectFiles
  <1>2. CASE HostStep
    BY <1>2, TooLongFiles, AskFiles, ExchangeFiles, PollFiles DEF HostStep
  <1>3. CASE ServeAfc \/ SendRest \/ ServeLockdown
    BY <1>3, ServeFiles, SendFiles
  <1>4. CASE UNCHANGED vars
    BY <1>4, SameFiles
  <1> QED BY <1>1, <1>2, <1>3, <1>4 DEF Next

-----------------------------------------------------------------------------
(* The steps of the contract, in terms of what stands for its variables.   *)

TheCall == IF call.op \in Polls THEN NoCall ELSE call
Returned == IF call \in FileCalls THEN Failed ELSE result

LEMMA ContractBegins ==
    ASSUME TheCall = NoCall, TheCall' \in Contract!Calls, sure' = sound, Returned' = Failed,
           Store' = Store, sound' = sound
    PROVE Contract!Begin
  BY DEF Contract!Begin, Contract!NoCall, Contract!Failed, NoCall, Failed, Store, AllPaths,
         TheCall, Returned

LEMMA ContractWorks ==
    ASSUME UNCHANGED <<TheCall, Returned, sure, sound>>,
           Store' \in Contract!Effects(TheCall)
    PROVE Contract!Work
  BY DEF Contract!Work, Store, AllPaths, TheCall, Returned

LEMMA ContractWorksLate ==
    ASSUME UNCHANGED <<TheCall, Returned, sure, sound>>, ~sound,
           Store' \in [AllPaths -> Values \cup {NoFile, Folder, Torn}]
    PROVE Contract!WorkLate
  BY DEF Contract!WorkLate, Store, AllPaths, TheCall, Returned

LEMMA ContractReturns ==
    ASSUME TheCall # NoCall, NEW r \in Contract!Results, r.ok => Contract!Form(TheCall, r),
           r.ok /\ sure => Contract!Truthful(TheCall, r),
           Returned' = r, TheCall' = NoCall, sound' \in {sound, FALSE},
           Store' = Store, sure' = sure
    PROVE Contract!Return
  BY DEF Contract!Return, Contract!NoCall, NoCall, Store, AllPaths, TheCall, Returned

LEMMA ContractLoses ==
    ASSUME sound' = FALSE, UNCHANGED <<Store, TheCall, sure, Returned>>
    PROVE Contract!LoseStep
  BY DEF Contract!LoseStep, Store, AllPaths, TheCall, Returned

LEMMA ContractRenews ==
    ASSUME TheCall = NoCall, sound' = TRUE, UNCHANGED <<Store, TheCall, sure, Returned>>
    PROVE Contract!NewSession
  BY DEF Contract!NewSession, Contract!NoCall, NoCall, Store, AllPaths, TheCall, Returned

LEMMA ContractForgets ==
    ASSUME TheCall = NoCall, Returned' = Failed, UNCHANGED <<Store, TheCall, sure, sound>>
    PROVE Contract!Forget
  BY DEF Contract!Forget, Contract!NoCall, Contract!Failed, NoCall, Failed, Store, AllPaths,
         TheCall, Returned

LEMMA ContractStutters ==
    ASSUME UNCHANGED <<Store, TheCall, sure, sound, Returned>>
    PROVE UNCHANGED Contract!vars
  BY DEF Contract!vars, Store, AllPaths, TheCall, Returned

-----------------------------------------------------------------------------
(* Every step is one of the contract's, or a stutter.                      *)

LEMMA CallForms ==
    ASSUME NEW c \in FileCalls \cup [op : Polls] \cup {NoCall}
    PROVE /\ c \in FileCalls <=> c.op \in FileOps
          /\ c \in FileCalls => c.op \notin Polls /\ c # NoCall /\ c \in Contract!Calls
          /\ c \notin FileCalls => c.op \in Polls \cup {"none"}
          /\ c.op = "none" => c = NoCall
  BY DEF FileCalls, FileOps, NoCall, Polls, Contract!Calls

LEMMA CallMapped ==
    ASSUME CallOK, CallOK'
    PROVE /\ call.op \in FileOps => TheCall = call /\ Returned = Failed /\ TheCall # NoCall
          /\ call.op \notin FileOps => TheCall = NoCall /\ Returned = result
          /\ call'.op \in FileOps => /\ TheCall' = call' /\ Returned' = Failed
                                     /\ TheCall' \in Contract!Calls
          /\ call'.op \notin FileOps => TheCall' = NoCall /\ Returned' = result'
  <1>1. /\ call \in FileCalls \cup [op : Polls] \cup {NoCall}
        /\ call' \in FileCalls \cup [op : Polls] \cup {NoCall}
    BY DEF CallOK
  <1>2. /\ call \in FileCalls <=> call.op \in FileOps
        /\ call' \in FileCalls <=> call'.op \in FileOps
    BY <1>1, CallForms
  <1>3. /\ call \in FileCalls => TheCall = call /\ TheCall # NoCall
        /\ call \notin FileCalls => TheCall = NoCall
    BY <1>1, CallForms DEF TheCall
  <1>4. /\ call' \in FileCalls => TheCall' = call' /\ TheCall' \in Contract!Calls
        /\ call' \notin FileCalls => TheCall' = NoCall
    BY <1>1, CallForms DEF TheCall
  <1> QED BY <1>2, <1>3, <1>4 DEF Returned

Step == [Contract!Next]_(Contract!vars)

\* No step of the host changes the files, and most leave the call alone.
LEMMA HostSame ==
    ASSUME CallOK, CallOK', UNCHANGED <<files, sure>>,
           \/ call.op \in FileOps /\ UNCHANGED call
           \/ UNCHANGED <<call, result>>
           \/ call.op \notin FileOps /\ call'.op \notin FileOps /\ UNCHANGED result,
           sound' \in {sound, FALSE}
    PROVE Step
  <1>1. UNCHANGED <<Store, TheCall, Returned, sure>>
    BY StoreSame, CallMapped
  <1>2. CASE sound' = sound
    BY <1>1, <1>2, ContractStutters DEF Step
  <1>3. CASE sound' = FALSE
    BY <1>1, <1>3, ContractLoses DEF Step, Contract!Next
  <1> QED BY <1>2, <1>3

LEMMA SoundShrinks == ASSUME TypeInv, NEW a, Resume(a) PROVE sound' \in {sound, FALSE}
  <1>1. sound \in BOOLEAN
    BY DEF TypeInv, FlagsOK
  <1>2. sound' = (sound /\ (a = NoAnswer => Quiet'))
    BY DEF Resume
  <1> QED BY <1>1, <1>2

\* An operation returns.
LEMMA LeaveStep ==
    ASSUME CallOK, CallOK', call.op \in FileOps, NEW r \in Contract!Results,
           call' = NoCall, result' = r, sure' = sure,
           r.ok => Contract!Form(call, r), r.ok /\ sure => Contract!Truthful(call, r),
           sound' \in {sound, FALSE}, UNCHANGED files
    PROVE Step
  <1>1. TheCall = call /\ TheCall # NoCall /\ TheCall' = NoCall /\ Returned' = r
    <2>1. call'.op \notin FileOps
      BY NoCallOp DEF FileOps
    <2> QED BY <2>1, CallMapped
  <1>2. Store' = Store
    BY StoreSame
  <1>3. Contract!Return
    BY <1>1, <1>2, ContractReturns
  <1> QED BY <1>3 DEF Step, Contract!Next

\* An exchange ends: the operation returns, or goes on to the next exchange.
LEMMA EndStep ==
    ASSUME TypeInv, TypeInv', StepInv, FilesInv, stage \in Within, call.op \in FileOps,
           UNCHANGED <<files, handles>>, NEW a \in NotError, EndsWith(a)
    PROVE Step
  <1>1. CallOK /\ CallOK' /\ a \in Answers \cup {NoAnswer} /\ a # Error /\ Resume(a)
    BY AnswerKinds DEF TypeInv, NotError, EndsWith
  <1>2. sound' \in {sound, FALSE}
    BY <1>1, SoundShrinks
  <1>3. Failed \in Contract!Results /\ Failed.ok = FALSE
    BY DEF Contract!Results, Contract!Failed, Failed
  <1>4. CASE Leave(Failed)
    BY <1>1, <1>2, <1>3, <1>4, LeaveStep DEF Leave
  <1>5. CASE \E next : Go(next)
    BY <1>1, <1>2, <1>5, HostSame DEF Go
  <1>6. CASE at = "close"
    <2>1. Leave(result)
      BY <1>1, <1>6 DEF Resume
    <2>2. Returnable /\ (sound => Known /\ Reported)
      <3>1. ASSUME sound PROVE Known /\ Reported
        <4>1. Known
          BY <3>1 DEF EndsWith
        <4>2. FilesKnown /\ stage # "mixed"
          BY <3>1 DEF FilesInv, StepInv, OwnAnswer
        <4>3. \A b : After(b) => Reported
          BY <1>6 DEF After
        <4> QED BY <4>1, <4>2, <4>3, <1>6 DEF FilesKnown, Before, Within
      <3> QED BY <3>1 DEF FilesInv
    <2>3. PICK r : r = result
      OBVIOUS
    <2>4. /\ r \in Contract!Results
          /\ r.ok => Contract!Form(call, r)
          /\ r.ok /\ sure => Contract!Truthful(call, r)
      <3>1. stage \in {"ask", "head", "mixed", "body"} /\ Returnable /\ TypeInv
        BY <2>2 DEF Within
      <3>2. /\ result \in Contract!Results
            /\ result.ok => Contract!Form(call, result)
            /\ result.ok /\ sure => sound
            /\ result.ok /\ Known /\ Reported => Contract!Truthful(call, result)
        BY <1>6, <3>1, CloseReturns
      <3>3. result.ok /\ sure => Contract!Truthful(call, result)
        BY <2>2, <3>2
      <3> QED BY <2>3, <3>2, <3>3
    <2>5. call' = NoCall /\ result' = r /\ sure' = sure
      BY <2>1, <2>3 DEF Leave
    <2> QED BY <1>1, <1>2, <2>4, <2>5, LeaveStep
  <1>7. CASE at = "only"
    <2>1. Leave(Outcome(a))
      BY <1>1, <1>7 DEF Resume
    <2>2. PICK r : r = Outcome(a)
      OBVIOUS
    <2>3. /\ r \in Contract!Results
          /\ r.ok => a # NoAnswer /\ Contract!Form(call, r)
          /\ r.ok /\ After(a) /\ a # Error => Contract!Truthful(call, r)
      BY <1>1, <1>7, <2>2, OnlyReturns
    <2>4. sure => sound
      BY <1>7 DEF FilesInv, Returnable, Within
    <2>5. r.ok /\ sure => Contract!Truthful(call, r)
      BY <1>1, <2>3, <2>4 DEF EndsWith
    <2>6. call' = NoCall /\ result' = r /\ sure' = sure
      BY <2>1, <2>2 DEF Leave
    <2> QED BY <1>1, <1>2, <2>3, <2>5, <2>6, LeaveStep
  <1>8. CASE at = "open"
    BY <1>1, <1>4, <1>5, <1>8 DEF Resume, OpenAnswered
  <1>9. CASE at = "data"
    <2>1. call.op \in {"read", "write"}
      BY <1>1, <1>9 DEF CallOK
    <2> QED BY <1>1, <1>5, <1>9, <2>1 DEF Resume, ReadAnswered, WriteAnswered
  <1> QED BY <1>1, <1>6, <1>7, <1>8, <1>9 DEF CallOK

LEMMA ExchangeStep ==
    ASSUME TypeInv, TypeInv', StepInv, FilesInv,
           ReceiveHead \/ ReceiveBody \/ ReceiveMixed \/ ReceiveFails \/ AskFails
    PROVE Step
  <1>1. stage \in Within /\ call.op \in FileOps /\ UNCHANGED <<files, handles>>
    BY ExchangeEnds
  <1>2. ASSUME NEW next, Await(next) PROVE Step
    <2>1. UNCHANGED <<call, sure, sound>>
      BY <1>2 DEF Await, ops
    <2> QED BY <1>1, <2>1, HostSame DEF TypeInv
  <1> QED BY <1>1, <1>2, ExchangeEnds, EndStep

LEMMA BeginCallStep == ASSUME TypeInv, TypeInv', FilesInv, BeginCall PROVE Step
  <1>1. call = NoCall /\ call' \in FileCalls
    BY BeginFiles
  <1>2. CallOK /\ CallOK' /\ call.op \notin FileOps /\ call'.op \in FileOps
    BY <1>1, CallForms, NoCallOp DEF TypeInv, FileOps
  <1>3. TheCall = NoCall /\ TheCall' \in Contract!Calls /\ Returned' = Failed
    BY <1>2, CallMapped
  <1>4. sure' = sound /\ sound' = sound /\ files' = files
    BY DEF BeginCall, Begin, phone
  <1>5. Contract!Begin
    BY <1>3, <1>4, StoreSame, ContractBegins
  <1> QED BY <1>5 DEF Step, Contract!Next

LEMMA TooLongStep == ASSUME TypeInv, TypeInv', PathTooLong PROVE Step
  <1>1. /\ call.op \in FileOps /\ UNCHANGED <<files, sound>>
        /\ call' = NoCall /\ result' = Failed /\ sure' = sure
    BY StageCall DEF PathTooLong, Leave, phone
  <1>2. Failed \in Contract!Results /\ Failed.ok = FALSE
    BY DEF Contract!Results, Contract!Failed, Failed
  <1> QED BY <1>1, <1>2, LeaveStep DEF TypeInv

LEMMA PollContract ==
    ASSUME TypeInv, TypeInv', FilesInv,
           \/ BeginPoll \/ Query \/ QueryFails
           \/ PollLength \/ PollText \/ PollDrain \/ PollFails
    PROVE Step
  <1>1. /\ UNCHANGED <<files, sure>> /\ CallOK /\ CallOK'
        /\ call.op \notin FileOps /\ call'.op \notin FileOps
    BY PollFiles DEF TypeInv, FileOps, Polls
  <1>2. CASE UNCHANGED result /\ sound' \in {sound, FALSE}
    BY <1>1, <1>2, HostSame
  <1>3. CASE call = NoCall /\ result' = Failed /\ sound' = sound
    <2>1. UNCHANGED <<Store, TheCall, sure, sound>> /\ TheCall = NoCall /\ Returned' = Failed
      BY <1>1, <1>3, CallMapped, StoreSame
    <2>2. Contract!Forget
      BY <2>1, ContractForgets
    <2> QED BY <2>2 DEF Step, Contract!Next
  <1> QED BY <1>2, <1>3, PollFiles

LEMMA ReconnectContract == ASSUME TypeInv, TypeInv', FilesInv, Reconnect PROVE Step
  <1>1. UNCHANGED <<call, sure, result, files>> /\ sound' = TRUE /\ call = NoCall
    BY ReconnectFiles
  <1>2. UNCHANGED <<Store, TheCall, sure, Returned>> /\ TheCall = NoCall
    BY <1>1, StoreSame, NoCallOp DEF TheCall, Returned, Polls
  <1>3. Contract!NewSession
    BY <1>1, <1>2, ContractRenews
  <1> QED BY <1>3 DEF Step, Contract!Next

\* The phone works on the call under way, or late on an earlier one.
LEMMA ServeContract == ASSUME TypeInv, TypeInv', StepInv, FilesInv, ServeAfc PROVE Step
  <1>1. /\ UNCHANGED <<call, sure, result, sound>>
        /\ sound => Effect /\ call.op \in FileOps
    BY ServeFiles
  <1>2. UNCHANGED <<TheCall, Returned, sure, sound>>
    BY <1>1 DEF TheCall, Returned
  <1>3. CASE Store' = Store
    BY <1>2, <1>3, ContractStutters DEF Step
  <1>4. CASE sound /\ Store' # Store
    <2>1. TheCall = call
      BY <1>1, <1>4, CallMapped DEF TypeInv
    <2>2. Contract!Work
      BY <1>1, <1>2, <1>4, <2>1, ContractWorks DEF Effect
    <2> QED BY <2>2 DEF Step, Contract!Next
  <1>5. CASE ~sound
    <2>1. \A p \in Paths : files'[p] \in Entry
      BY DEF TypeInv, PhoneOK
    <2>2. Store' = [q \in AllPaths |-> IF q \in Paths THEN Stored(files'[q]) ELSE NoFile]
      BY DEF Store, Stored, AsValue, Whole, AllPaths
    <2>3. Store' \in [AllPaths -> Values \cup {NoFile, Folder, Torn}]
      BY <2>1, <2>2, StoredKind
    <2>4. Contract!WorkLate
      BY <1>2, <1>5, <2>3, ContractWorksLate
    <2> QED BY <2>4 DEF Step, Contract!Next
  <1> QED BY <1>3, <1>4, <1>5

LEMMA QuietStep ==
    ASSUME UNCHANGED <<call, sure, result, files, sound>>
    PROVE Step
  <1>1. UNCHANGED <<Store, TheCall, Returned, sure, sound>>
    BY StoreSame DEF TheCall, Returned
  <1> QED BY <1>1, ContractStutters DEF Step

LEMMA NextContract == TypeInv /\ StepInv /\ FilesInv /\ [Next]_vars => Step
  <1> SUFFICES ASSUME TypeInv, StepInv, FilesInv, [Next]_vars PROVE Step
    OBVIOUS
  <1>0. TypeInv'
    BY NextStep
  <1>1. CASE BeginCall \/ BeginPoll \/ Reconnect
    BY <1>0, <1>1, BeginCallStep, PollContract, ReconnectContract
  <1>2. CASE HostStep
    <2>1. CASE Ask
      BY <2>1, QuietStep DEF Ask, ops, locals, phone
    <2> QED BY <1>0, <1>2, <2>1, TooLongStep, ExchangeStep, PollContract DEF HostStep
  <1>3. CASE ServeAfc
    BY <1>0, <1>3, ServeContract
  <1>4. CASE SendRest \/ ServeLockdown
    BY <1>4, SendFiles, QuietStep
  <1>5. CASE UNCHANGED vars
    BY <1>5, QuietStep DEF vars, ops, locals, phone
  <1> QED BY <1>1, <1>2, <1>3, <1>4, <1>5 DEF Next

LEMMA InitContract == Init => Contract!Init
  <1> SUFFICES ASSUME Init PROVE Contract!Init
    OBVIOUS
  <1>1. call = NoCall /\ sure = TRUE /\ sound = TRUE /\ result = Failed
    BY DEF Init
  <1>2. TheCall = NoCall /\ Returned = Failed
    BY <1>1, NoCallOp DEF TheCall, Returned, Polls
  <1>3. Store = [p \in AllPaths |-> NoFile]
    <2>1. Nothing.kind = "none"
      BY DEF Nothing
    <2>2. \A p \in Paths : Stored(files[p]) = NoFile
      BY <2>1 DEF Init, Stored
    <2> QED BY <2>2 DEF Store
  <1> QED BY <1>1, <1>2, <1>3 DEF Contract!Init, Contract!NoCall, Contract!Failed, NoCall,
             Failed, Store, AllPaths, TheCall, Returned

\* Whatever the paths, the values and their lengths, and whatever fails: when an
\* operation of AppleFileConduitSession that began in step returns success, what
\* it returns is what the phone holds (the content read, the value written, the
\* folder made, the file removed or renamed, the listing), and a step of the
\* phone changes only what the operation under way may change, as long as no
\* exchange of Dispatch has failed with something left in flight.
THEOREM OperationsTellTheTruth == Spec => Contract!Spec
  <1>1. Init => Contract!Init /\ TypeInv /\ StepInv /\ FilesInv
    BY InitContract, InitStep, InitFiles
  <1>2. TypeInv /\ StepInv /\ FilesInv /\ [Next]_vars
          => TypeInv' /\ StepInv' /\ FilesInv' /\ [Contract!Next]_(Contract!vars)
    BY NextStep, NextFiles, NextContract DEF Step
  <1> QED BY <1>1, <1>2, PTL DEF Spec, Contract!Spec
=============================================================================
