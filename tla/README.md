# PXLInstaller: specification, model checking and proofs

PXLInstaller talks over USB to phones that run iPhone OS 1: it implements the
phone's multiplexing protocol on raw bulk transfers, pairs with `lockdownd`,
opens the AFC file service and, through files that a daemon on the phone picks
up, installs and removes PXL applications. It comes as a command line program
and as a wxWidgets window.

This directory holds TLA+ modules of its stateful parts, the TLC runs that check
them on small instances, and theorems that TLAPS proves for every value of the
constants. `PROJECT.json` lists components, runs, mutants, the map from
definitions to source lines, findings, hazards and theorems.

    tlc -workers 2 -config mux_stream.cfg MCMuxSession    # one run
    tlapm MuxSessionProofs.tla                            # one module of proofs

## 1. Inventory

| Component | Source | State | Operations | Hard because |
|---|---|---|---|---|
| USB pipe | `core/usb/mux.c` 50-139 | `rx_buf`, `rx_len` | `usb_pipe_write`, `usb_pipe_read`, `usb_pipe_poll` | a transfer is any run of bytes; time-outs; fixed buffer |
| Mux session | `core/usb/mux.c` 141-449 | `tx_seq`, `rx_ack`, `prebuf`, table `seen` | `session_connect`, `session_send_frame`, `session_recv_frame`, `session_recv`, `session_close` | stale frames, retransmissions, frames split and coalesced, lost writes |
| Port forwarder | `core/usb/mux.c` 451-537 | stop flag, a shared session | `forward_loop` and its two threads; no caller yet | data races, blocked threads, the life of the shared context |
| Device discovery | `core/usb/mux.c` 539-648 | none | `find_and_claim` | - |
| Lockdown client | `core/lockdownd/LockdownDaemonClient.cpp` | handle, session, `~/.ios_pairing_records/*.plist` | `Open`, `Close`, `IsOpen`, `StartPairedSession`, `StartService` | the record on disk and the device's memory of hosts change apart: crashes, lost answers, restores |
| Credentials | `core/lockdownd/Crypto.cpp` | none | keys, certificates, `GenerateUUID` | - |
| AFC session | `core/afc/AppleFileConduitSession.cpp` | its session, `m_packetNumber` | `Dispatch` and eight file operations | answers are not matched with requests; two sessions read one pipe |
| PXL manager | `core/pxl/PXLManager.cpp` | none; the phone's file system | list, install, remove, `InstallDaemon`, `IsProcessingCommand` | several files per operation, a daemon that polls a trigger file |
| Main window | `gui/MainFrame.cpp`, `ControlPanel.cpp`, `DevicePanel.cpp` | the three objects, `m_isProcessingCommand`, controls, rows | timer, five kinds of click, dialogs | dialogs run the event loop: the timer changes state under a handler |
| Guards, start-up | `gui/USBGuards.hpp`, `gui/main.cpp` | none | stop and start `usbmuxd` | - |
| Command line | `cli/main.cpp` | none | one run, one command | does not ask whether PXLdaemon is at work |
| Phone scripts | `files/` | none | start PXLdaemon at boot | all of them are needed |

How they interact. Everything but `forward_loop` runs on one thread. The lockdown
client owns the pipe and a session; the AFC session is a second session on *the
same* pipe; the manager holds a reference to the AFC session; the window owns all
three and resets them together. The phone is the other actor throughout: its TCP
endpoint answers the mux session, its `lockdownd` remembers hosts, its daemon
executes and removes the trigger file. The user, the cable, the disk and the
operating system complete the picture.

What makes each part correct:

- *pipe and session*: no buffer overflows; the reader stays in step with frames;
  nothing is acknowledged that was not sent, or that was thrown away; what is
  sent is contiguous; `session_connect` returns, and succeeds only on this
  connection's handshake; for its user it is a reliable stream;
- *pairing*: a started session has its record on disk; a record that the device
  honours is never lost; a device is not paired twice; after failures, trying
  again leads to a session;
- *file service*: every request gets its own answer or none; an operation that
  reports success tells the truth about the phone's files; handles are given back; a
  session that is out of step is dropped;
- *manager*: PXLdaemon never sees half a package; what is reported was done, or will
  be; however an installation of the daemon breaks off, it can be repeated;
- *forwarder*: the two threads end together, before their context goes away; what the
  phone was told is received has been handed over; what is sent is contiguous;
- *window*: objects die together and in order; what can be clicked works; a
  disconnection is noticed; a wait ends; nothing is used after it was reset; a
  command that was announced is executed.

The hazards behind them, each at its line, are in `PROJECT.json`.

## 2. Modules

| Module | Role |
|---|---|
| `MuxSession` | one session of `mux.c` over the pipe, against a TCP peer |
| `ReliableStream` | what a session promises: abstract specification |
| `MCMuxSession` | constants for TLC: stale frames, fault budgets |
| `MuxSessionProofs` | proofs about `MuxSession`: types, acknowledgements, the host's own numbers |
| `MuxStreamProofs` | proofs about `MuxSession`: what the host reads, and `ReliableStream` |
| `LockdownPairing` | pairing over many attempts, crashes and devices |
| `MCLockdownPairing` | constants for TLC: fault budgets |
| `LockdownPairingProofs` | proofs about `LockdownPairing` |
| `MainFrame` | the window (checked directly, it has one constant) |
| `MainFrameProofs` | proofs about `MainFrame` |
| `AfcSession` | the file operations and `Dispatch`, with the lockdown client's `Exchange` on the same pipe |
| `RemoteFiles` | what the file service promises: abstract specification |
| `MCAfcSession` | constants for TLC: the lengths of the values |
| `AfcSessionProofs` | proofs about `AfcSession`: types, answers in step, handles |
| `AfcFilesProofs` | proof that the operations of `AfcSession` implement `RemoteFiles` |
| `PxlManager` | the manager's commands over many runs, crashes and reboots |
| `PxlManagerProofs` | proofs about `PxlManager` |
| `ForwardLoop` | the two threads of `forward_loop` |
| `ForwardLoopProofs` | proofs about `ForwardLoop` |

Operators whose comment starts with "mutant:" stand beside the definition they
vary. No specification uses them; replacing the original by one shows that the
properties notice such a bug.

### MuxSession

*Data.* The byte stream from the phone is a sequence of cells. A header cell
stands for the 28 bytes of the two headers, a data cell for one unit of payload,
named by its sequence number; so a header that is split between transfers is not
represented, while every split between header and payload and inside payloads is.
Where a payload cell lies in the place of a header, the code reads any four bytes as a
length, and `FrontHeaders` and its users give each outcome: a length beyond what there is
(`ParseStop`, `ReadHeader`), one below 28 (a byte is skipped, `ParseDropByte`, or the read
fails), one that fits, so that payload is accepted as a frame with whatever number, flags and
length it spells (the set `Misreads`), and in the parse loop one of 2^31 or more, which is
negative where mux.c:336 compares it (`ParseWild`; the place is then `undefined`, and the
model ends). From the first such reading on `misread` is true and the reader may be inside a
cell, so that true headers may be misread as well.

*Control.* `pc` is the place in `session_connect` (`flush`, `syn`, `handshake`,
`ack`, `drain`, `parse`), between calls (`idle`), in `session_recv` (`recv`), or at
an end (`failed`, `done`, `undefined`). Each step is one libusb transfer or one frame:

| Code | Actions |
|---|---|
| flush loop, `rx_len = 0` | `FlushPoll`, `FlushEnd` |
| `session_send_frame` | `SendFrame`, `WriteFails` inside `SendSyn`, `SendHandshakeAck`, `SendCall`, `CloseCall` and the ACKs of `ParseFrame`, `RecvData`, `RecvControl` |
| `usb_pipe_read` | `ReadChunk`, `ReadFails` (four time-outs or an error, the buffer cleared) |
| `session_recv_frame` | `ReadHeader`, then `FrameRead` inside `HandshakeFrame`, `RecvControl`, `RecvData` |
| drain and parse loop | `DrainPoll`, `DrainEnd`, `ParseDropByte`, `ParseWild`, `ParseDuplicate`, `ParseFrame`, `ParseStop` |
| `session_recv` | `RecvPrebuf`, `RecvCall` and the `recv` steps above |

`PayloadAfterMove` is the code's copy through a pointer to a frame that has been
moved: it yields whatever cells then lie there. `delivered` is every unit that
`session_recv` has taken for its callers, and `missed` the places in it for which the buffer
of that call had no room: those bytes are gone.

*The phone* (external) is a TCP endpoint: accept or refuse, in-order receive,
send, FIN, RST, pure ACK, retransmission of the oldest unacknowledged frame. A write that
is reported to fail never reached it, or reached it whole (`reached`), as after a time-out;
a frame of which only a part arrives is not modelled. `Stale` and `LateArrives` are frames
that an earlier session left in the phone.

*Bounds.* `StreamLen` units, `MaxPay` per frame, `MaxChunk` cells per transfer,
`TxLimit` on what the caller sends; `Faults` is a set of budgets, one chosen in
each behaviour, for failed polls, reads and writes, retransmissions and pure ACKs.

### LockdownPairing

One action per exchange and per access to the record. A record is the host
identifier in it, or `NoFile`, or `Torn` (opened, so truncated, and not written, or
not flushed). `trusted[d]` is what the device remembers; `issued` the identifiers
generated so far. `Unanswered` is any exchange without a usable response. The
device may have trusted the host although `Pair` got no answer. `Crash` may come
between any two steps; `Unplug`, `Plug` and `Restore` change the device.

`unnoticed` records that one of two failures has happened which the code cannot
see: an existing record that could not be read (`LoadPairingRecordInfo` returns the
same as for none), and a flush that fails in the destructor, after `file.good()`
was read. The three safety properties exclude behaviours after such a failure, and
only those: a failure that the code is told of is covered.

### MainFrame

An action is a handler's run from one dialog to the next; `stack` holds the
handlers that wait, innermost last. `Tick` is the poll timer, which also fires in
dialogs; the user answers only the dialog on top and clicks only with none open.
`client`, `afc` and `pxl` say which of the three objects are set; `buttons`,
`daemonButton` and `appRows` what can be clicked. `linked`: the handle reaches the phone;
`IsOpen` may fail even so. `IsProcessingCommand` is false when the trigger file is gone
(`CheckCommandDone`) and, the same to the code, when its exchange fails
(`CheckCommandUnanswered`). Any exchange may fail, so an operation on the phone ends in success, in
failure with no effect, or in failure after the effect. `nullUse` is a use of a
null pointer; the program does nothing after it. PXLdaemon (external) executes the
trigger file and removes it.

### AfcSession

*Control.* A file operation is one to three kinds of exchange: `at` says which of its
`Dispatch` calls is under way (`open`, `data`, `close`, or the `only` one), `stage`
where in `Dispatch` it is. `Resume` is the return from `Dispatch` into the operation.
Between two operations the lockdown client may poll: `IsOpen` and `GetValueString`
through `Exchange`, one step per frame.

| Code | Actions |
|---|---|
| start of an operation, too long paths | `BeginCall`, `PathTooLong` |
| `Dispatch`: request, header, rest of the response | `Ask`, `AskFails`; `ReceiveHead`, `ReceiveMixed`; `ReceiveBody` |
| a receive that fails in `Dispatch` | `ReceiveFails` |
| the operations between two exchanges | `OpenAnswered`, `WriteAnswered`, `ReadAnswered`, `Outcome` inside `Resume` |
| `Exchange`, its callers in `IsOpen` and `GetValueString` | `BeginPoll`, `Query`, `QueryFails`, `PollLength`, `PollText`, `PollDrain`, `PollFails` |
| the window's new sessions | `Reconnect` |

*The pipe.* `session_recv` compares no port, so both sessions take the next frame on
`wire`, whosever it is, and no answer is compared with its request: `m_packetNumber` is
written and never read back, so it is left out. A frame of the other session is read
as what its bytes come to: no magic, a header cut in two, a length of thousands of bytes.

*The phone* (external) is an AFC server with files and handles and a `lockdownd`; each
answers its requests in order, at its own pace. Faults are named by `Faults`: a request
that is not sent, frames lost in a failed transfer, an answer after the time-out, a
listing that does not fit the buffer.

*Data.* A file is the sequence of blocks that was written; contents that are no
beginning of a value are all `Junk`. A handle copied from an answer that has none is
zero, which no file has.

*History.* `sound`: no exchange has failed with something in flight. `sure`: it was so
when the operation began. `lossless`: no fault in these sessions.

### PxlManager

One step per remote operation (`PathExists`, `CreateDirectory`, `ContentsOfDirectory`,
`ReadFile`, and `FileOpen`, `FileWrite`, `FileClose` of `WriteFile`), as `RemoteFiles`
promises them for a session in step. `op` is the command of `cli/main.cpp` that runs,
`pc` its next operation, `phase` the function it is in: `IsDaemonInstalled` is called by
three of them, and `ApplicationWithBundleIdentifier` asks again for each entry.
`Crash` ends the program anywhere; `PowerLoss` the phone as well; `Reboot` is the user
who does what the program says. At boot PXLdaemon starts if launchd's plist,
`hackinit.sh`, `pxl.sh`, the binary and `chmod` are all there.

PXLdaemon (external) takes a command from the trigger file, which it leaves if it is none
yet, does it, and then removes the file. A package that is not whole, or that changes
meanwhile, is not installed. It makes its own folders `PXL` and `DB`.

*History.* `half`: an `InstallDaemon` broke off after it had begun to write, and
PXLdaemon did not start since. Then `IsDaemonInstalled` may say yes although a pushed
file is torn: it looks at two paths only. `overlapped`: a command was written while
another was pending; the command line does not ask `IsProcessingCommand`. The properties
that hold only outside of these two say so.

### ForwardLoop

One step is one access to the shared session or to the stop flag, or one system call, of
either thread; `tx_seq += ...` is a load and a store. `pc` gives each thread's place: its
own loop, or `session_send_frame`, which both are in. `Joined` is the thread that each of
`forward_loop`'s two waits is for: both on POSIX, the first one twice on Windows.

`blocking` chooses between a socket whose `recv` blocks and one whose does not. `send` to
the TCP peer may be whole, short (nobody notices) or fail. The phone and the TCP peer
(external) send, finish, reset and close at any time.

Nothing in the repository calls `forward_loop`; the module is about the code as it stands.

## 3. Runs

| Run | Properties | Instance |
|---|---|---|
| `mux_faults` | `TypeOK` `AckSound` `HandshakeSound` `TxContiguous` `ConnectReturns` | 2 units, one per frame; `rx_buf` of 3 cells, `prebuf` of 1; early data, refusal, RST, FIN; a failed read or write; retransmission at any time; stale frames before and during the flush; payload that spells a frame with data, a reset, a FIN longer than any frame |
| `mux_stream` | `FramingKept` `AckedIsKept` `ImplementsStream` | 3 units, up to 2 per frame; room in the session's buffers, callers' buffers of 1 and 2; one early frame; two retransmissions in the drain, or a poll that gives up early, and a failed write |
| `mux_stale` | `HandshakeSound`, violated | as `mux_faults`, but stale frames may arrive later |
| `mux_drained_payload` | `PrebufInOrder`, violated | as `mux_stream`, with two early frames |
| `pairing` | `TypeOK` `PairedIsRemembered` `GoodRecordKept` `NeverPairsTwice` `PairsAgain` | 2 devices; three fault budgets with up to two crashes and two lost exchanges |
| `gui` | `TypeOK` `EnabledMeansReady` `DisconnectNoticed` `CommandFinishes` | dialogs nested up to 3 deep |
| `gui_null` | `NoNullUse`, violated | dialogs up to 2 deep |
| `gui_overwrite` | `CommandKept`, violated | dialogs up to 2 deep |
| `afc` | `TypeOK` `InStep` `HandlesClosed` `ImplementsFiles` `OutOfStepDropped` | 2 paths and one too long; values of one full block and of two, the second short; 1 handle; answers of up to 3 frames; one fault of any kind |
| `afc_shifted` | `WriteReported`, violated | as `afc`, one listing too large |
| `pxl` | `TypeOK` `OnlyWholeInstalled` `AcceptedMeansRunning` `CommandHonest` `DaemonHonest` `ListHonest` `DaemonComesUp` | 2 packages; two faults of any kind |
| `fwd` | `TypeOK` `ContextAlive` `TxContiguous` `AckedIsForwarded` `OneAfterStop` `EndsTogether` | 2 frames from the phone, 2 chunks from the TCP peer, one failed write or send |

What the properties say:

- `TypeOK` (mux): types, and that no copy goes past the end of `rx_buf`, `prebuf` or
  `seen`, though transfers come in any size and the buffers are full in the run. The one way
  out of `rx_buf` is the negative length, and only after payload has been misread.
- `AckSound`: until payload is misread, neither `rx_ack` nor any acknowledgement on the wire
  passes what the phone has sent. Misread payload moves `rx_ack` anywhere.
- `HandshakeSound`: `session_connect` goes past the handshake only when the phone has
  accepted this connection.
- `TxContiguous`: the frames under way follow each other without gap or overlap up
  to `tx_seq`, whichever writes were lost, until one is reported to fail though its frame
  reached the phone: the next frame then has the same number.
- `ConnectReturns`: the flush, handshake, drain and parse loops end, whatever is read as a
  header, or the program has left the buffer in the parse loop (`undefined`): after a length
  of 2^31 or more nothing can be said of it.
- `FramingKept`: between frames a header is next, within a frame its payload, and no
  payload is ever misread.
- `AckedIsKept`: what is acknowledged was delivered or waits in `prebuf`, but for the end of
  a frame whose beginning has filled its caller's buffer.
- `ImplementsStream`: with `delivered` and `prebuf` together as the units taken, the
  session implements `ReliableStream`: in order, once each, none missing but what a caller's
  buffer had no room for (its own `missed`), and, under fairness, everything produced is taken while the host's end is up.
- `PairedIsRemembered`, `GoodRecordKept`, `NeverPairsTwice`, `PairsAgain`: see the
  comments in the module; they relate the disk, the device's memory and the place
  in the attempt across crashes and attempts.
- `EnabledMeansReady`, `DisconnectNoticed`, `CommandFinishes`: the controls agree with
  the objects; the timer notices; the wait ends once PXLdaemon has executed the command,
  unless the connection ends first or the user never stops giving commands.
- `InStep`: as long as no exchange has failed with something in flight, a request goes
  out only when nothing of an earlier one is left, on either of the two sessions.
- `HandlesClosed`: without faults, refused requests included, every operation gives its
  handle back.
- `ImplementsFiles`: the operations implement `RemoteFiles`: what one returns is true of
  the phone's files if it began in step, and each returns.
- `OutOfStepDropped`: a poll that finds a frame of the file service waiting ends both sessions.
- `OnlyWholeInstalled`: from the moment the trigger can be read, the package is whole, and
  stays so until PXLdaemon is done.
- `CommandHonest`, `DaemonHonest`, `ListHonest`: what a command reports is true: PXLdaemon
  has done this command or will; the phone has all it needs for the next boot; the list has
  only what was installed while it was made, and all that stayed.
- `AcceptedMeansRunning`: a phone that `IsDaemonInstalled` accepts runs PXLdaemon.
- `DaemonComesUp`: however `InstallDaemon` breaks off, repeating it brings PXLdaemon up.
- `ContextAlive`: `forward_loop` does not return while a thread uses its caller's context.
- `TxContiguous` (forwarder): the frames follow each other without gap or overlap,
  whichever thread sends, until the phone's FIN. From then on both threads increase
  `tx_seq`, and an increase can get lost.
- `AckedIsForwarded`: what the phone was told is received has been handed to the TCP peer.
- `OneAfterStop`, `EndsTogether`: after the flag is set at most one more frame goes out;
  when one thread ends, so does the other.

Why these bounds. In `mux_faults` two transfers overflow the buffer; that, two data
frames and one failure of each kind already give every order of stale frame, early
data, retransmission, failure and full buffer; in `mux_stream` three units in frames
of one or two, cut into transfers of one or two cells, give frames split at every
point and coalesced in pairs, and callers' buffers of one unit lose the second of a frame.
The misread headers are one of each kind that the code tells apart: with payload, without,
reset, FIN, longer than any frame. Two budgets are kept apart on purpose: a poll that
gives up early cuts the drain short, and a retransmission after the drain is a
duplicate that `session_recv` delivers again (section 6). In `pairing` nine
identifiers are more than any behaviour within the budgets can use, so generation is
never blocked. In `gui` a click opens a dialog only when none is open, so the levels
above it are messages of the timer's own `TryConnect`, all alike; the two violations
need fewer. `MainFrameProofs` has no bound on the nesting. In `afc` a value of two blocks gives a write
loop that goes on, one that ends and one that fails between; two more frames of an answer
give a receive loop that goes on and ends; with one fault, everything that follows it can
happen, which is what shifts answers: a second one only shifts them further. `MaxLeft`
keeps operations from piling up requests for a phone that is late. In `pxl` two faults break
off an installation and hit its repetition, or make an exchange and the phone fail; of two
packages one can be installed while the other is. In `fwd` two frames let the FIN come
after data, and two chunks make Up send while Down answers the FIN; all chunks have one
length, since the code treats no length in a special way.

Deadlock is checked in `pairing`. The mux session ends when it has failed or was
closed, `forward_loop` returns, the sessions of `afc` may be full of unread answers, nobody
need give another command in `pxl`, and the window may rest for ever when nobody uses it or after a null use,
so those runs switch the check off.

Fairness. `MuxSession!FairSpec` is weak fairness of the host's thread: every libusb
call has a time-out, and callers of `session_recv` loop until they have what they
asked for. None is assumed of the phone. `LockdownPairing!FairSpec` is weak fairness
of the steps of an attempt and, as the program's messages ask of the user, of
opening again, dropping a finished client and plugging a device in; faults are
bounded, which is "once the failures stop". `MainFrame!FairSpec`: the timer fires every 1.5
seconds, also in dialogs, so what every tick does in the state at hand is done in the end:
`DisconnectDevice` where the handle reaches nothing, the end of the wait where the trigger
file is gone. A tick whose result depends on an exchange is not fair, so no failed exchange
is ever forced; the wait ends because PXLdaemon executes the command, which is the third
fair action. Nothing is assumed of the user. `AfcSession!FairSpec` is weak fairness of the program and
of the phone's two servers; being late is a fault, of which there are finitely many.
`PxlManager!FairSpec` is weak fairness of the command under way and of the user who
installs what is missing, and strong fairness of the two things the user is told:
to run the installation again as long as PXLdaemon does not run, and to reboot, both of
which other commands and power losses interrupt. `ForwardLoop!FairSpec` is weak fairness
of both threads and of the wait. A `recv` that blocks has no time-out, so there the peer
is assumed to send or close; without that `EndsTogether` is false, and the code has no
remedy. `EndsTogether` uses that 20 idle seconds end the reading thread.

### What the violations show

- `mux_stale` (mux.c:260): the flush ends with the first 100 ms of silence, and
  frames are compared neither by port nor by acknowledgement number. A stale
  SYN|ACK that arrives later completes the handshake while the phone is still
  listening.
- `mux_drained_payload` (mux.c:392): with two frames in `rx_buf` after the drain, the
  first one's payload is copied through a pointer to where the second has been moved. In the
  run each has one unit: the second unit is put in `prebuf` twice, the first, which has been
  acknowledged, not at all.
- `gui_null` (MainFrame.cpp:66, also 71, 118, 154): a handler uses the session or the
  manager after its dialog, in which the timer may have reset them. In the run one `IsOpen`
  fails while the dialog is open, with the phone on its cable.
- `gui_overwrite` (MainFrame.cpp:156): the X of an application stays usable while a
  command is under way, and its trigger file replaces the pending one.
- `afc_shifted` (AppleFileConduitSession.cpp:288): a response too large for the buffer is
  refused with its rest still in the stream. The rest is taken for the next response, so
  each later request gets the answer of the one before, and `WriteFile` reports success
  for a file that it never wrote.

Not a run, but visible in a mutant: with the waits as the code has them on Windows
(mux.c:525-526, twice for the first thread), `ContextAlive` is false (`JoinFirst`).

## 4. Proofs

All theorems are for arbitrary constants within the named assumptions of the
modules (`ConstantsAssumption`, `PairingAssumption`, `StackAssumption`, `PxlAssumption`,
`ForwardAssumption`, `AfcAssumption`, `StoredAssumption`). The last one says that the
abstract store's "no file" and "folder" are told apart from values and from "torn".

| Theorem | Statement |
|---|---|
| `MuxSessionProofs!TypeCorrect` | `Spec => []TypeOK` |
| `MuxSessionProofs!AckSafety` | `Spec => []AckSound`, assuming `NoWrap` and `NoStray` |
| `MuxSessionProofs!HandshakeSafety` | `Spec => []HandshakeSound`, assuming the same |
| `MuxSessionProofs!NothingIsSkipped` | `Spec => []TxContiguous` |
| `MuxStreamProofs!FramesStayWhole` | `Spec => []FramingKept`, assuming `QuietLine` and `RoomEnough` |
| `MuxStreamProofs!NothingAckedIsLost` | `Spec => []AckedIsKept`, assuming the same |
| `MuxStreamProofs!SessionIsStream` | `Spec => Stream!Spec` (`ReliableStream`), assuming the same |
| `LockdownPairingProofs!PairingTypeCorrect` | `Spec => []TypeOK` |
| `LockdownPairingProofs!PairedRemembered` | `Spec => []PairedIsRemembered` |
| `LockdownPairingProofs!GoodRecordsKept` | `Spec => GoodRecordKept`, an action property |
| `LockdownPairingProofs!NoSecondPairing` | `Spec => NeverPairsTwice`, an action property |
| `MainFrameProofs!MainFrameTypeCorrect` | `Spec => []TypeOK` |
| `MainFrameProofs!ControlsMatchDevice` | `Spec => []EnabledMeansReady` |
| `PxlManagerProofs!PxlTypeCorrect` | `Spec => []TypeOK` |
| `PxlManagerProofs!WholePackages` | `Spec => []OnlyWholeInstalled` |
| `PxlManagerProofs!AcceptedRuns` | `Spec => []AcceptedMeansRunning` |
| `PxlManagerProofs!CommandReportHonest` | `Spec => CommandHonest`, an action property |
| `PxlManagerProofs!DaemonReportHonest` | `Spec => DaemonHonest`, an action property |
| `PxlManagerProofs!ListReportHonest` | `Spec => ListHonest`, an action property |
| `AfcSessionProofs!AfcTypeCorrect` | `Spec => []TypeOK` |
| `AfcSessionProofs!AnswersInStep` | `Spec => []InStep` |
| `AfcSessionProofs!HandlesGivenBack` | `Spec => []HandlesClosed` |
| `AfcFilesProofs!OperationsTellTheTruth` | `Spec => Contract!Spec` (`RemoteFiles`) |
| `ForwardLoopProofs!ForwardTypeCorrect` | `Spec => []TypeOK` |
| `ForwardLoopProofs!ContextOutlivesThreads` | `Spec => []ContextAlive`, assuming `Joined = PosixJoined` |
| `ForwardLoopProofs!OneFrameAfterStop` | `Spec => []OneAfterStop` |
| `ForwardLoopProofs!AcknowledgedForwarded` | `Spec => []AckedIsForwarded` |
| `ForwardLoopProofs!ForwardContiguous` | `Spec => []TxContiguous` |

*MuxSession.* `Types` is inductive; `BuffersFit` follows step by step from the two
checks on `rx_buf` and those on `prebuf` and `seen`, and from `ParseWild` being the only step
to `undefined`. `AckSound` is not inductive: a header
that is still in the pipe, in `rx_buf`, in `cur` or in `sent` becomes `rx_ack` later.
`IInv` adds that every such header ends at or below `snd_nxt` and that a SYN|ACK among
them means an accepted connection (`SoundPipes`), that `snd_nxt` is tied to the
units produced (`DeviceSent`), and, until payload is misread, that the frame in `cur` is one of
these and every frame under way to the phone acknowledges no more than was sent (`AckInv`).
`HandshakeSound` has no such condition, because nothing can be misread before the handshake
is over: until then only headers without payload are on the wire (`OpeningInv`), since the
phone sends data only after an acknowledgement that it has not got. `NoWrap` (the stream ends before 2^32) is needed because
the code compares numbers plainly; `NoStray` (no stale frame after the flush, no
poll that misses one) because otherwise the claim is false, as `mux_stale` shows.
`mux_faults` satisfies both. `NothingIsSkipped` needs neither: `TxInv` adds to
`TxContiguous` that a SYN carries no payload (`SynIsBare`): the phone goes on by one number
for it, and by the length for any other frame. It holds until `reached`.

*MuxSession, what the host reads.* `Unread` is all that the host has not taken: the frame
it is in, `rx_buf` and the pipe, in line; `Units` is what it has: what was delivered, then
`prebuf`. `StreamInv` says for every place that the units taken are the stream's first
ones (`Kept`), that `rx_ack` is not ahead of them (`Acked`) and that `Unread` is a
sequence of whole frames (`Whole`), of which the transfers cut anything off in any place.
The rest depends on the phase. In `Opening` the exchange of SYN and SYN|ACK leaves at most
three known frames; the SYN may reach the phone although its write has failed, and the session
with it (`Failed`). In `Draining` retransmissions repeat frames, so `Unread` need not
continue `Units`; the frames are from a known set (`DrainFrames`), a SYN|ACK comes first, a
reset last, and there is room for all that can still come. In `Parsing` either nothing was
repeated, or `rx_buf` holds whole frames, repeated ones among them, and what comes after it
continues the stream (`Resume`); what is in `seen` tells a repeated frame from a new one. In
`Streaming`, from then on, `Unread` is exactly the rest of the stream (`Fresh`), each frame
once. In all of them the reader finds headers where it looks for them, so nothing is misread
(`StaysInStep`). `HandInv` says of every unit in `missed` that it lies behind the ones that
filled its caller's buffer. `SessionIsStream` maps each step of the session to taking a run of
units, with the room that the caller had for it, to producing one, to the end of the host's
use, or to a stutter.

The two conditions leave out what the code does not survive, and no more than that:

- `QuietLine`: nothing of an earlier session is in the phone (otherwise `mux_stale`), no
  retransmission comes after the drain (`session_recv` would deliver it again), at most one
  frame comes before the first request (otherwise `mux_drained_payload`), no read fails (it
  empties `rx_buf`), no pure ACK shares its number with data in the drain, and a poll that
  fails and so ends the drain early excludes retransmissions. Failing writes, refusals, resets
  and FINs, lengths of frames and the sizes of transfers are free.
- `RoomEnough`: a frame fits in `prebuf`, a transfer behind a frame in `rx_buf`, and the
  drain's repeated frames in `rx_buf`. In mux.h and mux.c `rx_buf` has 65536 bytes, `prebuf`
  16384, `seen` 64 entries, and a transfer at most 16384 bytes. The buffers of the callers
  have any size (4 bytes in `Exchange`, at most 8232 in `Dispatch`): what is lost in them is
  what the conclusions admit, and nothing else.

`mux_stream` satisfies both. Sequences of cells stand for bytes, and what follows from
joining two of them is proved once with concatenation hidden behind `Cat` (`CatAssociative`,
`InLineGrows`), because the solver is lost in it otherwise.

*LockdownPairing.* `IInv` is `TypeOK` and `RecordKnown`: what each place in the attempt
knows of the record on disk (before and during a pairing it is not one that the device
honours, while it is written it is torn, when the session starts it is the one in
`info`, and only a rejected one is deleted). The two action properties follow from
`IInv` and the step.

*MainFrame.* `Ready` is inductive for any depth of dialogs: types, the ownership
of the three objects, and that any enabled control implies the manager.

*PxlManager.* `TypeInv` is inductive; its part `WhereOK` gives each command its places and
files, which `TypeOK` does not say and every other proof needs. `PushedOK` counts the files
that `InstallDaemon` has behind it, in any order. `CommandInv` adds to
`OnlyWholeInstalled` what app.pxl and the trigger file hold at each place of a command
(`PackageOK`, `TriggerOK`): without it a command could finish over a torn package.
`RunningOK` is why two paths are enough to know that PXLdaemon runs: its folder exists only
on a phone where it once started, and the files it started from change only in
`InstallDaemon`, which leaves `half` behind or ends with all of them (`WritingEnds`).
`ListOK` follows the loop over the entries: what is neither read nor left to read was not
there all the time.

*AfcSession.* `TypeInv` is inductive: the parts of `TypeOK`, with what requests carry. `InStep`
only speaks of the moments between exchanges; `StepInv` says for every stage what is in
flight: the request, or the answer of which the frames received, on the wire and to come
add up to its length (`Answering`, `Finishing`), or what is left of lockdownd's length and
text (`Measuring`, `Reading`), and nothing else. It also says that `FileOpen` is answered
with a handle or an error, so that ReadFile never copies a handle from less. `HandleInv`
adds, without faults, that the phone has exactly the handle open that the operation holds
at each Dispatch.

*AfcSession, what the operations return.* `FilesInv` says what an operation in step knows of
the phone's files. `Before` a request: ReadFile has read exactly the file up to its handle's
position (`ReadSoFar`), WriteFile's file holds the blocks it has sent (`WrittenSoFar`), and
what is going to be returned after `FileClose` is true already (`Reported`). `After` the
phone has answered: the handle is a new one on the path asked for, the block is the
next one, the status, the kind or the listing is true. It holds for the answer on
the wire as well as for the one whose rest is still received, and rests on `StepInv`: the
request the phone looks at is the operation's own. `Returnable` is the part that also holds
out of step: an operation that began in step and is no longer returns failure. Each
step is then one of `RemoteFiles` or a stutter; when answers are out of step, whatever the
phone does to its files is `WorkLate`.

*ForwardLoop.* Types in parts, then three invariants, each inductive with the types alone:
`JoinedDone` (which waits are over), `AfterBound` (after its one frame `thread_tcp_to_usb`
is at the check), `AckBalance` (the units acknowledged are those handed over, those in
`prebuf` and those in `thread_usb_to_tcp`'s buffer). `ForwardContiguous` needs `AckBalance` and `WireInv`: until the phone's FIN is answered only
`thread_tcp_to_usb` adds to `tx_seq`, so the number it has loaded stays the number
(`UpNumber`), what the other thread has loaded is that one or an older one (`DownNumber`),
and the data on the wire ends at `tx_seq`, or one frame further until the sum is stored
(`WireEnd`). That a set of positions has a largest one, which the property's `Max` stands
on, follows from the library's well-founded order on the natural numbers (`LeastNatural`).
`WindowsJoined` satisfies the
assumptions of the module but not that of `ContextOutlivesThreads`.

Only model-checked: liveness (`ConnectReturns`, `PairsAgain`, `DisconnectNoticed`,
`CommandFinishes`, `DaemonComesUp`, `OutOfStepDropped`, `EndsTogether`, and the fairness in
`ImplementsStream` and `ImplementsFiles`), which the prover does not handle. Every invariant
and action property of the passing runs is a theorem, and so is the safety part of both
refinements.

## 5. Plan

Done, in this order: `MuxSession` with `ReliableStream` (everything stands on the
session), `LockdownPairing` (the only state that survives a crash), `MainFrame` (the
only place with reentrancy), `AfcSession` with `RemoteFiles` (everything the manager does
stands on it), `PxlManager` (files of several steps against a daemon), `ForwardLoop` (the
only threads); then the proofs of types and invariants, of `TxContiguous` in both modules, of
`FramingKept`, `AckedIsKept` and the stream, and of the file operations. Next: the
manager's remote operations as calls of `RemoteFiles`, so that what `PxlManager` assumes of a
write follows from `OperationsTellTheTruth`; and the delivered stream without `QuietLine`, to
say what is left of it after a failed read.

## 6. Not modelled, and limits

- `find_and_claim`, `Crypto.cpp`, the start-up and guard code, the command line's
  argument handling, the build: no state that lasts, or pure library calls.
- In `AfcSession`: unplugging and crashes (`PxlManager` has them); a lockdown request of
  which only the length is sent; a length and its text in one frame
  (LockdownDaemonClient.cpp:321). New sessions come only when the phone owes nothing more
  on the old ones.
- In `PxlManager`: answers out of step, which `AfcSession` is about; the window, whose
  commands are the same ones and which is in `MainFrame`.
- In `ForwardLoop`: the empty transfer after a frame of a multiple of 512 bytes
  (mux.c:69), and a signal from `send` to a closed socket, which is an error here.
- Sequence numbers that wrap; retransmissions that reach `session_recv` (it compares
  no numbers, so they are delivered twice) outside `mux_faults`, whose properties do not look at
  the delivered stream; a pure ACK that shares its number with data in the drain. Each is
  listed as a hazard.
- What becomes of the stream after payload has been misread: the runs go on to show that the
  session keeps its buffers and returns, up to the length of 2^31 or more, but which bytes
  reach the caller is not looked at. The fields of a misread header are independent of the
  payload, and its data offset is taken as 20 bytes.
- A frame of which only a part is written before the write fails, and a frame whose rest
  arrives after four time-outs in its middle (`mux_faults` has the misreading that follows,
  no property describes it).
- Whether wxWidgets survives the destruction of the X button whose handler runs.
