# A verification project for the LTE modem tools of myzr-demo

TLA+ models of the cellular modem programs in this repository, the TLC instances
that check them, and TLAPS proofs of what matters most in each. Every definition is read from the C code;
`PROJECT.json` gives, for each one, the lines it stands for.

## 1. The system

The repository collects the user-space programs of an embedded Linux board with a
Quectel or Fibocom modem. The main one is the Quectel connection manager
(`src/Quectel_QConnectManager_Linux_V1.6.1`), of which V1.6.0.16 is an older copy.

| component | state it keeps | operations | what is hard about it |
|---|---|---|---|
| QMI transactions: `QMIThread.c`, `QmiWwanCM.c`, `util.c` | one pending request and its answer, two transaction id counters, a mutex and a condition, the device descriptor | send a request and wait, receive a message, give up, open and close the device | two threads; time-outs against late answers; ids that wrap; events written under the mutex; stop during a call |
| QMI proxy: `quectel-qmi-proxy.c` | connections with their client ids, a queue of control requests, the start-up flags | accept, forward, route answers, track client ids, clean up, restart | answers given out by position; clients that leave; descriptors that are reused; a modem that resets |
| connection loop: `main.c` (and the request operations of `QMIThread.c`) | which calls are up, back-off, alarm, the link state, two pipes | dial, check, hang up, follow the network, restart | signals, alarms and events in any order; requests that fail half way; a restart that must leave nothing behind |
| MBIM proxy: `quectel-mbim-proxy.c` | a table of clients, an open hand-shake | tag transaction ids with the slot of the client, route answers | slots that are reused while an answer is on its way |
| AT dialer: `atchannel.c`, `at_tok.c`, `atc.c` | one pending command and its response, the style of the modem | send a command and wait, read lines, the requests of the connection loop | late final answers; reports that read like answers; lines that are swallowed; polls |
| MBIM dialer: `mbim-cm.c` | one pending request and its answer, the states last told | send a request and wait, indications, the requests of the connection loop | indications between a request and its answer; stop during a request; suspend and resume |
| other transports: `GobiNetCM.c`, `qrtr.c` | a descriptor for each service | open, read, forward | descriptors that come and go |
| device discovery, interface set-up: `device.c`, `udhcpc*.c`, `rmnetctl.c`, `qmap_bridge_mode.c` | none that lasts | sysfs, netlink, shell commands | pure I/O |
| CUIoT dialer: `src/my_cuiot_2cb7_0a05` | state of the dial loop, strings shared with a FIFO thread | AT commands over a serial port | does not build as committed (section 5) |
| QFirehose: `src/LTE&5G_QFirehose_Linux&Android_V1.4` | where the download is, the progress it has told | find the module, Sahara, stream download and Firehose protocols | a module that reboots, answers late, asks again; steps whose failure is ignored |
| QDloader: `src/QDloader_Linux_Android_V1.0.1` | where the download is, copies of partitions in `/tmp`, a response shared by two threads | find the module, BSL, aboot and FBF protocols | calibration data that is read, erased and written back; a wait that can miss its signal; failures nobody reads |
| demos: `hello.c`, serial and SPI tests | none | - | - |

How they interact. `quectel-CM` opens the modem's `cdc-wdm` device itself, or
connects to the QMI or MBIM proxy, which shares the device between several of
them. Inside `quectel-CM` the connection loop (main thread) calls the transaction
core, which sleeps until the reader thread settles the request; the reader tells
the main thread of indications through a socketpair, and the main thread tells it
to quit through the same pair; signal handlers write START and STOP into a
second pipe. The dialer, the download tools and the demos stand alone.

What makes each part correct:

- transactions: a caller gets the answer to its own request or none; memory is
  freed once; nobody waits for ever, and a stop gets through;
- QMI proxy: an answer goes to the client that asked; a client id belongs to one
  client; the queue moves;
- connection loop: a call in the modem is one the program can hang up; a family
  that is down is dialled again, and no earlier than the back-off says; the
  interface has the address of the call; nothing survives a restart;
- MBIM proxy: an answer goes to the client that asked, with the id it chose;
- AT and MBIM dialer: the answer belongs to the request; a lost network or call is learnt of;
  each request ends, and a stop leaves no call behind;
- download tools: what is sent is what the device asked for, a failure ends the
  download, and the end is reached only with everything written.

`PROJECT.json` lists under `hazards` the places where the code can go wrong in a
way a test would hardly reach, with the properties that watch them.

## 2. The modules

| module | what it is |
|---|---|
| `QmiRpc` | abstract: a call is asked, and ends once, with its own answer, without one, or with an error |
| `QmiThread` | the transaction core, both threads |
| `QmiThreadProofs` | its inductive invariant, five invariants, and the refinement of `QmiRpc` |
| `QmiService` | abstract: what clients that share the modem are promised about answers, client ids and indications |
| `QmiProxy` | the QMI proxy, its clients and the control service of the modem |
| `QmiProxyProofs` | three inductive invariants, each stronger than the one before: types and the queue; ids and answers; the refinement of `QmiService` |
| `ConnMain` | `main`, `quectel_CM` and `qmi_main` with the QMI request operations, the modem's calls, time |
| `ConnMainProofs` | two inductive invariants, each with two invariants: about retries and the link, and about types and calls |
| `MbimService` | abstract: what clients that share an MBIM device are promised about answers and indications |
| `MbimProxy` | the MBIM proxy, its clients and the modem |
| `MbimProxyProofs` | two inductive invariants, the second stronger: types, slots and answers; the refinement of `MbimService` |
| `AtChannel` | the AT channel: pending command, reader, unsolicited lines |
| `Atc` | `atc.c` over `AtChannel`, with the loop of `main()` and the modem |
| `AtcProofs` | its inductive invariant and two invariants |
| `MbimCm` | `mbim-cm.c` with the loop of `main()` and the modem |
| `MbimCmProofs` | its inductive invariants, that a stop leaves no call behind, and that news always comes |
| `QUsb` | the USB handle of QFirehose and the module behind it |
| `Sahara`, `StreamDownload`, `Firehose` | the three download protocols over `QUsb`, with the module's side |
| `QFirehose` | `main()` of QFirehose, which composes the three |
| `QFirehoseProofs` | its inductive invariant and four invariants |
| `Usbfs` | the USB device of QDloader, the module behind it and its flash |
| `Bsl`, `Aboot`, `Fbf` | its three downloaders over `Usbfs`, with the module's side |
| `QDloader` | `main()` of QDloader, which composes the three |
| `QDloaderProofs` | its inductive invariants, that no run loses the calibration, and that a success is one |
| `MCQmiThread`, `MCQmiProxy`, `MCConnMain`, `MCMbimProxy`, `MCAtc`, `MCMbimCm`, `MCQFirehose`, `MCQDloader` | constants for TLC |

### QmiThread

`mainPc` walks through `QmiThreadSendQMITimeout`: `Call` composes the request,
`SendLock` takes `cm_command_mutex` and installs it, `SendCheck` and `Write*` are
`QmiWwanSendQMI`, then the caller sleeps in `pthread_cond_timeout_np`, whose four
slices are `NextSlice`; a signalled caller competes for the mutex again in
`Woken`. `readerPc` walks through `QmiWwanThread`; each message is one call of
`QmiThreadRecvQMI`: `RecvAnswer` settles the pending request, `RecvStray` is an
answer nobody waits for, `RecvIndication` an indication, and `Cancel` is
`QmiThreadRecvQMI(NULL)`, which gives the pending request up. `Notify` is the write
to the main thread, separate because it can block with the mutex held. What the
main loop does with an event is reduced to: go on, or quit.

A request and its answer are one record with the ordinal of the request, which
the code does not have: it lets the properties tell two requests with one
transaction id apart. An answer may come at any time, in any order, late, or
never, and may be dropped because of its length.

Assumed of the modem: an answer comes within `AnswerWindow` further requests of
the same counter, at most one turn of the counter (255 control requests, 65535
others). Without it the code cannot tell the answers apart.

### QmiProxy

The proxy is one thread: each event `poll` reports is one action.
`SendSync`, `RecvWhileInit` and `StartServer` are the start-up, `Accept`,
`RecvFromClient`, `Cleanup` a client's life, `RecvCtlAnswer`, `RecvCtlNotice`,
`RecvMuxAnswer`, `RecvBroadcast` are `recv_qmi_from_dev`, `DeviceLost` ends the loop
and `main` starts over. The clients and the modem are external; they are as free as
the code lets them be, except that a client uses an id it was given until
it asks for its release, and that the modem answers control requests in the order
they came.

Four events break the correspondence between the queue and the modem, and nothing
in the code repairs it: a SYNC answer that arrives after the server was opened, a
control message the modem sends by itself, a client that leaves with requests
queued, and a write the device does not take. The model takes all of them and
records in `disturbed` that one has happened since the last restart. The
properties state that these are the only ways to go wrong; `DeviceLost` is the only
step that resets `disturbed`, because the queue is built anew there.

`QmiService` says what the clients may rely on, without queue, descriptors or device: a request is answered at most once, to
the client that asked, and the control requests of one client in the order in which it asked; an id is granted only when no
client uses it and no request on its way names it; an answer to an id its client still uses, and an indication to the service of one, are
offered to the client. Requests may be lost, which a client notices by its time-out. So may what is offered: `send_qmi_to_client` waits five
seconds until the client can be written to, then drops the message, and looks at no short or refused write. `Deliver` lets every open connection be `slow` in this way, and in
`QmiService` (`Offer`) a client that is slow misses what it was offered and nothing else: the ids, the queue and the other clients are not affected. `ServesClients` maps it to the proxy: what is `asked` is in
the client's stream, in the queue or in the modem (`Unread`, `Waiting`, `modemMux`), `uses` is `mine`, `told` what the step has
delivered. It promises nothing from a disturbance to the next restart.

### ConnMain

A handler of `qmi_main` is one step: it reads a signal or an event, does all its
requests, and leaves state, alarm and link. Poll and service are separate steps
(`Poll`, then the descriptors it found ready, signals first), so that events arrive between them.
Each request has the outcomes of `Outcomes`: it succeeds, it is lost (no answer or
an error), or it returns success with no answer because SIGINT woke the caller,
which `QmiThread` shows to happen. The calls of the modem are in `call`, so that the
properties can compare them with what the program believes. Time is counted in
units: `allowIn` (`SetupCallAllowTime`), `alarmIn` (`alarm`), `idle` (the time-out
of `poll`).

`Up(status)` is passed to `usbnet_link_change` as a set of families; `conf` is what
the interface was given, by DHCP or statically. `s_link` survives a restart, as in
the code, where it is a static variable.

Left out: option parsing, SIM and profile set-up before the loop, the loopback,
QoS and MBIM branches, the second authentication attempt (an attempt of the same
kind as the first), and what is logged.

### MbimProxy

One thread, and one action for each event `poll` reports: `OpenDone` and `OpenFails` are
the hand-shake, `Accept`, `Request`, `Disconnect` and `ReadFails` serve a connection,
`Answer` and `Indicate` are `handle_device_response`, and `Reopen` is `main`, which opens
the device again and sends MBIM_OPEN; that makes the modem forget what it was asked
before. `slot` is `cm_clients`. A request goes out with the number of its slot in the top
byte of its transaction id (`Tag`), and `Sender` and `OwnTid` take the two apart again.
Every connection is a new member of `Conns`, so a slot that is used twice is told from a
client that stays.

Clients' ids are below 2^24, as the dialer sees to (`mbim-cm.c:1484`). Three things the
code does not guard against are steps of the model. A read that returns 0 ends the loop
without closing the server (`leaked`): its name stays taken and no server can be made
again. A write to a connection its client has closed raises SIGPIPE (stage `"dead"`). And
a late answer goes to whoever has the slot now: `AnswerToAsker` promises nothing once the
asker has left.

`MbimService` is what the clients see of it. A request is answered at most once, under the id its client chose, and to
that client as long as it is served; an indication is offered to all that are served, in one step. `non_block_write` waits three seconds, writes without blocking and is
not asked for its result, so that a client that is slow misses what it is offered, and keeps its slot (`Deliver`, `Offer`). A request is lost only when its own
client leaves or is turned away, when one read takes it together with another of its client, when the device does not take it, or in a restart, which loses everything. `Service` maps the
requests of the streams that are not read (`Unread`) and those the modem has (`Sent`) to `asked`, the connections in `slot` to `served`,
and the last write to clients to `told`. All requests may have one id, so requests carry a number `n`, which the code does not have and
no guard looks at.

### AtChannel and Atc

`AtChannel` has what `at_send_command_full_nolock` and `readerLoop` share: the pending command
(`Send`, `Drop`, and `Outcomes`, the ways the wait may end), and the lines. The text of a
line is reduced to what `processLine` looks at: a final answer, a line with the prefix of some
command, or the first of two lines of a short message. A line is `mine` if it
belongs to the pending command; the code does not know that, only the properties do.
`ReaderEnds` and `ThreadEnds` are the two threads that notice a hang-up, in either order.

`Atc` has one step of the main thread for each command that is waited for: `step` is the command, and
the operator named after it is what the code does with the result. `Start` to `Reboot` are
`atc_init`; `Report` to `SetContext` the requests before the loop; `Cops`, `Reg` the registration; `Active` to
`Address` the dial; `Query`, `Bindings`, `States` the question for the call; `Hangup` the end. The loop of `main()` is in
a simpler form than in `ConnMain`: no back-off, no family but IPv4. Commands whose result changes
nothing are one step, repeated (`ignored`, `report`).

Left out: `at_send_command_raw`, PDU commands and the PIN, which nothing here uses; the contents of
reports; and what the reader does after a SIGINT, which `MbimCm` has.

Two ghosts say where the code is without protection. `spoiled`: an answer came after its time-out, or a
line was swallowed because `+CMTI`, which has one line, was taken for a message of two; from then
on nothing tells commands and answers apart. `trailing` (part of the modem): the list of contexts
ends with another one, whose state `requestQueryDataCall` keeps as that of the call.

### MbimCm

As `Atc`, with messages instead of lines: `Ask` and `Outcomes` are `mbim_send_command`, `Receive` is
`mbim_recv_command`, `ReaderEnds` the end of `mbim_read_thread`. An answer is told by its id, so a late one
does no harm. `known` are the four `old*State` variables, with which an indication is
compared: one that says what the program was told last is no news (`IsNews`). `Open` and `SetUp` are
`mbim_init`; `Sim`, `Register`, `Packet`, `Attach`, `Connect`, `Address`, `Query`, `Disconnect`, `Close` are
the requests. `Sigint` tells both threads; `Stop` is the handler in `main()`, which comes after whatever was
in the pipes before (`stopping`).

The modem reports each change, before or after the answer that caused it; `Resumes` is
a suspend that makes it forget it was opened. Exceptions: `missed`, an
indication was thrown away because it said what was told before, while the answer that said otherwise had yet to
be recorded; `spoiled`, a request timed out, or the reader of a
program that was told to stop has ended after a second of silence, before the call was.

### QUsb, Sahara, StreamDownload, Firehose, QFirehose

One thread on the host and the module; `ctl` is the function that runs and `ret` what the last one
returned. `QUsb` is what `qusb_noblock_read` and `qusb_noblock_write` promise: two channels of whole messages, which an
unplugging empties; a write that may fail, or not end (its time-out is discarded, `usb_linux.c:345`); a read that finds nothing until the time-out.
A time-out may come at any time, also when the answer is on its way: the next read then gets it.

`Sahara` is `sahara_start`: `HelloLate`, `Hello`, `Command`, `Done`, and the boot ROM
(`RomHello`, `RomTakes`). `StreamDownload` sends one request after the other (`Following`), with what
the code does when one fails (`Failed`). `Firehose` is `firehose_main`: the passes one
after the other (`NextPass`), the loops over the XML table with the place in them (`pass`, `row`), and the commands a loop leaves out
(`Wanted`, `NextRound`); each command is `SendCommand`, `ReadResponse` or `NoResponse`, an image also
`SendChunk`. `flash` is what each partition holds: the old image, nothing, part of the new one, the new one, or
junk, when something was written to a module that waited for another image. `QFirehose` is `main()`:
the search (`FoundReady`, `SentToEdl`, `NotFound`, which share `tries`), what follows
(`AfterSahara`, `Finish`), and `ModuleBoots`, with which the module leaves and comes back.

Some calls have no bound while the module is there: each write, which waits in `USBDEVFS_REAPURB`; the drains before and after a command, and the wait for a
response behind logs or for the end of a packet, which go on as long as something comes. `Held` are the states in which the next call of the tool is one of them. That such a call takes for ever needs no
step of its own: no fairness makes the tool leave such a state. `Ends` says that the tool ends or stays in one of them.

`Show` is the progress in a build with `USE_IPC_MSG`, a message for each change; the file of `USE_IPC_FILE` is not modelled, since with that macro `qfirehose.c` does not compile (line 536).

Two things the code does wrong in every run are in the model as they are. `handle_write` advances
the address and never the data, so each block of the SBL gets the first 1024 bytes of the file (`Packet`);
`StreamWhole` asks only that each block was written. And a partial upgrade that names no image of the package
has no bytes to transfer, so the progress of the SBL, which is programmed all the same, divides by zero: `ctl` is then `"crashed"`.

### Usbfs, Bsl, Aboot, Fbf, QDloader

`main()` looks for the module (`Found`, `NotFound`, `NoModem`, `OpenFails`), tells one that takes AT
commands to go to its download mode (`Told`, `Switched`, `Appears`), and calls one of three downloaders by
the name of the chip (`Dispatch`). `flash` is what each partition holds: `"cal"` is the calibration data, IMEI or serial
number the module came with. `Rerun` starts the tool again after a failure; a tool that is killed
leaves what a failing request leaves. `faulty` notes that the module has refused something, left, or been late.

`Bsl` is `dloader_main`, and `loop`, `item` and `other` the place in the loops of `test_bsl`: `"items"` goes through the list
of the package; when the second loader runs (`Load`), `"backup"` goes on from there and copies the partitions to keep into files under `/tmp`
(`Backup`, with `nv_merg_file`); the RG500U then gets a new partition table (`BackupEnds`), and `"restore"` writes the copies back, the
last item first. On the EC200U they are written in their turn, among the images. A round of a loop is a step, also one with nothing
to do (`Pass`). A request and its answer are one step, because what the module refuses
ends the download. What goes wrong on the host does not always, and two ghosts say so. `unsaved` are partitions without a whole copy in their file: it was opened for writing by a later run when it
held the only one (`bsl_backup_id` saves what the module has, whatever that is), or was closed before all was in it, for the result of `fclose` is not looked at (`Copy`).
`cut` are partitions that this run has flashed short (`Sent`): the reading of a file ends early and END_DATA is sent all the same; a copy that cannot be opened again is replaced by the
image; or, on an RG500U, the item has `CheckFlag` 0 and its copy, longer than its image, is written as far as that is long (kind `"trim"`), after the flash was partitioned anew. Also an NV whose values
have no place in the new image, where they are passed over (`Merged`). The merge may fail for no fault of the module; that ends the download.

`Aboot` is `aboot_main`, with its two threads: `pc` is the place of the main thread, `Rx` one turn of the reader.
`Check` looks at `cmd_response` under the mutex, `SliceEnds` and `NextSlice` are the slices of `pthread_cond_timeout_np`,
`Woken` and `Judge` what follows a signal and an answer. `SendChunk`, `WaitForAck`, `Acked` and `Collect` transfer an image.
The last three commands (`Endings`) come after the file, and after a DATA with a size that was not asked for, too; their answers are not
looked at, so that the tool reports success (`unread`). `WaitForAck` does not look whether the answer is there before it waits, nor
does ethos ask again for an answer when the empty packet comes before the wait: then the signal, and with it the
download, is lost (`missed`).

`Fbf` is `fbfdownloader_main`: two files, `SelectImage` to `DONE` for each, then `Message` until the modem is ready. What the code
takes for the end is PlatformReady or PlatformDisconnect, whatever errors were reported before, which are only logged, and however much is burnt (`unheard`). That the module got the
whole file is its own judgement: a short read of a file on the host is not modelled. An answer to `DataHeader` that does not come leaves
a buffer of no bytes, and the loop that sends it ends only when the device goes (`SpinEnds`).

Left out: the formats of packages (pac, bin) and their chunks, framing and CRC, the hand-shakes,
the PDL variant's detail, sparse images, spurious wake-ups, the option `-s`, Android's device nodes and the SHINCO build.
Files in `/tmp` are taken to stay between runs: a host that reboots loses them.

## 3. The runs

| run | instance | properties | what it shows |
|---|---|---|---|
| `qmi_thread` | 3 services (one control, two data services of one wire type), ids up to 2, 3 requests, 2 indications, socketpair of 2, 2 slices | `TypeOK AnswerIsOwn HeapDiscipline NoOrphanedCall StuckOnlyWhenFull RpcSafety` | no wrong answer, no double free, no orphaned call; the threads block each other only through a full socketpair; the calls are those of `QmiRpc` |
| `qmi_thread_live` | 2 requests, 1 indication, socketpair of 5 (never full) | `RpcSpec StopEndsProcess` | every call ends; a stop ends the process whatever the modem does |
| `qmi_thread_exit` | as the first | `ExitReleasesCaller` violated | the last `QmiThreadRecvQMI(NULL)` does not release every caller |
| `qmi_proxy` | 2 clients, 2 descriptors, 2 ids of a service, 2 SYNCs, 2 messages, 1 notice | `HeadOutstanding AnswerToAsker IdsExclusive QueueMoves ServesClients` | answers and ids stay with their clients, and the steps are those of `QmiService`, any client being slow at any time, unless disturbed; a queued request leaves the queue if the modem answers |
| `mbim_proxy` | 3 connections, 2 slots, one id (the largest), 2 messages, 1 indication | `SlotsExclusive AnswerToAsker ServesAgain ServesClients` | an answer is offered to the client that asked, with its id, and the steps are those of `MbimService`; the proxy serves again after a failure |
| `conn_main` | IPv4 and IPv6, 1 address, back-off 1 then 3, 2 changes, 1 lost request | `TypeOK RetryPlanned CallsHeld NoLinkLeft` | a retry is on its way, no call is left behind, nothing survives a restart |
| `conn_main_live` | IPv4, 2 addresses, 2 changes, 1 lost request | `Redials AddressFollows` | a family that is down is dialled again; the interface follows the call |
| `atc` | every kind of modem, 2 tries of the hand-shake, 2 ignored commands, 2 polls, 2 unanswered commands, 1 event | `StyleRight NewsComes Returns Settles` | the program asks in the dialect of the modem; it learns of a lost network or call; each command ends |
| `mbim_cm` | 2 tries to open, 2 set-up requests, 2 events, 1 unanswered request, SIGINT at any time | `NewsComes NoCallLeft Settles Returns StopEnds` | it learns of a lost call always, of a lost network but for `missed`; a stop leaves no call behind, and ends the program |
| `qfirehose` | 3 partitions, 6 jobs, images of 1 and 2 chunks, 2 ranges, 2 blocks, 2 reboots, 3 attempts | `StreamWhole DataInStep SuccessProgrammed BootsWhole Ends` | image data goes to a module that waits for this image; success means programmed; the module never has a new SBL over an unfinished system; the tool ends, or is held up for ever in one call by a module that is there |
| `qfirehose_report` | the same partitions and jobs, no reboot | `FailureReported` violated | built with `USE_IPC_MSG`, the tool tells no -1 after an upgrade whose SBL failed |
| `qdloader` | 5 chips, 3 partitions to keep (one of each kind) and 2 images (of 1 and 2 chunks), 2 slices, 1 report, 2 looks for the module, 1 further run | `SuccessComplete CalibrationKept Upgrades` | success means that all images are written and the calibration is kept, but for `cut`, `unsaved`, `unread` and `unheard`; the calibration data is in the module or in its file, whichever request fails, but for `unsaved`; a module that does its part is upgraded |

Why the bounds are enough. In `qmi_thread` three requests over two ids make the
counter wrap onto a request whose answer is still allowed to come; two slices have
a boundary between them and a last one; two indications and the start event fill a socketpair of
two. In `qmi_proxy` two messages give two clients queued behind each other, or an id that is
allocated and released; that two clients have an id of one service at once and one of them uses it takes more than TLC can
explore together with liveness, as does the grant of an id that another client has released, and is left to the proofs, which know no bound. Two descriptors are enough for one to change hands
while a message of its former owner is queued. In `mbim_proxy` the third connection
reuses a slot or is refused, all clients use the same id, so that only the slot tells
their requests apart, two messages are two requests of one client or of two, also in the two slots or in one after the other, and the largest id is the one next to the top byte. In `conn_main` two changes give a
lost call followed by a lost network or a reset, one lost request can hit any of
the requests of any handler, and two back-off steps are a first wait and the last one, which stays.
In `atc` two tries leave one `OK` behind for the next command, two polls are one that is repeated and
one that is the last; the modem is any of those of `Modems`. In `mbim_cm` two events are a loss and a
return, or a loss and a time-out. In `qfirehose` two blocks and one log message are enough for an answer
to be taken for that to the next block; two chunks put a failure before and within an image; the
jobs are the whole package with and without `-e`, one image, an image that is not there, a package
without erases and one without an SBL; two reboots take the module away and bring it back in
any mode; three attempts are spent in all the ways of the search.
In `qdloader` one further run finds the files the first has left; the schemes have an item of every kind that `test_bsl` tells apart, and
two slices are one that goes on to another and the last; the fifth chip is the RM500U, which is turned away.
`qmi_proxy`, `mbim_proxy`, `atc`, `mbim_cm`, `qfirehose` and `qdloader` check no type invariant: those of `QmiProxy` and `MbimProxy` are proved (`Typed`), those of the
others are parts of their inductive invariants or a description of the variables.

Deadlock is checked in every run except those of `QmiThread` under
`CHECK_DEADLOCK FALSE`: there the two threads really block each other when the
socketpair is full, which is what `StuckOnlyWhenFull` is about. `Atc` and `MbimCm` have it too:
their programs end (`"left"`), and nothing else is left to happen. `QFirehose` and `QDloader` end in a step of their own.

Fairness. `QmiThread`: both threads are scheduled; a timed wait ends; after a stop the
reader serves its control descriptor (`ReadQuit`) and the main thread handles the stop
(`MainStop`). Nothing is assumed of the modem: messages, hang-up and time-outs
of its `poll` may never come. `QmiProxy`: the loop serves a descriptor that stays ready, and
the modem answers the control request it has; without that the queue does not
move, and the code has no time-out. `MbimProxy`: the modem accepts MBIM_OPEN in the end if
it is sent again and again (strong fairness, because each time-out withdraws the
question), and the time-out of `poll` comes. `ConnMain`: the process is scheduled and
time goes on; `TimelyTick` lets no unit of time pass while a pipe has something to read,
because the loop needs milliseconds where the units are seconds. Nothing is assumed
of the network or the user. `Atc` and `MbimCm`: the threads are scheduled, time-outs come, a modem that is held up is
so for a time, and answers what it can within the shortest time-out. No fairness makes it lose or
find the network. `QFirehose`: the tool runs on wherever the next call returns by itself (`WF_vars(HostStep /\ ~Held)`): a read with nothing to read has a time-out, and a call on a
module that is gone fails. In a state of `Held` it may go on or not; nothing is assumed of the
module, which may stay silent, send without end, reboot, or go away. `QDloader`: the main thread runs on, since its reads and waits have
time-outs, and the modem ends what it burns, with or without success; everything else the module fails to do in time makes `faulty` true.

`Upgrades` says what the user relies on: unless the module was at fault, the tool ends, with success. TLC needs the two exceptions.

What the violated runs say about the code is under `findings` in `PROJECT.json`. More facts met on
the way, without a run of their own:

- `quectel-qmi-proxy.c:653-669`: the flag that is to restart the proxy after a modem reset is set in
  a branch for responses, and a revocation is an indication: it is never set.
- `main.c:580`: a SIGINT that arrives while a modem reset is being handled is lost, since the
  handler sets what the signal cleared, and the STOP is closed with its pipe: the program dials again.
- `main.c:571`: a change of the call list shortens a wait that was announced in the log.
- `mbim-cm.c:1663`: a modem that was suspended answers `NOT_OPENED`; the flag that notes it is
  read by nobody, and every request fails from then on. `Settles` of `MbimCm` excepts it.
- `atc.c:411`: once answers are one off, `requestGetProfile` may ask for ever. TLC finds the loop, and `Returns`
  of `Atc` excepts it.
- The RM500U is handed to `dloader_main` of QDloader, which knows the RG500U and the EC200U only and
  returns -1 at once; the release notes of 1.0.1 name it as supported. `Upgrades` excepts it.
- `aboot_main` and `fbfdownloader_main` end with success although a failure was told to them, in the cases of `unread`
  and `unheard` above, and `dloader_main` in those of `cut` and `unsaved`. `SuccessComplete` excepts them; in MCQDloader TLC finds each.
- In a build with `USE_IPC_FILE` `qfirehose.c` does not compile: line 536 uses `ipc_file`, whose block ends at 530.
- `stream_download_protocol.c:547` and `qfirehose.c:483`: see `StreamDownload` and `Firehose` above.

At `main.c:38` `usbnet_link_change` compares only which
families are up. With IPv6 enabled and its state unknown because each query
for it fails, IPv4 can be hung up and dialled again without a call with 0 in
between, and the interface keeps the old IPv4 address. `AddressFollows` is
therefore checked where the code promises it: with IPv4 alone.

## 4. The proofs

Proved for every value of the constants that meets the named assumptions.

`QmiThreadProofs`:
- `Typed`, `OwnAnswers`, `HeapKept`, `NoOrphans`, `BlockedByEvents`: all invariants of the run `qmi_thread`
  (the last is `StuckOnlyWhenFull`).
- `ImplementsRpc`: `Spec => RpcSafety`.

The argument. `AnswerIsOwn` is not inductive: that the modem's late answers cannot
pass for the answer to the pending request must be known before one arrives. The
invariant says that every answer still outstanding is less than `AnswerWindow` requests old and
that its transaction id tells how old (`Owed`, `Back`); two requests of one counter with one id
are a full turn, `TidMax` requests, apart, so an answer that matches is the answer. The other half says which
of `s_pRequest`, `s_pResponse` and the allocated requests belong to the call at each
place of the main thread, and that the final `QmiThreadRecvQMI(NULL)` comes after every write to
the descriptor. `StuckOnlyWhenFull` names the calls in which a thread sleeps until the other does something (`MainBlocked`,
`ReaderBlocked`), because the prover knows no `ENABLED`: neither thread has a step of its own. That the mutex is held only at
places that are not blocked, or in `write()`, is in `ThreadInv`; `StopInv` adds that a main thread which joins the reader has told it to quit, unless
the reader has announced its end, which nothing in the socketpair does before. It all rests on `ServicesAssumption` (a wire type tells control from the
rest), `EventsAssumption`, `WindowAssumption` and `BoundsAssumption`.

`QmiProxyProofs`:
- `Typed`, and `HeadIsOutstanding`: `Spec => []HeadOutstanding`;
- `IdsKept`, `AnswersReturn`: `IdsExclusive` and `AnswerToAsker`;
- `ImplementsService`: `Spec => ServesClients`.

The invariant adds to the second that a descriptor has one owner, that the requests in a
client's stream are its own, and that there is nothing queued at start-up. It is preserved although
accept reuses descriptors because `Cleanup` with anything queued is a disturbance.

For these, `RInv` adds to that invariant what holds until something disturbs the queue (`Routed`): clients' ids are disjoint and
known to the modem (`Exclusive`), what the modem works on bears the id of its asker (`MuxKnown`), a client's stream names
ids listed for it (`StreamIds`), and a release that is queued is the last word on its id (`QueueIds`), in the queue and in the
stream. The last is what makes the release of an id and its allocation to another client safe in whichever order the answers
are handled.

For the refinement the numbers of the requests matter, which the code does not have: `OInv` adds that no request has a number that was not given out (`SentBefore`), that what
the proxy has yet to read from a client is newer than all it has read from it (`ReadBefore`), and that its queued requests are in the order of their numbers (`QueueInTurn`).
From that follows that a request is in one place at a time (`Apart`): an answer ends it everywhere, so it cannot be answered twice, and a client that leaves takes
only its own. The answer to the head of the queue is the oldest of its client. That nothing on its way names an id which is granted (`Granted`) comes from
`StreamIds`, `MuxKnown` and `QueueIds`: what names an id is of the client that has it listed, or is the release with which the id went back to the modem. One
lemma per kind of step maps it to the action of `QmiService`, with the clients that were slow as those of the service (`AskStep`, `ReadStep`, `LeaveStep`, `MuxAnswered`, `ControlAnswered`, `Indicated`, `QuietStep`). All rest on `ProxyAssumption`.

`MbimProxyProofs`:
- `Typed`, `SlotsKept`, `AnswersReturn`: `TypeOK`, `SlotsExclusive`, `AnswerToAsker`;
- `ImplementsService`: `Spec => ServesClients`.

`AnswerToAsker` speaks of the last answer only. The invariant adds what must hold while it is
on its way: each request the modem may still answer bears the slot of its sender, which
keeps that slot as long as it is connected (`AllTagged`), and a stream holds its own
client's requests (`OwnStreams`). The lemma `TagInverse` says that slot and id can be read off
the tag; it rests on `MbimAssumption` (at most 255 slots, ids below 2^24).

For the refinement `OInv` adds that no request has a number that was not given out (`Numbered`), that what a client has written and the proxy not
read is newer than all the modem has of that client (`ReadBefore`), and that the modem has each request once (`OneEach`). So a
request is in one place, an answer ends it, and no second answer can come. `AskStep`, `AcceptStep`, `LeaveStep`, `RequestStep`, `AnswerStep`, `Indicated`,
`RestartStep` and `QuietStep` map the steps of the proxy to those of the service.

`ConnMainProofs`:
- `RetryKept`, `NothingLeft`: `RetryPlanned` and `NoLinkLeft`;
- `Typed`, `CallsKept`: `TypeOK` and `CallsHeld`.

The first two depend on the order of signals, alarms, events and time, and not on what the modem
answers, so the outcomes of the requests are never looked at. The invariant adds that the pipe and
the clocks have their types (`TimeTypes`), that a signal reported by `poll` is still in the pipe
when it is read (`ReadyInv`), and that the interface has addresses only while `s_link` says so (`LinkInv`).
It rests on `ConnAssumption`: every wait of the back-off is at least one unit.

For the other two the outcomes of the requests do matter. The lemmas say what each request leaves of a call (`Good`): of its type, gone with a
modem that is gone, and known to the program with a handle unless a request went astray. `HInv` adds that an event reported by
`poll` is still in its pipe, that there is no call before and after the loop unless STOP has ended it, nor in a modem that is gone (`CallsEnd`), and that after
a SIGINT `main` does not start over (`StopIsEnd`). It rests on `ConnAssumption` too.

`MbimCmProofs`:
- `StopEndsCall`, `NewsIsComing`: `NoCallLeft` and `NewsComes`.

`NoCallLeft` speaks of the end, and depends on every answer the program has had. While no request but those to open the device has
been given up (`Calm`), the reader is there, at most one request is with the modem, and then its answer is nowhere else (`OneOrder`), so that
an answer with the id of the pending request is the answer to it. `AnswersTell` is what an answer on its way says of the call, which the
program alone can make: a query that finds none, an address that is refused, or a `NOT_OPENED` mean that there is none, also later. From that
follows what `status` means at each request (`CallKnown`): `"down"` is never said of a call that is there, and one that is `"up"` is ended.

`NewsComes` speaks of every rest, and is about the order of the messages. `Agrees(t, v, k)` is the core of `NInv`: the modem's state of `t` is `v`, or an
event about it waits, or behind the first `k` messages of the inbox an indication says what it is now. Every action keeps it: when the modem changes it
reports that behind everything else, and the reader turns what it reads into an event unless `known` says the same. It holds of what an
answer says, from the place the answer has in the inbox (`AnswersBear`), and so of what `main()` knows once it has taken the answer (`CallTold`, `NetworkTold`).
The gap between the two is the one `mbim_recv_command` has: news read while the answer waits for `main()` is compared with what was known before. For the
registration that is the exception `missed`; for the call the proof shows that it does no harm: `main()` asks for the call only while it does not take it for down, so that what was known
is nothing or "connected", and after a dial it asks for the address. A late answer is never taken for another: one with the id of the
pending request is the last the modem has to give (`LastOrder`, `OneAnswer`); only the request for the registration that failed with it is missing (`spoiled`).
Both rest on `MbimCmAssumption`: `None` is none of the errors, nor a state that the modem can report.

`AtcProofs`:
- `StyleIsRight`, `NewsAlwaysComes`: `StyleRight` and `NewsComes`.

No line of an AT answer says which command it answers. Past the hand-shake, as long as no answer was late, at most one answer is on its way or
still with the modem, and it is that of the pending command (`OneOrder`); nothing is on its way when `main()` rests. For `StyleRight` it
is enough that an answer with a result has its line (`LineThere`), and that a modem which has the command does not refuse it (`NotRefused`). `NewsComes` must know in
addition what an answer on its way says: it is so, or the report of the change is behind it or in the pipe (`Told`). A report with the prefix of the
pending command is taken for its result; then the line of the answer itself is to come, is not claimed, and becomes the news (`Taken`). `RegKnown` and `CallKnown` say the
same of `attached` and `status` at every place of the loop from which `main()` is not about to ask. It rests on `AtcAssumption`: the numbers of
tries, ignored commands and polls are positive, and `None` is none of the outcomes and prefixes it is compared with.

`QFirehoseProofs`:
- `DownloadWhole`, `DataBelongs`, `SuccessIsProgrammed`, `BootsWholeOrNot`: `StreamWhole`, `DataInStep`,
  `SuccessProgrammed` and `BootsWhole`, all the invariants of the run `qfirehose`.

An answer that comes after its time-out is taken for that to the next command, and two places look at nothing but
the kind of answer. `IInv` says, for each place of the host, what may be on its way then. In `stream_download` either one write is outstanding
in step (`WriteInStep`), or there is an answer too many, which stays that way until `close` (`WriteLags`); as the module answers in order and the
answer to `close` is awaited, success is told only after the last write was answered (`WriteFirst`). In `firehose_main` the
word to begin, an ACK with rawmode, comes from the module only when it takes a program command, and is then the last on its way
(`ToBegin`, `RawInStep`), so that one that is read is that of the image the host is at. From the place in the loops follows what the
flash holds: `Programmed` says that what the loop has passed is written, `First`, `SblErased` and `SblLast` that the SBL is erased before
anything else and written after it. It rests on `FirehoseAssumption` (an image has a chunk; the tables have commands to erase and program a partition,
and vendor commands) and on `StreamAssumption`.

`QDloaderProofs`:
- `NeverLost`: `CalibrationKept`.

The flash is partitioned anew, and what is to be kept written, only when each partition to keep has a whole copy that this run has made, or is one of
`unsaved`: `InOrder` says so of each place in the loops (`SavedUpTo` within `"backup"`, `AllSaved` after it). A copy that is made anew never
makes things worse, since a file is opened only while the flash still has the contents, and closed with all of them, or else the partition joins `unsaved` (`BackupSaves`). The other two
downloaders write images only, and so does the modem behind `Aboot`, because whatever was told to it, and what it has yet to program, are images
(`OnlyImages`).
- `SuccessIsComplete`: `SuccessComplete`, with a second invariant, `SuccessInv`, on top of the first. Each chip has its own downloader (`OwnWay`), and:
  - `Written` says what `test_bsl` has written at each place in its loops: the images before the item it is at; on the EC200U the partitions
    to keep before it; on the RG500U, once the last item of the inner loop is back, all of them; and that the image of the NV
    has the contents of the module, or was merged from a copy without them, or without all of them (`Merges`). A partition that was written short is in `cut` (`Arrived`).
  - `Burnt` says it for the EC200T: the word that ends its download comes when all is burnt, or is `unheard`.
  - `Answered` is about the two threads of `aboot_main`, the messages between host and modem, and `cmd_response`. There is at most one answer, in one of
    four places: asked for, kept by the modem, on its way, or in `cmd_response` (`OneAnswer`); it has been read when the next command is sent (`InTurn`),
    and what is asked is the command of the line (`AsOrdered`). So a positive answer stands for what the modem does for *this* command (`Meant`): the image
    is programmed, will be, or is known to have failed; and that to `complete` says that nothing is left and nothing has failed. `Programmed` sums up the lines passed.

Both rest on `SchemeAssumption`: the package lists one second loader and after it every partition to keep, because `test_bsl` looks
for those from there on, and every image, because nobody can write one before; it lists what to keep once, because its file has the name of the item; it has one NV, as `FileisNV` knows one name; on
`AbootAssumption`: a command to flash names an image, and each image has one; and on `PartsAssumption`: there is no image for a partition to keep.

Only model-checked: liveness (`RpcSpec`, `StopEndsProcess`, `QueueMoves`, `ServesAgain`, `Redials`,
`AddressFollows`), which is out of the prover's reach, and the liveness of the dialers and the download tools for the same reason.
Every invariant a passing run checks, and the safety part of the three refinements (`QmiRpc`, `QmiService`, `MbimService`), is a theorem.

## 5. What is not modelled

- CUIoT dialer: it does not build as committed. `lte_dial.c:418` uses a variable whose block has ended, `lte_dial_task`, which
  `main.c` calls, is commented out, two files define `main`, and two the same globals. There is no program whose states could be described.
- QMI message layout, device discovery, DHCP, netlink, usbfs, usb2tcp: pure I/O or layout; where
  a model depends on them, their success and failure is a choice.
- `GobiNetCM.c`, `qrtr.c`: other ways to reach the transaction core that is modelled.
- V1.6.0.16: an older copy; libmnl: a vendored library; demos: no state.
- In the modelled components: client id allocation (`QmiWwanInit`, `QmiWwanDeInit`),
  messages split over several reads, the stack of a process that leaves threads behind after an
  early return of `qmi_main`; QMI over MBIM; SIM PIN entry; the md5 check of a package.

More than half of the lines of the repository are such code: an older copy of the connection manager,
headers of message layouts (`MPQMUX.h` alone has four thousand lines), vendored libraries, and tables of
log texts. The share of lines that `map` covers is small for that reason.

## 6. The plan

Done: the transaction core with its abstraction and proofs; the QMI proxy, the MBIM proxy and the
connection loop with their invariants proved; the MBIM dialer, the AT dialer, QDloader and QFirehose with
all their invariants proved.

Next, in this order:

1. client ids: `QmiWwanInit` and `QmiWwanDeInit` on top of `QmiThread`.
2. `ConnMain` over `QmiThread`: the thread an early return leaves behind.
3. the package formats of QDloader as pure functions: the CRC, the split of an image into chunks.

Proofs after that: the safety part of what the client ids and the thread left behind add to `QmiThread` and `ConnMain`.
