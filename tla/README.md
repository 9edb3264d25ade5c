# A verification of PC98IMEBridge

PC98IMEBridge lets a person type Japanese into a PC-98 program that runs in the
np21w emulator, with the input method of the Windows host. A resident DOS
program (`IME98TSR.COM`) watches for a hotkey, opens a session over COM1 with a
Windows program (`ImeDosBridge.exe`), and puts the text it receives into the
keyboard queue of the PC-98 BIOS. This directory holds TLA+ models of that
system, TLC configurations that check them on small instances, and proofs that
TLAPS checks for every value of the constants.

Contents: [inventory](#inventory), [modules](#modules), [runs](#runs-and-bounds),
[disagreements](#disagreements-between-documents-and-code),
[fairness and atomicity](#atomicity-fairness-and-the-environment),
[proofs](#proofs), [what is not modelled](#what-is-not-modelled),
[plan](#plan).

## Inventory

| component | source | state | operations |
|---|---|---|---|
| resident worker | `dos/pc98/foreground.c` | link state, three IME flags, sequence numbers, response counter, staged text and key | `pc98_service_foreground` (hotkey, receive, inject text, inject key, open, time out), `pc98_service_returned_hotkey`, `pc98_prepare_uninstall` |
| keyboard queue | `dos/pc98/inject_bios_pc98.c`, BIOS work area | ring of 16 words, head, tail, count | enqueue, withdraw the hotkey Space, dequeue in the hook, BIOS store and read; `pc98_bios_inject` for the foreground client |
| interrupt hooks | `dos/pc98/tsr_hook.S` | function number of the call, private stack | INT 18h hook and post-filter, wait loop, COM1 interrupt; idle and timer hooks (never installed) |
| COM1 capture | `dos/pc98/serial_irq_buffer_pc98.c` | capture flag, saved PIC mask, 128-byte ring | begin, end, read a byte |
| 8251 driver | `dos/pc98/serial_pc98.c` | port open, mode | open, close, write, read |
| configuration loader | `dos/pc98/serial_pc98.c` | six settings, line buffer and flags | `pc98_serial_load_config`, `parse_config_line` on `IME98.CFG` |
| install, unload | `dos/pc98/tsr_main.c`, `tsr_hook.S` | interrupt vectors, saved vectors, memory blocks | install, refuse, stay resident, `/U` |
| Windows bridge | `host/ImeDosBridge/BridgeForm.cs` | stream, `openSequence`, `imeReady`, input box | connect, serve packets, send text, key, CLOSE; focus |
| framing | `dos/common/protocol.c`, `Protocol.cs`, `tools/protocol.py` | bytes of a partial packet | build, parse, CRC, resynchronise |
| foreground client | `dos/pc98/main.c`, `ime98_control.c`, `inject_bios_pc98.c` | port and device open, attempt, text, exit code | HELLO attempts, PING, OPEN, TEXT, ACK, injection with or without verification, exit |
| device driver | `dos/pc98/device_driver.S` | open handles, session flag | open, close, IOCTL commands |
| bindings, options | `BridgeKeyBindings.cs`, `Program.cs` | none | parsing |
| diagnostics, tools | probes, debug pipe, build scripts | none | output |

How they interact. The application calls INT 18h; the hook runs the worker, then
the BIOS, then looks at the word the BIOS returned. A received byte raises INT
0Ch, whose hook stores it and runs the same worker. The worker talks to the
bridge over COM1 by packets: HELLO/PONG, OPEN_IME, TEXT/TEXT_ACK, KEY/KEY_ACK
and CLOSE_IME from either side. The bridge runs its packet loop and its key
events on one user-interface thread. The foreground client `IME98.COM` is a
second, simpler PC-98 end of the same protocol: one run asks for one text, and
it needs the driver `IME98.SYS` for a session. Both programs read `IME98.CFG`
first and share the encoding of key words. TSR and client are not run at the
same time on one COM1.

What is hard here: the host runs concurrently with everything; an interrupt may
come between any two instructions of a wait loop; a session may end on either
side while packets of it are under way; the BIOS queue fills up in the middle of
a text; the connection may break; a write may time out half way; and other
resident programs hook the same vectors. `PROJECT.json` lists each such hazard
at its line with the properties that look at it.

Correctness, component by component:

- worker: the flags agree; the port, the receive interrupt and the PIC mask are
  held exactly as long as the link; only input of the open session is staged;
  a text is injected whole and in order before it is acknowledged; every
  handshake and session ends;
- queue: five writers, and no word is lost, doubled, reordered or overwritten;
- hooks: the processor never sleeps on input, a waiting application is served;
- install and unload: no vector chain reaches memory that was given back;
- bridge: it lets the user send only into a session that is open, and an input
  enters the queue once at most;
- framing: every byte reaches the TSR's packet reader once and in order, and
  noise or a cut-off packet costs each reader no more than the rest of the
  system can bear;
- configuration: the settings are what the last valid lines say, however the
  file lies in the blocks that are read;
- foreground client: it ends, it gives back what it took on every way out, and
  it reports what happened to the text.

## Modules

| module | models |
|---|---|
| `KeyWords` | how bytes of a text become key words: CR LF as one unit, the words, the order in which they are queued |
| `KeyDeque` | what the keyboard queue promises: a bounded FIFO whose newest word may be withdrawn if it is the hotkey's Space |
| `KeyQueue` | the ring of the BIOS work area; implements `KeyDeque` |
| `TsrWorker` | the resident worker, one action per step of a phase; uses `KeyDeque` and `KeyWords` |
| `BridgeHost` | the Windows bridge: packet handlers and sends |
| `BridgeLine` | the bridge at its end of a line that loses, breaks and comes back |
| `TextDelivery` | what the bridge promises its user: an input enters the queue once at most, after it was sent |
| `BridgeSystem` | `TsrWorker` and `BridgeLine` joined; implements `TextDelivery`, and implements `TsrWorker` with the assumption about the host |
| `InputHook` | `TsrWorker` entered through the INT 18h hook, the BIOS, the wait loop and the COM1 interrupt |
| `Lifecycle` | install, refusal and unload of copies of the TSR among other resident programs |
| `ReceiveRing` | the way of a byte from the 8251 through the receive interrupt, the ring and `poll_transport` |
| `Framing` | `ReceiveRing` with the three packet readers (TSR, foreground client, bridge) on the same bytes |
| `ConfigLoader` | `IME98.CFG` read in blocks, cut into lines, parsed and applied |
| `ForegroundClient` | runs of `IME98.COM` with the driver, the injection and its verification, joined with `BridgeLine` and `KeyDeque` |
| `MC...` | the constants of the TLC runs |
| `CompositionProofs` | theorems about `InputHook` and `BridgeSystem`: the worker of `TsrWorker` in its two surroundings |
| other `...Proofs` | theorems and proofs about the module they are named after |

### TsrWorker

The variables carry the names of the C variables. `pc` is the phase of a running
`pc98_service_foreground` call and `budget` what is left of its loop bound:

| phase | C code | actions |
|---|---|---|
| (start) | `foreground.c:364-372` | `ServiceHotkey`, `ServiceQuiet` |
| `poll` | `poll_transport`, `handle_packet` | `PollPacket`, `PollDone` |
| `text` | `inject_pending_text` | `InjectWord`, `InjectStall`, `InjectFinish` |
| `key` | `inject_pending_key` | `InjectKey`, `InjectKeyFull` |
| `open` | `send_open_ime`, `start_link` | `OpenSession`, `StartLink` |
| `tick` | response counter | `Tick`, `Timeout` |

A phase whose condition is false is skipped, as in the C code; `FromPoll`,
`FromText`, `FromKey`, `FromOpen` and `FromTick` name the next phase with work.
The call is split into these steps because packets of the host may arrive
between two receive polls, and because the steps are what the properties speak
about; nothing else on the PC-98 moves while `pc # "idle"`. `KeyPress`,
`HotkeyPress`, `HotkeyRelease`, `AppRead` and `ReturnedHotkey` are the user, the
BIOS and the application between calls. `Transmit` covers the three outcomes of
a write: the port is closed, the packet is out, or a transmit timeout left a
piece of it (`Broken`).

A `pending_text` of length zero is an empty staging buffer, as `pending_length`
is in C. A text is a sequence of bytes of which only CR, LF, BS and TAB matter.
`found_mask`, `injected` and `abandoned` are history variables; no guard reads
them.

### BridgeHost, BridgeLine, BridgeSystem

Wires are sequences of packets. What the PC-98 sends while no bridge listens is
lost (`Carry`); a closed port loses what arrives (`ClosedPortLoses`); a break
takes the bytes in flight (`LineLoss`) and the bridge notices at its next read.
A piece of a packet makes the bridge skip it and possibly packets behind it, wait,
or end the connection (`SkipsFragment`, `RejectsFragment`). That these are the
outcomes `ReadPacketAsync` can have on the bytes is not assumed: a piece of one
byte is a stray magic byte, of which `StrayMagicCosts` of `Framing` says what it
costs, and of a longer one `FragmentCosts` says that nothing behind it is read
before the connection ends. `BridgeHost` reads the capacity a HELLO
announces and sends no longer text; the resident worker announces its staging
buffer (512 bytes, the bridge's default, so its modelled HELLO carries nothing),
the foreground client the 16 places of the keyboard queue.

### InputHook

`fg` is where the application's INT 18h call is, `job` whether the worker
occupies the private stack. Interrupts are accepted where the assembler has them
enabled (`Interruptible`): in the application, in the BIOS, at the top of the
wait loop and in HLT, and not between the check of the queue and HLT, because
STI takes effect after the following instruction.

### Lifecycle

A vector holds the handler of a program, of the BIOS, or, after
`pc98_restore_serial_irq`, the address of a variable (`Data`). Each stretch
of code between two DOS calls is a step of its own, because interrupts arrive there.
`Chain(v)` is the path an interrupt takes, written as the least set of handlers
that holds the vector's and, with a program's handler, the one that program
saved: a set definition, unlike a walk, can be reasoned about for any number of
programs. Programs have names of their own: `LifecycleAssumption` says that no
copy is one of the others and that none is called `"bios"`.

### ReceiveRing and Framing

The 8251 holds one byte; the emulator holds back the others. The receive
interrupt takes the byte, stores it unless the ring is full, and calls the
worker, which polls the ring first and the 8251 behind it, up to its budget. The
worker also runs from INT 18h at any time. A polled byte goes to `AcceptByte`.
The client and the bridge read the same bytes directly (`ClientByte`,
`HostByte`). One collecting function serves all three readers, since they differ
in two places only: what the byte behind a stray first magic byte means, and
what a packet that does not parse means. The CRC is a constant operator: TLC
uses a weighted sum.

An input is a sequence of bytes together with the places (`Spans`) where whole
packets and pieces of packets stand in it; everything else is noise. No reader
looks at the places: the properties compare what was read with them. `Reads` says
that a list holds exactly the packets of a set, in the order of the stream.

### ConfigLoader

A file is a sequence of tokens: a key name, a hotkey name and any other
character. The loop is modelled token by token with the flags of the C code; the
reads between the blocks are steps, since a line may lie across them and a read
may fail. The second half of the module says what a file means without any of
that: where a line begins, where it ends, which lines set an option, and that
the last of them counts (`Said`).

### ForegroundClient

`pc` is the next step of `main`; "none" is the time between two runs. A step
ends where the client waits for the line or where Ctrl-C can end it; interrupts
are on except in the loop that fills the queue, so a key may be typed between
any two steps outside of it, and the test of the queue is a step of its own.
`session_state` and `open_count` are the driver's and outlive a run. A read
gives the packet at the head of the wire, or gives up, with or without a packet
lost (`ReadsNothing`): its limits of four empty reads and 128 bytes can strike
anywhere.

## Runs and bounds

| run | cfg | outcome | distinct states |
|---|---|---|---|
| key_queue | `MCKeyQueue.cfg` | holds | 324 |
| tsr_worker | `MCTsrWorker.cfg` | holds | 99,102 |
| bridge_system | `MCBridgeSystem.cfg` | holds | 231,123 |
| input_hook | `MCInputHook.cfg` | holds | 62,188 |
| lifecycle | `MCLifecycle.cfg` | holds | 96,794 |
| framing | `MCFraming.cfg` | holds | 298,500 |
| config_loader | `MCConfigLoader.cfg` | holds | 10,212 |
| foreground_client | `MCForegroundClient.cfg` | holds | 455,200 |
| stale_ack, blocked_on, lifecycle_refused, stray_magic | one each | refuted | |

- **key_queue**: ring of three slots starting at 4. `RingConsistent`: the tail is
  count slots behind the head. `ImplementsDeque`: refinement of `KeyDeque`.
  Three slots give every relative position of head and tail, empty, full, and
  the wrap of each pointer in each direction; the proofs cover every capacity.
- **tsr_worker**: queue of two words, batches of two, a text of three units with
  a CR LF, so that both the full queue and the used-up batch stop the injection,
  once each side of the CR LF. The response limit is 3 worker calls (65535 in the
  code) and sequence numbers are taken modulo 3 (2^16), so that a session with a
  number of long ago is in reach. The host may send any packet of any number at
  any poll, at most one TEXT or KEY for each OPEN_IME (`OneOutstanding`);
  `bridge_system` shows that the real bridge does so. The user types an ordinary
  Space, the hotkey, and lets it go, at any time.
- **bridge_system**: a text of two words and a key to send, three strokes at the
  PC-98 (hotkey or a letter), one fault: a broken connection or a transmit
  timeout. Two words, batches of one, a queue of one word and a limit of two calls
  let a text be injected whole within its session or be cut off by the timeout,
  and three strokes are enough for a session, its timeout and a second session
  with the leftovers of the first, which is the hardest case the code has.
  Sequence numbers go up to 11, more than three strokes can use, so they do not
  wrap. `TsrAsAssumed` (the joined system is `TsrWorker` with the assumption),
  `DeliversAtMostOnce` (refinement of `TextDelivery`), `MatchingAckIsHonest`.
  `ReadyMeansOpen` relates `imeReady` to the session of the PC-98, as long as no
  piece of a packet is on the line to the bridge: when a timeout cuts off the
  TEXT_ACK of a text staged by an earlier session, the bridge skips the piece and
  stays ready for a session nobody has open. `ForgottenSessionEnds`: a session
  nobody will answer is revived by nothing and goes OFF. `OpenReachesBridge`:
  what is switched on gets through or goes OFF. The two liveness claims hold if
  the application keeps calling INT 18h (`KeepsCalling`, see
  [fairness](#atomicity-fairness-and-the-environment)), and the bound on faults
  means that transmits do not fail for ever.
- **input_hook**: AH = 00h, 01h and 05h, queue of two words, one text of three
  units. `NoSleepOnInput`: no lost wakeup. `WaiterIsServed` and
  `StagedMovesWhileBlocked` are liveness: a waiter in the hook's loop gets its
  word, and when input is staged in front of an empty queue, the interrupt that
  staged it moves a word of it into the queue, and so gives the waiter one.
- **lifecycle**: two copies of the TSR and one other program that hooks INT 0Ch,
  INT 18h or both. One program in between is enough to hide a copy from the
  ownership checks; two copies are enough for a duplicate.

- **framing**: headers of six bytes instead of eight, a ring of two slots, a
  budget of two bytes. `BytesInOrder`: no byte is dropped, doubled or overtaken,
  although two slots hold one byte only. `TsrResynchronizes`: after every byte the
  TSR has handled exactly the packets that are complete, if the magic sequence
  stands nowhere outside of packets. `StrayMagicCosts` measures how far client
  and bridge are from the document that **stray_magic** refutes: they miss a
  packet if and only if an odd number of stray magic bytes ends in front of it.
  It is wrong to say that such a byte costs one packet: the bytes of a missed
  packet are themselves noise to the reader, and when the last of them, half of
  its CRC, is 49h, the next packet is missed as well. `FragmentCosts`: what a
  packet cut off by a transmit timeout costs the bridge.
  The noise has no magic byte, one, two and three of them, a second magic byte
  alone, and a near miss; one packet holds both magic bytes in its payload and
  one ends in a magic byte; the fragments end at every byte of the header and
  inside the payload.
- **config_loader**: blocks of three tokens and lines of six, so that every line
  of the files lies across a block and some are too long; ten pieces of file,
  joined in pairs and, from a smaller set, in threes, with and without line ends.
  `LoadsEveryLine` compares the settings with `Said`. Deadlock is not checked
  here and only here: the loader ends.
- **foreground_client**: two runs in a row, since a run inherits the driver, the
  keyboard queue and late packets from the one before; two HELLO attempts (four
  in the code), a queue of two words and texts of one unit in two bytes, of two
  words and of three; two keys typed at the PC-98, so that one may be in the
  queue before the test and one come after it; one fault of the line.
  `ReportsTrue`: exit code and verification say what happened.
  `SessionGivenBack`: no way out keeps anything. `CapacityRespected` holds
  without line faults. `ClientEnds` is liveness.

Except in config_loader deadlock is checked as well.

Definitions marked "Fault for the checks" are small deviations from the code (a
dropped guard, a missing reset, an off-by-one). They are used nowhere in the
specifications; exchanging one for the definition it follows makes the named
property fail, which shows that the property is sensitive to that code.

## Disagreements between documents and code

Four runs refute what a document of the repository says.

| run | document | code |
|---|---|---|
| stale_ack | a sender waits for the matching ACK (`docs/protocol.md:70`) | the bridge takes any ACK (`BridgeForm.cs:439`), and the response timeout leaves text staged that is acknowledged in a later session (`foreground.c:392`) |
| blocked_on | ON opens COM1 and sends HELLO (`SPECIFICATION.md:76`) | in a blocking read the wait loop halts before the link is started (`tsr_hook.S:199-211`) |
| lifecycle_refused | a duplicate install is refused (`SPECIFICATION.md:70`) | the refusal sets INT 0Ch to the address of a variable (`tsr_hook.S:545`) |
| stray_magic | receivers resynchronize on the next valid magic sequence (`docs/protocol.md:3-4`) | foreground client and bridge drop the byte behind a stray 49h unseen and miss a packet it begins (`main.c:144-147`, `BridgeForm.cs:549-555`); the TSR looks at it (`foreground.c:192-195`) |

`StrayMagicCosts`, in a passing run, says what the code does instead of what
`docs/protocol.md:3-4` says; it is about the size of the loss and does not
support the document.

Four more were met while modelling. The models behave as the code does, and no
passing property claims the document's side:

- `docs/protocol.md:71` says that timeouts return the toggle to OFF; a transmit
  timeout of HELLO or OPEN_IME leaves it ON and the worker tries again at its
  next call (`foreground.c:95`, `325`). `StartLink` and `OpenSession` have this
  outcome.
- `SPECIFICATION.md:95` allows one outstanding TEXT or KEY; with `--text` the
  bridge keeps `imeReady` after the text went out (`BridgeForm.cs:422`), so that
  the user may send a second input. `ReceiveOpen` does the same. The bridge run
  has no automatic text.
- `SPECIFICATION.md:152` says that an ordinary Space stays ordinary; the hotkey
  keys are polled later than the Space was stored (`foreground.c:364-368`), so a
  Space typed before them may be withdrawn. A stored word does not say with
  which keys it was typed, and neither does the model's.
- `docs/architecture.md:30-31` lets the ACK follow the injection; the foreground
  client without `/VERIFY` acknowledges first (`main.c:334-349`). The text may
  then still be refused by the queue, and the exit code is the only trace:
  `ReportsTrue`.

Where a passing property needs an exception for one of these, the exception is a
history variable named for it: `abandoned` (input a response timeout cut off),
`misrestored` (a refused install put the vector back), `struck` (the hotkey was
struck in the middle of an unload) and `aborted` (a run of the client that
Ctrl-C ended).

## Atomicity, fairness and the environment

Atomicity. The worker runs with interrupts off from its entry to its return on
one private stack, so no other PC-98 code interleaves with it; only the host
does. The three queue routines run under CLI. In the bridge, `ListenAsync` and
`ServeAsync` continue on the user-interface thread, the key events run there
too, and `SendAsync` writes before it returns; so each handler between two reads
is one step. `pc98_uninstall_resident` is one step per DOS call. The foreground
client is a DOS program with interrupts on: each exchange with the line and each
word of the injection is a step, and `KeyPress` may come between any two outside
of the loop that runs under CLI.

Fairness, and why the code justifies it:

- `WF(CallGoesOn)`, `WF(WorkerSteps)`: every loop of the worker has a bound, so a
  call that has begun returns. In `BridgeSystem` this is all the fairness there
  is: nothing is assumed of the application, the line, the bridge and the users;
- that calls begin is not given by the code. The worker runs in an INT 18h or in a
  COM1 interrupt, and an application blocked in AH = 00h makes neither; what
  becomes of a switched-on IME then is the run `blocked_on`. So it is a hypothesis
  about the application wherever a property needs it: `KeepsCalling` in
  `ForgottenSessionEnds` and `OpenReachesBridge`, whose statements carry it, and
  `WF(Worker)` in the `FairSpec` of `TsrWorker`, for `StagedEnds`, `HandshakeEnds`
  and `SilentSessionEnds`, which count in worker calls. `OpenReachesBridge`
  without it is false;
- `SF(App /\ Kb!Take)`, `SF(Int18)`: the application keeps reading the keyboard.
  This too is an assumption about the application, stated as strong fairness
  because the worker and the user's strokes disable reading now and then;
- `SF(CallSteps)`: a byte takes longer to arrive than to be served, so
  interrupts leave the call its turn. COM1 and keyboard interrupts have no
  fairness: they may never come;
- `WF(Client)`: a DOS program that runs is given the processor, and its reads and
  writes give up by their limits, so no step of it waits for ever. Nothing is
  assumed of the bridge, the line or the user: `ClientEnds` is "a disconnected
  host cannot hang the foreground client forever" (`main.c:130-132`). That one
  read ends by its limits is taken from its loop and not shown.

Without fairness on the user or on the line, `StagedEnds` and `WaiterIsServed`
are stated for executions in which the user finally leaves the keyboard alone: a
user who strikes the hotkey for ever closes every session before it gets its
text through.

Environment, marked `external` in the map: the BIOS stores, removes and returns
a key word in one step; bytes sent while no bridge is connected are lost; DOS
runs one program at a time; another resident program unhooks only when it is on
top of its vectors.

## Proofs

The proofs keep to one shape: the type invariant first, then the invariant that
is inductive, one step per action, and the theorems by one temporal step.

`KeyQueueProofs` (every capacity, start address and word set):
`TypeCorrect`, `RingStaysConsistent` and `RingImplementsDeque`. The invariant is
`TypeOK /\ RingConsistent`: neither is inductive without the other, since a
withdrawal that ends on a legal slot needs the tail to be where the count says.
Lemmas about `Advance` reduce the address arithmetic to indices: walking at most
once around from a slot ends on a slot, different walks shorter than the ring
end on different slots, and one step is `Succ` or undoes `Pred`. The refinement
then shows that each writer changes `Contents` as `Put`, `Take` or `Withdraw`.

`TsrWorkerProofs` (every queue size, batch, poll budget, wait limit, sequence
width, set of packets and of transmit outcomes, with or without
`OneOutstanding`):

- `TypeCorrect`: by parts, flags, link, staged input, queue and phase, because
  the parts need different facts of each other;
- `FlagsAgree` and `PortGivenBack`: `SessionFlags` and `PortOwnership` are not
  inductive on their own. `OpenSession` and `StartLink` preserve them only if the
  worker enters the open phase with `open_pending` set and no session out, and
  `PollPacket` needs a link: `PhaseHasWork` says so for each phase, and
  `FlagsInv` is the conjunction of the three;
- `InjectionInOrder`: `InjectedInOrder` is inductive over `TypeOK`. Its heart is
  `NextUnit` of `KeyWordsProofs`: the byte behind a unit is the start of the next
  one. The foreground client's proof uses the same lemmas;
- `AckMeansComplete`: only `InjectFinish` sends a TEXT_ACK (`SenderOf`), its
  guard says the offset is the whole text, and `InjectedInOrder` says what that
  offset stands for.

`InputStaysInSession`, `AcksStayInSession` and `OpensAfterAnswer` are the session
discipline, each under `ASSUME OneOutstanding`, which says that the host sends
one TEXT or KEY for an OPEN_IME: without it a second input may be staged behind
a timeout. `StagedInSession` becomes inductive together with `InputHasWork`: in
the injection phases there is something staged, and both a text and a key only
behind a timeout. The two action properties
follow from it, since an ACK is sent by `InjectFinish` and `InjectKey` only and
an OPEN_IME by `OpenSession`, which is not reached with input staged.

`CompositionProofs` carries these theorems to the two places the worker runs in.

- Hooks: `HooksImplementWorker` shows `HookSpec => Spec`, every step of
  `InputHook` being a step of `TsrWorker` or a stutter of it. For
  `NeverSleepsOnInput` (under `OneOutstanding`) `SleepInv` follows the wait loop:
  while a call of the worker runs on an empty BIOS queue, staged input is still
  ahead of it (`Serves`), so when the loop comes to its check, nothing is left
  that it could have queued, and nothing runs between the check and HLT.
- Bridge: `SystemImplementsWorker` shows `SystemSpec => Spec` from `WireInv`, that
  everything on the wires is well formed and of the known packets, for which
  `BridgeSystem` gained `CarriedAssumption`. The worker's theorems without
  hypothesis hold in the whole system by it.
- `TsrIsAsAssumed` shows the stronger refinement that `bridge_system` checks
  (`TsrAsAssumed`): the bridge and the line discharge `OneOutstanding`. The
  invariant is an order of tickets, `Rising`: the number of the input taken last,
  those of the inputs on the wire, of the session the bridge is ready for, and of
  the OPEN_IMEs on the wire rise strictly, up to the last number given out.
  Packets lost or skipped leave such an order intact, a reconnection drops its
  middle, so no retry and no break makes one OPEN_IME bring two inputs.
  `SystemKeepsSession` draws the three session properties from it, with nothing
  assumed of the host. Both have two hypotheses, and both need them:
  `AutomaticText = << >>`, since in automatic mode the bridge stays ready after its
  TEXT and the user may send another for the same OPEN_IME; and `[]NoWrap`, that
  the 16-bit sequence number has not come round, since a left-over
  `pending_sequence` would then equal the number of a new session.
- `ReadyForOpenSession` shows `ReadyMeansOpen`, under `AutomaticText = << >>`. The
  property itself says that no piece of a packet is on the line, so the theorem
  covers broken connections and the transmit timeouts of which no connected
  bridge gets a piece; see [runs](#runs-and-bounds) for the others.
  Numbers may wrap here. Its
  invariant `ReadyInv` extends the property to packets under way: whatever the
  bridge will be ready for when it has read what is on the wire (`Readies`), the
  PC-98 awaits (`Awaits`).
- `ForgottenIsNotRevived` shows `ForgottenStays`, the safety half of
  `ForgottenSessionEnds`, from `FlagsInv` of the worker: while nothing is under
  way or staged the worker can only count or give up, a stroke or a timeout
  makes it OFF with the link closed, and neither a reconnection nor a user makes
  the bridge ready, since only an OPEN_IME does.
- `DeliveredOnce` shows that the system implements `TextDelivery`
  (`DeliversAtMostOnce`). Its invariant `OnceInv` follows an input along the three
  places it can be in: every TEXT or KEY on the line, and what is staged and not
  begun (`FreshText`, `FreshKey`), is an input that was sent and did not enter the
  queue (`Waiting`), and no two of these have the same first word (`Once`). Numbers
  may wrap here. The proof uses the order on the line and the single staging
  buffers, and no session number: a number decides whether an input is taken, not
  whether it is taken twice.
- `MatchingAckMeansEntered` shows `MatchingAckIsHonest`, under `[]NoWrap`.
  `HonestInv` says that ACKs under way carry numbers already staged (`AcksBehind`)
  and that, while the user waits, the input sent last is the only one on the line
  with the number of the bridge's session (`AskedLast`), and either is in the queue
  or is at best staged whole (`StillStaged`) with nothing under way that looks like
  its answer (`Unanswered`). "At best", since the PC-98 may have dropped it. A new
  input keeps it because `Rising` puts the session's number above all that is on
  the wires.

Both need `AutomaticText = << >>`, as in automatic mode the text goes to the PC-98
again for every OPEN_IME, and `Distinct`: the first words of `UserInputs` differ. The
last is about the history, not the program: `delivered` records the number of the
input a queued word begins, and equal words would have no number of their own. TLC
evaluates the properties on inputs that satisfy it.

`LifecycleProofs` (any number of copies and other programs): `TypeCorrect`, and
`UnloadReportsHonestly` from the invariant that between the two releases
`result` already tells what became of the environment block. `ChainsStayLive`,
`NobodyIsCutOff` and `NothingCapturedBehind` rest on `ChainInv`. For each vector
that no refused install has spoilt it says (`Sound`) that the vector and all
saved vectors point to handlers in place or to the BIOS (`PointsHome`), that no
handler is pointed at twice (`PointedOnce`), and that a set of programs that the
pointers do not leave contains all that are hooked (`LeadsToAll`). The first
makes chains live, the third complete, and the second is why unhooking the first
of a chain cuts nobody off. No order on the programs is needed: what hooks goes
in front, what unhooks was in front, and `LeadsToAll` is kept by both. `LinkInv`
ties an open session to a copy that INT 18h reaches.

`FramingProofs` (every ring of two slots or more, every budget, header size,
payload limit, CRC and byte stream): `RingTypeCorrect`, `RingLosesNothing`,
`TsrFindsEveryPacket`, `StrayMagicIsBounded` and `FragmentsAreContained`. `BytesInOrder` is not inductive: that
the ring never refuses a byte needs the reason, which is that the interrupt that
stores a byte runs the worker at once and the worker polls the ring first. The
invariant says so: the ring is empty (`Drained`), or the worker is polling with
budget left and the ring holds the one byte (`OneByteHeld`). So 128 slots are
126 more than the design needs. From it follows that a poll hands on the next
byte of the stream (`PolledNext`), and the readers are proved about bytes.

What the readers recover rests on one invariant, `ReaderAt`: a reader that reads
the packets `kept` has after `n` bytes those of them that have ended, the first
bytes of the one that has begun and not ended, and between packets either nothing
or a single Magic0. `InsidePacket` and `OutsidePackets` carry it over a byte, for
any `kept`. The readers differ in what `kept` is:

- for the TSR all packets, and it holds a Magic0 when the byte before is a stray
  one. A magic sequence that begins outside of a packet would make it collect
  noise, hence the hypothesis of `TsrResynchronizes`;
- for the client and the bridge the packets begun and not missed (`ClientAt`).
  Whether a packet is missed is settled when it begins, by the parity of the run
  of stray Magic0 in front of it (`Armed`), where the bytes of missed packets
  count as stray. The one way out of the parity, a Magic1 behind a Magic0 that
  counts, is excluded by `Plain`: it would have to begin a packet, and that packet
  would be missed because of the Magic0 before it, which makes the count even
  (`NoMagicBehind`). The bridge does what the client does, since nothing they
  collect is oversized or fails to parse (`~Bad`);
- for a bridge that meets a piece of two bytes or more, the packets in front of
  the piece (`HostAt`): from its first byte on the bridge collects until what it
  has is oversized or complete, which ends the connection, as `Spoils` says that
  no extension of the piece parses. Without `Spoils` the claim would be about the
  strength of the CRC.

`ConfigLoaderProofs` (every file, block size and line size): `ConfigTypeCorrect`
and `LoadsWhatTheFileSays`. The invariant of the loop, `Reached`, has a witness
`b`: the settings are what the whole lines up to `b` say, and the flags and the
line buffer describe the line that `b + 1` opens, which has not begun
(`NotBegun`) or began at some `i` (`HasBegun`). At a line end `Applied` says that
applying the buffer gives what the file says up to there; it rests on lemmas about
the reference reading, of which the main two are that earlier lines count as
before (`SettersBefore`) and that the line adds itself and nothing else
(`SettersAdded`). Least and greatest numbers of a set (`LeastNat`,
`GreatestNat`) come from the well-foundedness of the naturals, so that the
CHOOSEs of the module can be reasoned about without induction.

`ForegroundClientProofs` (every capacity, number of attempts, set of texts, and
any number of runs, faults and keys): `GivesSessionBack`, `ClientTypeCorrect`,
`ExitCodeIsTrue`, `ReportsAreTrue` and `TextsFit`. Three invariants build on each
other. `SessionInv` ties the
handle, the port and the driver's flag to the step the client is in (`Holding`).
`LineTyped` carries the type of a text from the user's input through bridge and
line to the client. `QueueInv` says that nothing is queued before the injection,
that in its loop exactly the units up to the offset are, and that the exit code
is true; a loop that stops early has left out the unit at its offset
(`PartQueued`). Two more stand beside them:

- `VerifyInv`, for "verified", counts: the queue holds as many words nobody typed
  as there are units of the text queued so far, and later not yet read back,
  whose word nobody types (`Foreign`, `Owed`). It has to count instead of
  comparing the queue with the text, since a key typed between the test of the
  queue and the loop stands in front of the text, and when it has the same word
  as the first unit the verification reads it in its place.
- `CapacityInv`, for `CapacityRespected`: until a fault, either the bridge has read
  the capacity on this connection (`Told`), or the client has not got beyond
  HELLO, no OPEN_IME is on the wire, the bridge is not ready, and no PONG that
  answers a HELLO is under way (`Untold`). The second part includes late answers
  to earlier runs, which is why it speaks of everything on the two wires.

The assumptions are the ASSUMEs of the modules (`QueueAssumption`,
`WorkerAssumption`, `PacketAssumption`, `LifecycleAssumption`, `RingAssumption`,
`FramingAssumption`, `ConfigAssumption`, `ClientAssumption`, `CarriedAssumption`),
which TLC evaluates
in the runs.

Every safety property of a passing run is proved. Checked by TLC only: liveness
(`StagedEnds`, `HandshakeEnds`, `SilentSessionEnds`, the
leads-to half of `ForgottenSessionEnds`, `OpenReachesBridge`, `WaiterIsServed`, `StagedMovesWhileBlocked`, `ClientEnds`),
since temporal properties under fairness are outside the prover's reach.

## What is not modelled

- Focus changes of the bridge (`FocusBridgeInput`, `FocusPc98`): they act on
  windows of other processes after a delay. That a CLOSE_IME followed by an
  OPEN_IME may end with the focus on the wrong window is listed as a hazard
  without a property.
- An INT 18h call inside another, the hooks of INT 28h and INT 08h (present in
  the file, never installed), and two resident workers on one machine.
- The register level of the 8251 and of the timer: a byte is read or written, or
  a limit strikes.
- A packet cut off on its way to the PC-98: a broken connection takes whole packets
  from the end of the line (`LineLoss`), though the emulator may have read the
  first bytes of one; and in `Framing` the TSR and the client are given cut-off
  packets, but no property says what these cost them.
- The value of the CRC: `Framing` uses any operator, and the runs one that tells
  the bytes of the run apart. Whether CRC-16 would is a question about data.
- Automatic mode (`--text`) in a run: `BridgeHost` models it and `LineTyped` covers
  it, but the runs have no automatic text, as `OneOutstanding` does not hold
  there.
- IOCTL input, ping and malformed requests of `IME98.SYS`, and its test program.
- Code page 932: a text is a sequence of bytes, as it is for the protocol. That
  a two-byte character may be split by a key the user types between two batches
  follows from the batches but is not stated as a property.
- The parsing of the key bindings and of the command lines: both happen once,
  before anything else, and keep no state afterwards.
- Diagnostics, probes, the log file, build tools, scripts, and the Python copy of
  the protocol, which is a test tool.

## Plan

Done, in this order: the keyboard ring and its abstraction; the worker; the
joined system; the hooks; install and unload; framing and the receive ring; the
configuration loader; the foreground client with the driver; the proofs above.

Next:

1. What is left of the session theorems when the 16-bit number comes round: which
   of them hold as long as no packet is as old as a whole round.
2. `HostFocus`: the delayed focus changes against CLOSE_IME and OPEN_IME in
   quick succession; nested INT 18h calls and two resident workers.
