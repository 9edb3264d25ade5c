-------------------------- MODULE ForegroundClient --------------------------
(***************************************************************************)
(* The foreground client IME98.COM (main.c, ime98_control.c) run a few     *)
(* times in a row, the session state of the IME98$ driver                  *)
(* (device_driver.S), the injection of a whole text (inject_bios_pc98.c),  *)
(* and the bridge at the other end of the line.                            *)
(*                                                                         *)
(* Every run uses the sequence numbers 1 for HELLO, 2 for PING and 3 for   *)
(* OPEN_IME.  The client polls COM1 with interrupts on: the bridge, the    *)
(* PC-98 keyboard and Ctrl-C move between any two of its steps, except in  *)
(* the loop that fills the keyboard queue.                                 *)
(***************************************************************************)
EXTENDS KeyWords, FiniteSets

CONSTANTS
  AutomaticText, MaxPayload,  \* see BridgeHost
  MaxFaults,       \* see BridgeLine
  KbCapacity,      \* PC98_KB_CAPACITY, 16, which HELLO announces
  HelloAttempts,   \* 4
  Texts,           \* what the user may send from Windows
  UserWord,        \* the key word the user types at the PC-98
  MaxRuns,         \* bound on runs of the client
  MaxPresses       \* bound on keys typed at the PC-98

ASSUME ClientAssumption ==
  /\ Texts \subseteq Seq(Nat) \ {<< >>}
  /\ AutomaticText \in Seq(Nat)
  /\ UserWord \in Nat
  /\ KbCapacity \in Nat \ {0} /\ HelloAttempts \in Nat \ {0}
  /\ MaxPayload \in Nat \ {0} /\ MaxFaults \in Nat
  /\ MaxRuns \in Nat /\ MaxPresses \in Nat

VARIABLES
  stream, openSequence, imeReady, targetMaxTextBytes, input, toDos,  \* see BridgeHost
  toHost, faults,  \* see BridgeLine
  driver,          \* IME98.SYS: "absent", "deaf" (no IOCTL) or "good"
  open_count,      \* the driver's open handles
  session_state,   \* the driver's session flag
  pc,              \* next step of the client, "none" when none runs
  verify,          \* run with /VERIFY
  device_is_open,  \* the client holds a handle of IME98$
  serial_opened,   \* the client has programmed COM1
  attempt,         \* HELLO attempts already failed
  asked,           \* the request is out, the answer is awaited
  text,            \* payload of the TEXT, << >> before it came
  offset,          \* bytes of it injected or read back
  kbd,             \* the BIOS keyboard queue
  exit_code,       \* of the last run
  queued,          \* history: positions of text injected by this run
  verified,        \* result of the verification, "none" without one
  aborted,         \* history: the last run was ended by Ctrl-C
  runs,            \* runs so far
  presses          \* keys typed so far

hostState == <<stream, openSequence, imeReady, targetMaxTextBytes, input>>
driverVars == <<driver, open_count, session_state>>
exchange == <<attempt, asked>>
injection == <<text, offset, queued, verified>>
ending == <<exit_code, aborted>>
env == <<verify, runs, presses>>
clientVars == <<driverVars, pc, device_is_open, serial_opened, exchange,
                injection, kbd, ending, env>>
vars == <<hostState, toDos, toHost, faults, clientVars>>

Host == INSTANCE BridgeLine

Kb == INSTANCE KeyDeque WITH queue <- kbd, Words <- Nat, SpaceWords <- {},
                             Capacity <- KbCapacity

Packet(type, seq, data) == [type |-> type, seq |-> seq, data |-> data]

-----------------------------------------------------------------------------
(* Start, and the ways a run ends *)

(* A run begins: the locals of main are set, the device is next. *)
Start ==
  /\ pc = "none" /\ runs < MaxRuns
  /\ runs' = runs + 1
  /\ verify' \in BOOLEAN
  /\ pc' = "device"
  /\ attempt' = 0 /\ asked' = FALSE
  /\ text' = << >> /\ offset' = 0 /\ queued' = << >> /\ verified' = "none"
  /\ exit_code' = 0 /\ aborted' = FALSE
  /\ UNCHANGED <<hostState, toDos, toHost, faults, driverVars, device_is_open,
                 serial_opened, kbd, presses>>

Exit(code) == pc' = "none" /\ exit_code' = code /\ UNCHANGED aborted

(* IME98.SYS: its open and close requests, and the IOCTL output that begins
   (1) or ends (0) a session, which an old driver does not know. *)
DeviceOpen == open_count' = (IF open_count = 255 THEN open_count ELSE open_count + 1)

DeviceClose == open_count' = (IF open_count = 0 THEN open_count ELSE open_count - 1)

IoctlOutput(state) == session_state' = (IF driver = "good" THEN state ELSE session_state)

(* ime98_control_open, ime98_control_close (DOS does the same for a program
   it ends) and ime98_control_command. *)
HandleOpened == device_is_open' = TRUE /\ DeviceOpen

HandleClosed ==
  /\ device_is_open' = FALSE
  /\ IF device_is_open THEN DeviceClose ELSE UNCHANGED open_count

Commanded(state) ==
  IF device_is_open THEN IoctlOutput(state) ELSE UNCHANGED session_state

(* pc98_serial_open and pc98_serial_close; opening never fails. *)
PortOpened == serial_opened' = TRUE

PortClosed == serial_opened' = FALSE

CloseSession ==
  /\ PortClosed
  /\ Commanded(0)
  /\ HandleClosed
  /\ UNCHANGED driver

(* Fault for the checks: the failing path leaves without close_session. *)
FailOnly ==
  /\ HandleClosed
  /\ PortClosed
  /\ Exit(1)
  /\ UNCHANGED <<driver, session_state>>

(* The error paths of main after the device is open. *)
Fail == CloseSession /\ Exit(1)

(* What a step that stays in its run leaves alone. *)
Goes(next) ==
  /\ pc' = next
  /\ UNCHANGED <<driverVars, device_is_open, serial_opened, ending>>

-----------------------------------------------------------------------------
(* IME98$ and COM1 *)

(* Without the driver main exits at once. *)
OpenDevice ==
  /\ pc = "device"
  /\ IF driver = "absent"
       THEN Exit(1) /\ UNCHANGED <<open_count, device_is_open>>
       ELSE HandleOpened /\ pc' = "session" /\ UNCHANGED ending
  /\ UNCHANGED <<hostState, toDos, toHost, faults, driver, session_state,
                 serial_opened, exchange, injection, kbd, env>>

OpenSession ==
  /\ pc = "session"
  /\ IF driver = "good"
       THEN /\ Commanded(1)
            /\ pc' = "serial"
            /\ UNCHANGED <<driver, open_count, device_is_open, serial_opened, ending>>
       ELSE Fail
  /\ UNCHANGED <<hostState, toDos, toHost, faults, exchange, injection, kbd, env>>

(* HELLO opens the port again for each retry. *)
OpenSerial ==
  /\ \/ pc = "serial"
     \/ pc = "hello" /\ ~serial_opened
  /\ PortOpened
  /\ pc' = "hello"
  /\ UNCHANGED <<hostState, toDos, toHost, faults, driverVars, device_is_open,
                 exchange, injection, kbd, ending, env>>

-----------------------------------------------------------------------------
(* Writing a request, reading an answer *)

(* pc98_serial_write: the packet is out, or a transmit timeout left a piece
   of it on the line. *)
Writes(packets) ==
  /\ Host!Carry(packets)
  /\ Host!CountBroken(packets)
  /\ UNCHANGED <<hostState, toDos>>

(* read_packet gives the packet that arrived first ... *)
Arrived == {toDos[i] : i \in DOMAIN toDos \cap {1}}

Reads == toDos' = Tail(toDos) /\ UNCHANGED <<hostState, toHost, faults>>

(* ... or gives up after four empty reads in a row or 128 bytes, or at a
   length it has no room for: with nothing, or in the middle of a packet. *)
ReadsNothing ==
  /\ \/ UNCHANGED toDos
     \/ toDos # << >> /\ toDos' = Tail(toDos)
  /\ UNCHANGED <<hostState, toHost, faults>>

(* Fault for the checks: the loop of hello_exchange without its limit. *)
HelloAgainForever ==
  /\ PortClosed
  /\ UNCHANGED attempt
  /\ asked' = FALSE
  /\ UNCHANGED <<driverVars, pc, device_is_open, ending>>

(* Fault for the checks: one attempt too many. *)
HelloAgainOneMore ==
  IF attempt < HelloAttempts
  THEN /\ PortClosed
       /\ attempt' = attempt + 1
       /\ asked' = FALSE
       /\ UNCHANGED <<driverVars, pc, device_is_open, ending>>
  ELSE Fail /\ UNCHANGED exchange

(* The end of an attempt that failed: the next one closes the port first. *)
HelloAgain ==
  IF attempt + 1 < HelloAttempts
  THEN /\ PortClosed
       /\ attempt' = attempt + 1
       /\ asked' = FALSE
       /\ UNCHANGED <<driverVars, pc, device_is_open, ending>>
  ELSE Fail /\ UNCHANGED exchange

SendHello ==
  /\ pc = "hello" /\ serial_opened /\ ~asked
  /\ \/ /\ Writes(<<Packet("HELLO", 1, <<KbCapacity>>)>>)
        /\ asked' = TRUE
        /\ Goes("hello")
        /\ UNCHANGED attempt
     \/ Writes(<<Host!Broken>>) /\ HelloAgain
  /\ UNCHANGED <<injection, kbd, env>>

HelloAnswer ==
  /\ pc = "hello" /\ asked
  /\ \/ \E p \in Arrived :
          /\ Reads
          /\ IF p.type = "PONG" /\ p.seq = 1
               THEN asked' = FALSE /\ UNCHANGED attempt /\ Goes("ping")
               ELSE HelloAgain
     \/ ReadsNothing /\ HelloAgain
  /\ UNCHANGED <<injection, kbd, env>>

(* exchange: one request and one read, for PING and for OPEN_IME. *)
RequestOf(step) == IF step = "ping" THEN Packet("PING", 2, << >>)
                                    ELSE Packet("OPEN_IME", 3, << >>)

Ask ==
  /\ pc \in {"ping", "open"} /\ ~asked
  /\ \/ /\ Writes(<<RequestOf(pc)>>)
        /\ asked' = TRUE
        /\ Goes(pc)
     \/ Writes(<<Host!Broken>>) /\ Fail /\ UNCHANGED asked
  /\ UNCHANGED <<attempt, injection, kbd, env>>

PingAnswer ==
  /\ pc = "ping" /\ asked
  /\ \/ \E p \in Arrived :
          /\ Reads
          /\ IF p.seq = 2 /\ p.type = "PONG"
               THEN Goes("open")
               ELSE Fail
     \/ ReadsNothing /\ Fail
  /\ asked' = FALSE
  /\ UNCHANGED <<attempt, injection, kbd, env>>

(* With /VERIFY the text is injected before it is acknowledged, without it
   afterwards. *)
TextAnswer ==
  /\ pc = "open" /\ asked
  /\ \/ \E p \in Arrived :
          /\ Reads
          /\ IF p.seq = 3 /\ p.type = "TEXT"
               THEN /\ text' = p.data
                    /\ Goes(IF verify THEN "check" ELSE "ack")
               ELSE Fail /\ UNCHANGED text
     \/ ReadsNothing /\ Fail /\ UNCHANGED text
  /\ asked' = FALSE
  /\ UNCHANGED <<attempt, offset, queued, verified, kbd, env>>

SendAck ==
  /\ pc = "ack"
  /\ \/ Writes(<<Packet("TEXT_ACK", 3, << >>)>>) /\ Goes("close")
     \/ Writes(<<Host!Broken>>) /\ Fail
  /\ UNCHANGED <<exchange, injection, kbd, env>>

(* COM1 and the device are given back before the injection. *)
Close ==
  /\ pc = "close"
  /\ CloseSession
  /\ IF verify THEN Exit(0) ELSE pc' = "check" /\ UNCHANGED ending
  /\ UNCHANGED <<hostState, toDos, toHost, faults, exchange, injection, kbd, env>>

-----------------------------------------------------------------------------
(* pc98_bios_inject and pc98_bios_inject_verify *)

NormalizedLength == Cardinality(UnitStarts(text))

(* A verification reads back what was queued, or tells that it could not;
   without /VERIFY the result is the exit code. *)
InjectionEnds(complete) ==
  IF verify
  THEN /\ IF complete
            THEN Goes("readback") /\ offset' = 0 /\ UNCHANGED verified
            ELSE Goes("ack") /\ verified' = "skipped" /\ UNCHANGED offset
  ELSE /\ Exit(IF complete THEN 0 ELSE 1)
       /\ UNCHANGED <<driverVars, device_is_open, serial_opened, offset, verified>>

(* The test made before interrupts are turned off. *)
InjectCheck ==
  /\ pc = "check"
  /\ IF NormalizedLength \in 1 .. KbCapacity /\ kbd = << >>
       THEN Goes("loop") /\ UNCHANGED <<offset, verified>>
       ELSE InjectionEnds(FALSE)
  /\ UNCHANGED <<hostState, toDos, toHost, faults, exchange, text, queued, kbd, env>>

InjectWord ==
  /\ pc = "loop" /\ offset < Len(text)
  /\ Kb!Put(WordAt(text, offset + 1))
  /\ offset' = UnitEnd(text, offset + 1)
  /\ queued' = Append(queued, offset + 1)
  /\ Goes("loop")
  /\ UNCHANGED <<hostState, toDos, toHost, faults, exchange, text, verified, env>>

(* Fault for the checks: a full queue ends the loop like the end of the text. *)
InjectFullIsDone ==
  /\ pc = "loop" /\ offset < Len(text) /\ ~Kb!Room
  /\ InjectionEnds(TRUE)
  /\ UNCHANGED <<hostState, toDos, toHost, faults, exchange, text, queued, kbd, env>>

(* A key typed since the test took a place: the words before stay queued. *)
InjectFull ==
  /\ pc = "loop" /\ offset < Len(text) /\ ~Kb!Room
  /\ InjectionEnds(FALSE)
  /\ UNCHANGED <<hostState, toDos, toHost, faults, exchange, text, queued, kbd, env>>

InjectDone ==
  /\ pc = "loop" /\ offset >= Len(text)
  /\ InjectionEnds(TRUE)
  /\ UNCHANGED <<hostState, toDos, toHost, faults, exchange, text, queued, kbd, env>>

(* INT 18h AH=05h for each word: the key it removes must be the one queued. *)
Survived == kbd # << >> /\ kbd[1] = WordAt(text, offset + 1)

ReadBack ==
  /\ pc = "readback" /\ offset < Len(text)
  /\ kbd' = (IF kbd = << >> THEN kbd ELSE Tail(kbd))
  /\ IF Survived
       THEN /\ offset' = UnitEnd(text, offset + 1)
            /\ Goes("readback")
            /\ UNCHANGED verified
       ELSE /\ verified' = "failed"
            /\ Goes("ack")
            /\ UNCHANGED offset
  /\ UNCHANGED <<hostState, toDos, toHost, faults, exchange, text, queued, env>>

ReadBackDone ==
  /\ pc = "readback" /\ offset >= Len(text)
  /\ verified' = "verified"
  /\ Goes("ack")
  /\ UNCHANGED <<hostState, toDos, toHost, faults, exchange, text, offset, queued,
                 kbd, env>>

-----------------------------------------------------------------------------
(* Around the client *)

(* DOS ends the program when a message it prints meets Ctrl-C: it closes
   the handle, and nobody sends the driver its session end. *)
CtrlC ==
  /\ ~asked
  /\ \/ pc \in {"serial", "ping", "open"}
     \/ pc = "hello" /\ attempt = 0
  /\ pc' = "none" /\ aborted' = TRUE
  /\ HandleClosed
  /\ PortClosed
  /\ UNCHANGED <<hostState, toDos, toHost, faults, driver, session_state, exchange,
                 injection, kbd, exit_code, env>>

(* A key is typed; its interrupt waits while the injection has them off,
   which is from its first word on. *)
KeyPress ==
  /\ presses < MaxPresses
  /\ pc = "loop" => offset = 0
  /\ Kb!Put(UserWord)
  /\ presses' = presses + 1
  /\ UNCHANGED <<hostState, toDos, toHost, faults, driverVars, pc, device_is_open,
                 serial_opened, exchange, injection, ending, verify, runs>>

(* The parent reads the keyboard when the client is gone. *)
ParentReads ==
  /\ pc = "none"
  /\ Kb!Take
  /\ UNCHANGED <<hostState, toDos, toHost, faults, driverVars, pc, device_is_open,
                 serial_opened, exchange, injection, ending, env>>

(* Nobody reads the 8251 while the port is closed. *)
ClosedPortLoses ==
  /\ ~serial_opened
  /\ toDos # << >> /\ toDos' = Tail(toDos)
  /\ UNCHANGED <<hostState, toHost, faults, clientVars>>

Line ==
  /\ \/ Host!Serves \/ Host!SkipsFragment \/ Host!RejectsFragment
     \/ Host!Connects \/ Host!Breaks \/ Host!NoticesBreak
  /\ UNCHANGED clientVars

WindowsUser ==
  /\ \/ \E t \in Texts : Host!TypeText(t)
     \/ Host!ClearInput \/ Host!SendText \/ Host!SendKey(1) \/ Host!SendCloseIme
  /\ UNCHANGED <<toHost, faults, clientVars>>

-----------------------------------------------------------------------------

Init ==
  /\ Host!LineInit
  /\ driver \in {"absent", "deaf", "good"}
  /\ open_count = 0 /\ session_state = 0
  /\ pc = "none" /\ verify = FALSE
  /\ device_is_open = FALSE /\ serial_opened = FALSE
  /\ attempt = 0 /\ asked = FALSE
  /\ text = << >> /\ offset = 0 /\ queued = << >> /\ verified = "none"
  /\ kbd = << >>
  /\ exit_code = 0 /\ aborted = FALSE
  /\ runs = 0 /\ presses = 0

Client ==
  \/ OpenDevice \/ OpenSession \/ OpenSerial
  \/ SendHello \/ HelloAnswer \/ Ask \/ PingAnswer \/ TextAnswer
  \/ SendAck \/ Close
  \/ InjectCheck \/ InjectWord \/ InjectFull \/ InjectDone
  \/ ReadBack \/ ReadBackDone

Next ==
  \/ Start \/ Client
  \/ CtrlC \/ KeyPress \/ ParentReads \/ ClosedPortLoses
  \/ Line \/ WindowsUser

(* A client that runs is given the processor. *)
Spec == Init /\ [][Next]_vars /\ WF_vars(Client)

-----------------------------------------------------------------------------
(* Properties *)

Steps == {"none", "device", "session", "serial", "hello", "ping", "open",
          "ack", "close", "check", "loop", "readback"}

ClientTypeOK ==
  /\ driver \in {"absent", "deaf", "good"}
  /\ open_count \in 0 .. 1 /\ session_state \in 0 .. 1
  /\ pc \in Steps
  /\ verify \in BOOLEAN /\ device_is_open \in BOOLEAN /\ serial_opened \in BOOLEAN
  /\ attempt \in 0 .. HelloAttempts - 1 /\ asked \in BOOLEAN
  /\ text \in Seq(Nat) /\ offset \in 0 .. Len(text) /\ queued \in Seq(Nat)
  /\ verified \in {"none", "verified", "failed", "skipped"}
  /\ kbd \in Seq(Nat) /\ Len(kbd) <= KbCapacity
  /\ exit_code \in 0 .. 1 /\ aborted \in BOOLEAN

(* Every word of the text was queued, once and in order. *)
Complete == text # << >> /\ QueuedInOrder(text, Len(text), queued)

(* Without /VERIFY the exit code is 0 if and only if the whole text went
   into the keyboard queue. *)
ExitCodeTrue ==
  pc = "none" /\ runs > 0 /\ ~aborted /\ ~verify => (exit_code = 0 <=> Complete)

(* What a run reports is what happened: the exit code is true, although the
   text was acknowledged before it was injected and keys may arrive between
   the test of the queue and the loop (main.c:334-349,
   inject_bios_pc98.c:139-158); and with /VERIFY, "verified" means that all of
   the text went in and came out again. *)
ReportsTrue ==
  /\ ExitCodeTrue
  /\ verified = "verified" /\ pc = "ack" =>
       Complete /\ \A i \in DOMAIN kbd : kbd[i] = UserWord

(* No error path keeps COM1, the handle or the driver's session; only Ctrl-C
   leaves the session flag behind (main.c:79-84, device_driver.S:98-105). *)
SessionGivenBack ==
  pc \in {"none", "check", "loop"} /\ ~(verify /\ pc # "none") =>
    /\ ~serial_opened /\ ~device_is_open /\ open_count = 0
    /\ session_state = 1 => aborted

(* A text the client accepts has room in the keyboard queue, as HELLO said,
   over any number of retried HELLOs and late answers - unless the line
   failed: a new connection does not know the capacity
   (main.c:248-252, BridgeForm.cs:387-400). *)
CapacityRespected == Len(text) <= KbCapacity \/ faults > 0

(* "a disconnected host cannot hang the foreground client forever"
   (main.c:130-132): every run ends. *)
ClientEnds == pc # "none" ~> pc = "none"

=============================================================================
