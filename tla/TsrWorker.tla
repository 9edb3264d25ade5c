------------------------------ MODULE TsrWorker ------------------------------
(***************************************************************************)
(* The resident worker of IME98TSR.COM, dos/pc98/foreground.c: the link to *)
(* the Windows bridge, the IME toggle, and the staging of received text    *)
(* and keys into the BIOS keyboard queue.                                  *)
(*                                                                         *)
(* Every entry (INT 18h hook, COM1 interrupt, /U) runs the worker to its   *)
(* end with interrupts off, so nothing else on the PC-98 moves while       *)
(* pc # "idle".  The host does move: a packet may arrive between any two   *)
(* receive polls.  Packets come from the set Packets here; BridgeSystem    *)
(* replaces that by the real host and wires.                               *)
(***************************************************************************)
EXTENDS KeyWords, FiniteSets

CONSTANTS
  Packets,         \* packets that may arrive, well formed ones
  UserWords,       \* BIOS words the user can type, the plain Space included
  KbCapacity,      \* PC98_KB_CAPACITY, 16
  Batch,           \* words moved per worker call, 16
  PollBudget,      \* packets one call can complete: 32 bytes are at most 4
  WaitLimit,       \* 0xffff
  SeqMod,          \* 2^16, the width of the sequence numbers
  InitialMasks,    \* interrupt lines that may be masked when the TSR starts
  TxOutcomes,      \* subset of BOOLEAN: FALSE is a transmit timeout
  OneOutstanding   \* TRUE: the host sends one TEXT or KEY per OPEN_IME

Space == 13344  \* 3420h, as pc98_input_hook compares it
SpaceWords == {Space}
NoKey == 0

SeqNums == 0 .. SeqMod - 1

ASSUME WorkerAssumption ==
  /\ UserWords \subseteq Nat
  /\ KbCapacity \in Nat \ {0}
  /\ Batch \in Nat \ {0}
  /\ PollBudget \in Nat \ {0}
  /\ WaitLimit \in Nat \ {0, 1}
  /\ SeqMod \in Nat \ {0}
  /\ TxOutcomes \subseteq BOOLEAN
  /\ OneOutstanding \in BOOLEAN

ASSUME PacketAssumption ==
  \A p \in Packets : p.seq \in SeqNums /\ p.data \in Seq(Nat)

VARIABLES
  link_state,       \* "CLOSED", "HELLO_WAIT" or "READY"
  open_pending,     \* an OPEN_IME is wanted
  ime_active,       \* an OPEN_IME is out and unanswered
  ime_enabled,      \* the user's toggle
  sequence,         \* last sequence number used
  open_sequence,    \* that of the current OPEN_IME
  wait_ticks,       \* worker calls since the host last answered
  pending_text,     \* staged TEXT payload, << >> when none
  pending_offset,   \* bytes of it already queued
  pending_sequence, \* sequence of the staged input
  pending_key,      \* staged KEY word or NoKey
  serial_opened,    \* COM1 is programmed
  irq_capture,      \* the receive interrupt belongs to the TSR
  pic_mask,         \* masked interrupt lines
  saved_pic_mask,   \* << >> or << the mask capture_begin found >>
  kbd,              \* the BIOS keyboard queue
  hotkey_down,      \* modifier and Space are held
  pc,               \* phase of the running worker, or "idle"
  budget,           \* what is left of the phase's loop bound
  tx,               \* what this step put on the wire, at most one packet
  found_mask,       \* history: the mask before the TSR touched it
  injected,         \* history: positions of pending_text queued so far
  abandoned         \* history: the response timeout left input staged

session == <<link_state, open_pending, ime_active, ime_enabled, sequence,
             open_sequence, wait_ticks>>
staged == <<pending_text, pending_offset, pending_sequence, pending_key,
            injected, abandoned>>
port == <<serial_opened, irq_capture, pic_mask, saved_pic_mask>>
keyboard == <<kbd, hotkey_down>>
vars == <<session, staged, port, keyboard, pc, budget, tx, found_mask>>

Kb == INSTANCE KeyDeque WITH queue <- kbd, Words <- Nat,
                             SpaceWords <- SpaceWords, Capacity <- KbCapacity

Staged == pending_text # << >> \/ pending_key # NoKey

-----------------------------------------------------------------------------
(* Packets and the wire *)

Packet(type, seq, data) == [type |-> type, seq |-> seq, data |-> data]

(* A packet of which a transmit timeout cut off the end. *)
Broken == Packet("BROKEN", 0, << >>)

Inc(seq) == (seq + 1) % SeqMod

(* send_packet: a closed port refuses at once, a transmit timeout leaves a
   piece of the packet on the wire. *)
Transmit(p, ok) ==
  tx' = (IF ~serial_opened THEN << >> ELSE IF ok THEN <<p>> ELSE <<Broken>>)

Sent(ok) == serial_opened /\ ok

-----------------------------------------------------------------------------
(* Key words *)

(* The words of IME_KEY_ENTER, LEFT, RIGHT, UP, DOWN and BACKSPACE. *)
KeyWordOf == <<7181, 15104, 15360, 14848, 15616, 3592>>

-----------------------------------------------------------------------------
(* Link and toggle *)

(* Fault for the checks: the mask stays as the TSR set it. *)
CaptureEndNoRestore ==
  /\ irq_capture' = FALSE
  /\ saved_pic_mask' = << >>
  /\ UNCHANGED pic_mask

(* pc98_tsr_serial_capture_end *)
CaptureEnd ==
  /\ irq_capture' = FALSE
  /\ pic_mask' = (IF saved_pic_mask = << >> THEN pic_mask ELSE saved_pic_mask[1])
  /\ saved_pic_mask' = << >>

(* The assignments of reset_link. *)
ResetLink ==
  /\ CaptureEnd
  /\ serial_opened' = FALSE
  /\ link_state' = "CLOSED"
  /\ ime_active' = FALSE
  /\ wait_ticks' = 0

SendOpenIme(ok) ==
  /\ sequence' = Inc(sequence)
  /\ open_sequence' = Inc(sequence)
  /\ Transmit(Packet("OPEN_IME", Inc(sequence), << >>), ok)
  /\ \/ /\ Sent(ok)
        /\ ime_active' = TRUE
        /\ open_pending' = FALSE
        /\ wait_ticks' = 0
        /\ link_state' = "READY"
        /\ UNCHANGED port
     \/ /\ ~Sent(ok)
        /\ ResetLink
        /\ open_pending' = TRUE
  /\ UNCHANGED ime_enabled

CloseIme(ok) ==
  /\ IF link_state = "READY"
       THEN Transmit(Packet("CLOSE_IME", open_sequence, << >>), ok)
       ELSE tx' = << >>
  /\ IF link_state # "CLOSED"
       THEN CaptureEnd /\ serial_opened' = FALSE
       ELSE UNCHANGED port
  /\ link_state' = "CLOSED"
  /\ ime_enabled' = FALSE
  /\ open_pending' = FALSE
  /\ ime_active' = FALSE
  /\ wait_ticks' = 0
  /\ pending_text' = << >>
  /\ pending_offset' = 0
  /\ pending_key' = NoKey
  /\ injected' = << >>
  /\ abandoned' = FALSE
  /\ UNCHANGED <<sequence, open_sequence, pending_sequence>>

(* toggle_ime_hotkey *)
ToggleIme(ok) ==
  \/ /\ ime_enabled
     /\ CloseIme(ok)
  \/ /\ ~ime_enabled
     /\ ime_enabled' = TRUE
     /\ open_pending' = TRUE
     /\ tx' = << >>
     /\ UNCHANGED <<link_state, ime_active, sequence, open_sequence, wait_ticks,
                    staged, port>>

-----------------------------------------------------------------------------
(* The phases of one pc98_service_foreground call.  A phase that has       *)
(* nothing to do is skipped: each operator names the first phase with work.*)

(* Faults for the checks: a phase whose condition forgets a case. *)
FromTickActive == IF ime_active THEN "tick" ELSE "idle"
FromTickHello == IF link_state = "HELLO_WAIT" THEN "tick" ELSE "idle"

FromTick == IF link_state = "HELLO_WAIT" \/ ime_active THEN "tick" ELSE "idle"

(* Fault for the checks: opening whenever the toggle is on. *)
FromOpenAlways ==
  IF ime_enabled /\ link_state # "HELLO_WAIT" THEN "open" ELSE FromTick

FromOpen ==
  IF open_pending /\ ~ime_active /\ link_state # "HELLO_WAIT"
  THEN "open" ELSE FromTick

FromKey == IF pending_key # NoKey THEN "key" ELSE FromOpen

(* Fault for the checks: injecting only while the link is up. *)
FromTextReady ==
  IF pending_text # << >> /\ link_state = "READY" THEN "text" ELSE FromKey

FromText == IF pending_text # << >> THEN "text" ELSE FromKey

FromPoll == IF link_state # "CLOSED" THEN "poll" ELSE FromText

BudgetOf(phase) ==
  CASE phase = "poll" -> PollBudget
    [] phase = "text" -> Batch
    [] OTHER          -> 0

Enter(phase) == pc' = phase /\ budget' = BudgetOf(phase)

(* The newest queued Space, typed with the hotkey held, is consumed. *)
ServiceHotkey(ok) ==
  /\ pc = "idle"
  /\ hotkey_down
  /\ Kb!Withdraw
  /\ ToggleIme(ok)
  /\ UNCHANGED <<hotkey_down, found_mask>>
  /\ Enter(FromPoll')

ServiceQuiet ==
  /\ pc = "idle"
  /\ ~(hotkey_down /\ Kb!NewestIsSpace)
  /\ tx' = << >>
  /\ Enter(FromPoll)
  /\ UNCHANGED <<session, staged, port, keyboard, found_mask>>

-----------------------------------------------------------------------------
(* handle_packet *)

(* Fault for the checks: a packet of any session is taken. *)
ForAnySession(p) == ime_active

ForSession(p) == ime_active /\ p.seq = open_sequence

IsPong(p) == p.type = "PONG" /\ link_state = "HELLO_WAIT"
IsText(p) == p.type = "TEXT" /\ ForSession(p)
IsKey(p) ==
  /\ p.type = "KEY"
  /\ ForSession(p)
  /\ Len(p.data) = 1
  /\ p.data[1] \in DOMAIN KeyWordOf
IsClose(p) == p.type = "CLOSE_IME" /\ ForSession(p) /\ p.data = << >>

(* PONG completes the handshake, whatever its sequence. *)
HandlePong(p, ok) ==
  /\ IsPong(p)
  /\ IF open_pending
       THEN SendOpenIme(ok)
       ELSE /\ link_state' = "READY"
            /\ wait_ticks' = 0
            /\ tx' = << >>
            /\ UNCHANGED <<open_pending, ime_active, ime_enabled, sequence,
                           open_sequence, port>>
  /\ UNCHANGED staged

(* TEXT replaces whatever text was staged. *)
HandleText(p) ==
  /\ IsText(p)
  /\ pending_text' = p.data
  /\ pending_offset' = 0
  /\ pending_sequence' = p.seq
  /\ wait_ticks' = 0
  /\ injected' = << >>
  /\ abandoned' = (abandoned /\ pending_key # NoKey)
  /\ tx' = << >>
  /\ UNCHANGED <<link_state, open_pending, ime_active, ime_enabled, sequence,
                 open_sequence, pending_key, port>>

HandleKey(p) ==
  /\ IsKey(p)
  /\ pending_key' = KeyWordOf[p.data[1]]
  /\ pending_sequence' = p.seq
  /\ wait_ticks' = 0
  /\ abandoned' = (abandoned /\ pending_text # << >>)
  /\ tx' = << >>
  /\ UNCHANGED <<link_state, open_pending, ime_active, ime_enabled, sequence,
                 open_sequence, pending_text, pending_offset, injected, port>>

HandleClose(p, ok) == IsClose(p) /\ CloseIme(ok)

(* Every other packet is dropped. *)
HandleOther(p) ==
  /\ ~(IsPong(p) \/ IsText(p) \/ IsKey(p) \/ IsClose(p))
  /\ tx' = << >>
  /\ UNCHANGED <<session, staged, port>>

(* What the environment assumption OneOutstanding rules out: a second TEXT
   or KEY for the same OPEN_IME. *)
SecondInput(p) ==
  /\ IsText(p) \/ IsKey(p)
  /\ pending_sequence = open_sequence

(* poll_transport completes one packet.  The port is closed, and the rest
   of the receive ring dropped, as soon as the link is reset. *)
PollPacket(p, ok) ==
  /\ pc = "poll"
  /\ budget > 0
  /\ OneOutstanding => ~SecondInput(p)
  /\ \/ HandlePong(p, ok)
     \/ HandleText(p)
     \/ HandleKey(p)
     \/ HandleClose(p, ok)
     \/ HandleOther(p)
  /\ UNCHANGED <<keyboard, found_mask>>
  /\ IF link_state' = "CLOSED"
       THEN Enter(FromText')
       ELSE pc' = "poll" /\ budget' = budget - 1

PollDone ==
  /\ pc = "poll"
  /\ tx' = << >>
  /\ Enter(FromText)
  /\ UNCHANGED <<session, staged, port, keyboard, found_mask>>

-----------------------------------------------------------------------------
(* inject_pending_text, inject_pending_key *)

InjectWord ==
  /\ pc = "text"
  /\ pending_offset < Len(pending_text)
  /\ budget > 0
  /\ Kb!Put(WordAt(pending_text, pending_offset + 1))
  /\ pending_offset' = UnitEnd(pending_text, pending_offset + 1)
  /\ injected' = Append(injected, pending_offset + 1)
  /\ budget' = budget - 1
  /\ tx' = << >>
  /\ UNCHANGED <<session, pending_text, pending_sequence, pending_key, abandoned,
                 port, hotkey_down, pc, found_mask>>

(* The queue is full or the batch is used up: the rest waits. *)
InjectStall ==
  /\ pc = "text"
  /\ pending_offset < Len(pending_text)
  /\ budget = 0 \/ ~Kb!Room
  /\ tx' = << >>
  /\ Enter(FromKey)
  /\ UNCHANGED <<session, staged, port, keyboard, found_mask>>

(* The input of this OPEN_IME is answered; another one is wanted if the
   toggle is still on. *)
Answered ==
  /\ ime_active' = FALSE
  /\ open_pending' = ime_enabled
  /\ UNCHANGED <<link_state, ime_enabled, sequence, open_sequence, wait_ticks>>

(* Fault for the checks: one byte short of the end is taken for the end. *)
InjectFinishEarly(ok) ==
  /\ pc = "text"
  /\ pending_offset + 1 >= Len(pending_text)
  /\ Transmit(Packet("TEXT_ACK", pending_sequence, << >>), ok)
  /\ pending_text' = << >>
  /\ pending_offset' = 0
  /\ injected' = << >>
  /\ abandoned' = (abandoned /\ pending_key # NoKey)
  /\ Answered
  /\ UNCHANGED <<pending_sequence, pending_key, port, keyboard, found_mask>>
  /\ Enter(FromKey')

InjectFinish(ok) ==
  /\ pc = "text"
  /\ pending_offset >= Len(pending_text)
  /\ Transmit(Packet("TEXT_ACK", pending_sequence, << >>), ok)
  /\ pending_text' = << >>
  /\ pending_offset' = 0
  /\ injected' = << >>
  /\ abandoned' = (abandoned /\ pending_key # NoKey)
  /\ Answered
  /\ UNCHANGED <<pending_sequence, pending_key, port, keyboard, found_mask>>
  /\ Enter(FromKey')

(* Faults for the checks: the staged key is not cleared; the answer of the
   queue is not looked at. *)
InjectKeyKept(ok) ==
  /\ pc = "key"
  /\ Kb!Put(pending_key)
  /\ Transmit(Packet("KEY_ACK", pending_sequence, << >>), ok)
  /\ Answered
  /\ UNCHANGED <<staged, port, hotkey_down, found_mask>>
  /\ Enter(FromOpen')

InjectKeyUnchecked(ok) ==
  /\ pc = "key"
  /\ Kb!Put(pending_key) \/ (~Kb!Room /\ UNCHANGED kbd)
  /\ Transmit(Packet("KEY_ACK", pending_sequence, << >>), ok)
  /\ pending_key' = NoKey
  /\ abandoned' = (abandoned /\ pending_text # << >>)
  /\ Answered
  /\ UNCHANGED <<pending_text, pending_offset, pending_sequence, injected, port,
                 hotkey_down, found_mask>>
  /\ Enter(FromOpen')

InjectKey(ok) ==
  /\ pc = "key"
  /\ Kb!Put(pending_key)
  /\ Transmit(Packet("KEY_ACK", pending_sequence, << >>), ok)
  /\ pending_key' = NoKey
  /\ abandoned' = (abandoned /\ pending_text # << >>)
  /\ Answered
  /\ UNCHANGED <<pending_text, pending_offset, pending_sequence, injected, port,
                 hotkey_down, found_mask>>
  /\ Enter(FromOpen')

InjectKeyFull ==
  /\ pc = "key"
  /\ ~Kb!Room
  /\ tx' = << >>
  /\ Enter(FromOpen)
  /\ UNCHANGED <<session, staged, port, keyboard, found_mask>>

-----------------------------------------------------------------------------
(* Opening a session, and the response timeout *)

OpenSession(ok) ==
  /\ pc = "open"
  /\ link_state = "READY"
  /\ SendOpenIme(ok)
  /\ UNCHANGED <<staged, keyboard, found_mask>>
  /\ Enter(FromTick')

(* start_link: program COM1, begin the capture, send HELLO. *)
StartLink(ok) ==
  /\ pc = "open"
  /\ link_state = "CLOSED"
  /\ sequence' = Inc(sequence)
  /\ tx' = <<IF ok THEN Packet("HELLO", Inc(sequence), << >>) ELSE Broken>>
  /\ \/ /\ ok
        /\ serial_opened' = TRUE
        /\ irq_capture' = TRUE
        /\ saved_pic_mask' = <<pic_mask>>
        /\ pic_mask' = pic_mask \ {"com1"}
        /\ link_state' = "HELLO_WAIT"
        /\ wait_ticks' = 0
        /\ UNCHANGED ime_active
     \/ /\ ~ok
        /\ serial_opened' = FALSE
        /\ irq_capture' = FALSE
        /\ saved_pic_mask' = << >>
        /\ UNCHANGED <<pic_mask, link_state>>
        /\ ime_active' = FALSE
        /\ wait_ticks' = 0
  /\ UNCHANGED <<open_pending, ime_enabled, open_sequence, staged, keyboard,
                 found_mask>>
  /\ Enter(FromTick')

(* Fault for the checks: counting on without a limit. *)
TickNoLimit ==
  /\ pc = "tick"
  /\ wait_ticks' = wait_ticks + 1
  /\ tx' = << >>
  /\ Enter("idle")
  /\ UNCHANGED <<link_state, open_pending, ime_active, ime_enabled, sequence,
                 open_sequence, staged, port, keyboard, found_mask>>

Tick ==
  /\ pc = "tick"
  /\ wait_ticks + 1 # WaitLimit
  /\ wait_ticks' = wait_ticks + 1
  /\ tx' = << >>
  /\ Enter("idle")
  /\ UNCHANGED <<link_state, open_pending, ime_active, ime_enabled, sequence,
                 open_sequence, staged, port, keyboard, found_mask>>

(* Fault for the checks: the timeout leaves the toggle on. *)
TimeoutStaysOn ==
  /\ pc = "tick"
  /\ wait_ticks + 1 = WaitLimit
  /\ ResetLink
  /\ open_pending' = FALSE
  /\ abandoned' = Staged
  /\ tx' = << >>
  /\ Enter("idle")
  /\ UNCHANGED <<ime_enabled, sequence, open_sequence, pending_text,
                 pending_offset, pending_sequence, pending_key, injected,
                 keyboard, found_mask>>

(* Staged input survives the reset. *)
Timeout ==
  /\ pc = "tick"
  /\ wait_ticks + 1 = WaitLimit
  /\ ResetLink
  /\ ime_enabled' = FALSE
  /\ open_pending' = FALSE
  /\ abandoned' = Staged
  /\ tx' = << >>
  /\ Enter("idle")
  /\ UNCHANGED <<sequence, open_sequence, pending_text, pending_offset,
                 pending_sequence, pending_key, injected, keyboard, found_mask>>

-----------------------------------------------------------------------------
(* Everybody else on the PC-98, between two worker calls *)

(* A key reaches the BIOS queue; a full queue beeps and drops it.  Space
   is plain as long as the hotkey is not held. *)
KeyPress(w) ==
  /\ pc = "idle"
  /\ w \in SpaceWords => ~hotkey_down
  /\ Kb!Put(w)
  /\ tx' = << >>
  /\ UNCHANGED <<session, staged, port, hotkey_down, pc, budget, found_mask>>

(* The first stroke, or one more by the keyboard's repeat. *)
HotkeyPress ==
  /\ pc = "idle"
  /\ ~hotkey_down \/ Kb!Room
  /\ hotkey_down' = TRUE
  /\ kbd' = (IF Kb!Room THEN Append(kbd, Space) ELSE kbd)
  /\ tx' = << >>
  /\ UNCHANGED <<session, staged, port, pc, budget, found_mask>>

HotkeyRelease ==
  /\ pc = "idle"
  /\ hotkey_down
  /\ hotkey_down' = FALSE
  /\ tx' = << >>
  /\ UNCHANGED <<session, staged, port, kbd, pc, budget, found_mask>>

(* INT 18h comes back with a Space word while the hotkey is held. *)
ReturnsHotkey == hotkey_down /\ kbd # << >> /\ kbd[1] \in SpaceWords

(* The application removes a word through INT 18h. *)
AppRead ==
  /\ pc = "idle"
  /\ ~ReturnsHotkey
  /\ Kb!Take
  /\ tx' = << >>
  /\ UNCHANGED <<session, staged, port, hotkey_down, pc, budget, found_mask>>

(* pc98_service_returned_hotkey: AH=00 and AH=05 have removed the Space by
   then, AH=01 has only looked at it. *)
ReturnedHotkey(ok) ==
  /\ pc = "idle"
  /\ ReturnsHotkey
  /\ Kb!Take \/ UNCHANGED kbd
  /\ ToggleIme(ok)
  /\ UNCHANGED <<hotkey_down, pc, budget, found_mask>>

-----------------------------------------------------------------------------

Init ==
  /\ link_state = "CLOSED"
  /\ open_pending = FALSE /\ ime_active = FALSE /\ ime_enabled = FALSE
  /\ sequence = 0 /\ open_sequence = 0 /\ wait_ticks = 0
  /\ pending_text = << >> /\ pending_offset = 0 /\ pending_sequence = 0
  /\ pending_key = NoKey
  /\ serial_opened = FALSE /\ irq_capture = FALSE
  /\ pic_mask \in InitialMasks /\ saved_pic_mask = << >>
  /\ kbd = << >> /\ hotkey_down = FALSE
  /\ pc = "idle" /\ budget = 0 /\ tx = << >>
  /\ found_mask = pic_mask /\ injected = << >> /\ abandoned = FALSE

Worker ==
  \/ ServiceQuiet
  \/ PollDone
  \/ InjectWord
  \/ InjectStall
  \/ InjectKeyFull
  \/ Tick
  \/ Timeout
  \/ \E ok \in TxOutcomes :
       \/ ServiceHotkey(ok)
       \/ InjectFinish(ok)
       \/ InjectKey(ok)
       \/ OpenSession(ok)
       \/ StartLink(ok)

Receive == \E p \in Packets, ok \in TxOutcomes : PollPacket(p, ok)

User ==
  \/ \E w \in UserWords : KeyPress(w)
  \/ HotkeyPress
  \/ HotkeyRelease

App == AppRead \/ \E ok \in TxOutcomes : ReturnedHotkey(ok)

Next == Worker \/ Receive \/ User \/ App

Spec == Init /\ [][Next]_vars

(* The application keeps calling INT 18h and reads the keyboard, and a call
   of the worker returns.  Both are assumptions about the application: an
   application blocked in AH=00h starts no call while no byte is received
   (OnOpensLink of InputHook.tla). *)
FairSpec == Spec /\ WF_vars(Worker) /\ SF_vars(App /\ Kb!Take)

-----------------------------------------------------------------------------
(* Properties *)

TypeOK ==
  /\ link_state \in {"CLOSED", "HELLO_WAIT", "READY"}
  /\ open_pending \in BOOLEAN /\ ime_active \in BOOLEAN /\ ime_enabled \in BOOLEAN
  /\ sequence \in SeqNums /\ open_sequence \in SeqNums
  /\ wait_ticks \in 0 .. WaitLimit - 1
  /\ pending_text \in Seq(Nat)
  /\ pending_offset \in 0 .. Len(pending_text)
  /\ pending_sequence \in SeqNums
  /\ pending_key \in Nat
  /\ serial_opened \in BOOLEAN /\ irq_capture \in BOOLEAN
  /\ kbd \in Seq(Nat) /\ Len(kbd) <= KbCapacity
  /\ hotkey_down \in BOOLEAN
  /\ pc \in {"idle", "poll", "text", "key", "open", "tick"}
  /\ budget \in Nat
  /\ injected \in Seq(Nat)
  /\ abandoned \in BOOLEAN

(* The toggle, the wish to open and the open session are three flags that
   seven places of foreground.c write one at a time: ON means exactly one of
   "wanted" and "open", a session needs a READY link, and OFF leaves no link
   behind (foreground.c:76-115, 292-306, 378-398). *)
SessionFlags ==
  /\ ime_enabled <=> (open_pending \/ ime_active)
  /\ ~(open_pending /\ ime_active)
  /\ ime_active => link_state = "READY"
  /\ link_state # "CLOSED" => ime_enabled

(* On every path (answer, close, timeout, failed transmit) the port, the
   receive interrupt and the PIC mask are held exactly as long as the link,
   and the mask found before is back afterwards: "owns the receive
   interrupt, and restores the original mask when the session closes"
   (docs/pc98-tsr.md:96-98; serial_irq_buffer_pc98.c:31-52). *)
PortOwnership ==
  /\ serial_opened <=> link_state # "CLOSED"
  /\ irq_capture <=> link_state # "CLOSED"
  /\ saved_pic_mask = (IF irq_capture THEN <<found_mask>> ELSE << >>)
  /\ pic_mask = (IF irq_capture THEN found_mask \ {"com1"} ELSE found_mask)

(* Staged input belongs to the OPEN_IME that is out, unless a response
   timeout cut it off: no text of a closed session reaches the application
   later (foreground.c:143-180, 276-308). *)
StagedInSession ==
  Staged /\ ~abandoned => ime_active /\ pending_sequence = open_sequence

(* Across any number of worker calls, stalls on a full queue and batches,
   the words queued so far are the units of the staged text up to
   pending_offset, each once and in order (foreground.c:276-288). *)
InjectedInOrder == QueuedInOrder(pending_text, pending_offset, injected)

Sends(type) == tx' # << >> /\ tx'[1].type = type

(* TEXT_ACK goes out only when every unit of the text has entered the BIOS
   queue ("only after complete queue insertion", SPECIFICATION.md:80). *)
AckComplete ==
  [][Sends("TEXT_ACK") =>
       {injected[n] : n \in DOMAIN injected} = UnitStarts(pending_text)]_vars

(* Every TEXT_ACK and KEY_ACK answers the OPEN_IME that is out, unless the
   input was cut off by a timeout earlier (foreground.c:290, 303). *)
AckInSession ==
  [][Sends("TEXT_ACK") \/ Sends("KEY_ACK") =>
       abandoned \/ (ime_active /\ tx'[1].seq = open_sequence)]_vars

(* A new OPEN_IME is never sent while input of the last one waits in the
   staging buffer (foreground.c:378-380, 141-142). *)
OpenAfterAnswer == [][Sends("OPEN_IME") => ~Staged \/ abandoned]_vars

(* Once the user leaves the keyboard alone, a staged text leaves the staging
   buffer, and so does a key no timeout cut off: it is injected, or the
   session closed (foreground.c:373-376).  A key left over by a timeout has
   no such guarantee: the texts of later sessions are injected first and
   may fill the queue each time. *)
StagedEnds ==
  <>[][~User]_vars =>
    /\ pending_text # << >> ~> pending_text = << >>
    /\ pending_key # NoKey /\ ~abandoned ~> pending_key = NoKey \/ abandoned

(* A handshake or a session the host never answers is given up after a
   bounded number of worker calls, as long as the application makes them
   (foreground.c:385-398). *)
HandshakeEnds == link_state = "HELLO_WAIT" ~> link_state # "HELLO_WAIT"

SilentSessionEnds == ime_active ~> ~ime_active

=============================================================================
