---------------------------- MODULE BridgeSystem ----------------------------
(***************************************************************************)
(* The TSR of TsrWorker.tla and the bridge of BridgeLine.tla, joined by    *)
(* the COM1 line: two FIFO wires, a connection that may break and come     *)
(* back, a transmit timeout that leaves a piece of a packet on the line,   *)
(* and a closed PC-98 port that loses what arrives.                        *)
(***************************************************************************)
EXTENDS TsrWorker

CONSTANTS
  AutomaticText,   \* see BridgeHost
  MaxPayload,
  UserInputs,      \* what the user sends, in this order
  MaxPresses,      \* bound on hotkey strokes
  MaxFaults        \* see BridgeLine

ASSUME SystemAssumption ==
  /\ AutomaticText \in Seq(Nat)
  /\ MaxPayload \in Nat /\ MaxPresses \in Nat /\ MaxFaults \in Nat

(* Packets holds what the bridge may send: answers, and the user's inputs. *)
ASSUME CarriedAssumption ==
  /\ UserInputs \in Seq([type : {"TEXT", "KEY"}, data : Seq(Nat)])
  /\ \A n \in DOMAIN UserInputs :
       UserInputs[n].type = "KEY" => Len(UserInputs[n].data) = 1
  /\ \A seq \in SeqNums :
       /\ {Packet("PONG", seq, << >>), Packet("CLOSE_IME", seq, << >>)} \subseteq Packets
       /\ AutomaticText # << >> => Packet("TEXT", seq, AutomaticText) \in Packets
       /\ \A n \in DOMAIN UserInputs :
            Packet(UserInputs[n].type, seq, UserInputs[n].data) \in Packets

VARIABLES
  stream, openSequence, imeReady, targetMaxTextBytes, input, toDos,  \* see BridgeHost
  toHost, faults,  \* see BridgeLine
  presses,     \* hotkey strokes so far
  sent,        \* history: the inputs sent, by their first key word
  delivered,   \* history: the numbers of those injected
  outstanding  \* history: an input was sent and not yet answered

hostState == <<stream, openSequence, imeReady, targetMaxTextBytes, input, toDos>>
history == <<sent, delivered, outstanding>>
systemVars == <<vars, hostState, toHost, presses, faults, history>>

Host == INSTANCE BridgeLine

-----------------------------------------------------------------------------
(* The line *)

(* What this step of the PC-98 transmitted. *)
Uplink == Host!Carry(tx') /\ Host!CountBroken(tx')

-----------------------------------------------------------------------------
(* The PC-98 *)

FirstWord(p) ==
  IF p.type = "TEXT" THEN WordAt(p.data, 1) ELSE KeyWordOf[p.data[1]]

(* The first word of an input that enters the keyboard queue. *)
Injects ==
  IF Len(kbd') > Len(kbd) /\ (pc = "key" \/ (pc = "text" /\ pending_offset = 0))
  THEN <<kbd'[Len(kbd')]>>
  ELSE << >>

NumberOf(word) == CHOOSE n \in DOMAIN sent : sent[n] = word

NoteDelivery ==
  delivered' = (IF Injects = << >> THEN delivered
                ELSE Append(delivered, NumberOf(Injects[1])))

TsrStep ==
  /\ Worker
  /\ Uplink
  /\ NoteDelivery
  /\ UNCHANGED <<hostState, presses, sent, outstanding>>

TsrReceives ==
  /\ toDos # << >>
  /\ \E ok \in TxOutcomes : PollPacket(Head(toDos), ok)
  /\ toDos' = Tail(toDos)
  /\ Uplink
  /\ UNCHANGED <<stream, openSequence, imeReady, targetMaxTextBytes, input, presses,
                 history>>

(* Nobody reads the 8251 while the port is closed. *)
ClosedPortLoses ==
  /\ ~serial_opened
  /\ toDos # << >>
  /\ toDos' = Tail(toDos)
  /\ UNCHANGED <<vars, stream, openSequence, imeReady, targetMaxTextBytes, input,
                 toHost, presses, faults, history>>

(* Strokes at the PC-98 keyboard, and AH=01 calls that see a hotkey Space
   without removing it: each of these may toggle the IME anew. *)
UserStroke ==
  /\ presses < MaxPresses
  /\ \/ HotkeyPress
     \/ \E w \in UserWords : KeyPress(w)
     \/ App /\ UNCHANGED kbd
  /\ presses' = presses + 1
  /\ Uplink
  /\ UNCHANGED <<hostState, history>>

AppReads ==
  /\ App
  /\ Kb!Take
  /\ Uplink
  /\ UNCHANGED <<hostState, presses, history>>

KeyRelease ==
  /\ HotkeyRelease
  /\ UNCHANGED <<hostState, toHost, presses, faults, history>>

-----------------------------------------------------------------------------
(* The bridge *)

(* The first word of the input a host step put on the wire. *)
NoteSend ==
  IF toDos' # toDos /\ toDos'[Len(toDos')].type \in {"TEXT", "KEY"}
  THEN /\ sent' = Append(sent, FirstWord(toDos'[Len(toDos')]))
       /\ outstanding' = TRUE
       /\ UNCHANGED delivered
  ELSE UNCHANGED history

HostReceives ==
  /\ Host!Serves
  /\ IF Head(toHost).type \in {"TEXT_ACK", "KEY_ACK", "OPEN_IME", "CLOSE_IME"}
       THEN IF toDos' = toDos
              THEN outstanding' = FALSE /\ UNCHANGED <<sent, delivered>>
              ELSE NoteSend
       ELSE UNCHANGED history
  /\ UNCHANGED <<vars, presses>>

HostSkipsFragment == Host!SkipsFragment /\ UNCHANGED <<vars, presses, history>>

HostRejectsFragment ==
  /\ Host!RejectsFragment
  /\ outstanding' = FALSE
  /\ UNCHANGED <<vars, presses, sent, delivered>>

HostConnects == Host!Connects /\ UNCHANGED <<vars, presses, history>>

LineBreaks == Host!Breaks /\ UNCHANGED <<vars, presses, history>>

HostNoticesBreak ==
  /\ Host!NoticesBreak
  /\ outstanding' = FALSE
  /\ UNCHANGED <<vars, presses, sent, delivered>>

(* The next of UserInputs: a text goes through the box, a key does not. *)
NextIs(type) ==
  Len(sent) < Len(UserInputs) /\ UserInputs[Len(sent) + 1].type = type

NextData == UserInputs[Len(sent) + 1].data

HostUser ==
  /\ \/ NextIs("TEXT") /\ Host!TypeText(NextData)
     \/ NextIs("TEXT") /\ Host!SendText
     \/ NextIs("KEY") /\ Host!SendKey(NextData[1])
     \/ Host!ClearInput
     \/ Host!SendCloseIme
  /\ NoteSend
  /\ UNCHANGED <<vars, toHost, presses, faults>>

-----------------------------------------------------------------------------

SystemInit ==
  /\ Init
  /\ Host!LineInit
  /\ presses = 0
  /\ sent = << >> /\ delivered = << >> /\ outstanding = FALSE

SystemNext ==
  \/ TsrStep \/ TsrReceives \/ ClosedPortLoses \/ UserStroke \/ AppReads \/ KeyRelease
  \/ HostReceives \/ HostSkipsFragment \/ HostRejectsFragment
  \/ HostConnects \/ LineBreaks \/ HostNoticesBreak \/ HostUser

SystemSpec == SystemInit /\ [][SystemNext]_systemVars

(* A call of the worker begins with an INT 18h or a COM1 interrupt, and then
   goes on to its end. *)
CallStarts == TsrStep /\ pc = "idle"
CallGoesOn == TsrStep /\ pc # "idle"

(* A call that has begun returns: each of its loops is bounded.  Nothing is
   assumed of the application, the line, the bridge and the two users. *)
FairSystem == SystemSpec /\ WF_systemVars(CallGoesOn)

-----------------------------------------------------------------------------
(* Properties *)

InputNumbers == 1 .. Len(UserInputs)

(* The TSR, joined to the real bridge over a faulty line, is the TSR of
   TsrWorker with the assumption that an OPEN_IME brings one TEXT or KEY at
   most: everything checked and proved there under OneOutstanding holds here
   (BridgeForm.cs:467-508 against foreground.c:143-180). *)
Assumed == INSTANCE TsrWorker WITH OneOutstanding <- TRUE

TsrAsAssumed == Assumed!Spec

(* Stale sessions, lost connections and timeouts included, an input sent
   from Windows enters the keyboard queue once at most. *)
Delivery == INSTANCE TextDelivery WITH
              Inputs <- {FirstWord(UserInputs[n]) : n \in InputNumbers}

DeliversAtMostOnce == Delivery!Spec

NothingCutOff == \A n \in 1 .. Len(toHost) : toHost[n].type # "BROKEN"

(* When the bridge lets the user type and nothing from the PC-98 is under
   way, the PC-98 is either waiting for exactly that OPEN_IME or has given
   up by a timeout, which it does without telling the bridge
   (BridgeForm.cs:408-437, foreground.c:87-115, 392-397).  So it is as long
   as what the PC-98 sends comes out whole: when a transmit timeout cuts off
   the TEXT_ACK of a text staged before, the bridge skips it and stays
   ready. *)
ReadyMeansOpen ==
  []NothingCutOff =>
    [](imeReady /\ stream = "up" /\ toHost = << >> =>
         \/ link_state # "READY"
         \/ ime_active /\ open_sequence = openSequence /\ ~outstanding)

HostTakesAck ==
  /\ toHost # << >> /\ toHost' = Tail(toHost)
  /\ toHost[1].type \in {"TEXT_ACK", "KEY_ACK"}

IsKeyInput(n) == UserInputs[n].type = "KEY"

(* The input the user waits for is in the keyboard queue when its ACK is
   taken ... if the ACK has the number of the OPEN_IME it was sent for and
   is of its kind, neither of which the bridge looks at
   (BridgeForm.cs:439-450). *)
MatchingAckIsHonest ==
  [][HostTakesAck /\ outstanding /\ toHost[1].seq = openSequence
       /\ (toHost[1].type = "KEY_ACK" <=> IsKeyInput(Len(sent))) =>
       Len(sent) \in {delivered[i] : i \in DOMAIN delivered}]_systemVars

(* ... and without looking: "A sender waits for the matching ACK before
   reusing the input surface" (docs/protocol.md:70).  Refuted: the ACK of a
   text that a response timeout left staged ends the wait for a later one. *)
AckIsHonest ==
  [][HostTakesAck /\ outstanding =>
       Len(sent) \in {delivered[i] : i \in DOMAIN delivered}]_systemVars

(* The application goes on calling INT 18h.  Nothing in the code makes it:
   one that blocks in AH=00h leaves the worker alone for as long as no byte
   is received, and what that does to a switched-on IME is OnOpensLink of
   InputHook.tla.  So this is a hypothesis of the properties that need it. *)
KeepsCalling == WF_systemVars(CallStarts)

(* The PC-98 waits in a session nobody will answer: its bridge is gone, or
   does not take input, and nothing is under way or staged. *)
Forgotten ==
  /\ ime_active /\ ~Staged
  /\ stream # "up" \/ ~imeReady
  /\ toHost = << >> /\ toDos = << >>

Off == ~ime_enabled /\ link_state = "CLOSED"

(* Nothing revives a forgotten session, no reconnection and no user at
   either end: it stays forgotten or is OFF. *)
ForgottenStays == [][Forgotten => Forgotten' \/ Off']_systemVars

(* "Local hotkey, host CLOSE_IME, timeout, or disconnect returns to a safe
   OFF state" (SPECIFICATION.md:82-83): a session that lost its input on the
   line, or whose connection broke, ends OFF with the link closed and in no
   other way, if the application keeps calling; nobody tells the PC-98, only
   the response counter (foreground.c:385-398, BridgeForm.cs:453-464). *)
ForgottenSessionEnds ==
  /\ ForgottenStays
  /\ KeepsCalling => (Forgotten ~> Off)

(* Switched on with a bridge connected, the TSR gets the bridge ready or
   ends OFF again, if the application keeps calling: no lost PONG, OPEN_IME
   or ACK and no piece of a packet leaves it half open, unless transmits
   fail for ever, which the bound on faults leaves out
   (foreground.c:87-115, 325-335, 385-398). *)
OpenReachesBridge ==
  KeepsCalling =>
    (ime_enabled /\ stream = "up" ~> imeReady \/ ~ime_enabled \/ stream # "up")

=============================================================================
