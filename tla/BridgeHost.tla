----------------------------- MODULE BridgeHost -----------------------------
(***************************************************************************)
(* The Windows bridge, host/ImeDosBridge/BridgeForm.cs: the serving of one *)
(* connection, the input box, and the three sends the user can ask for.    *)
(*                                                                         *)
(* ListenAsync is started by the form and never leaves its synchronization *)
(* context, SendAsync writes before it returns, and key events run on the  *)
(* same thread: between two awaits of ReadPacketAsync each handler is one  *)
(* step.  Packets it reads are handed in by BridgeSystem.                  *)
(***************************************************************************)
EXTENDS Integers, Sequences

CONSTANTS
  AutomaticText,   \* the --text argument, << >> when there is none
  MaxPayload       \* Packet.MaxPayload, 512

VARIABLES
  stream,          \* "none", "up", or "broken": lost, and not yet noticed
  openSequence,    \* sequence of the last OPEN_IME, 0 when none
  imeReady,        \* the user may send
  targetMaxTextBytes,  \* longest text the PC-98 takes, by its HELLO
  input,           \* the text in the input box
  toDos            \* packets on their way to the PC-98

hostVars == <<stream, openSequence, imeReady, targetMaxTextBytes, input, toDos>>

Message(type, seq, data) == [type |-> type, seq |-> seq, data |-> data]

Send(type, seq, data) == toDos' = Append(toDos, Message(type, seq, data))

HostInit ==
  /\ stream = "none"
  /\ openSequence = 0
  /\ imeReady = FALSE
  /\ targetMaxTextBytes = MaxPayload
  /\ input = << >>
  /\ toDos = << >>

-----------------------------------------------------------------------------
(* ListenAsync and the frame of ServeAsync *)

Connect ==
  /\ stream = "none"
  /\ stream' = "up"
  /\ openSequence' = 0
  /\ imeReady' = FALSE
  /\ targetMaxTextBytes' = MaxPayload
  /\ UNCHANGED <<input, toDos>>

(* The finally block: end of stream, an I/O error or a protocol error. *)
ServeEnd ==
  /\ stream' = "none"
  /\ openSequence' = 0
  /\ imeReady' = FALSE
  /\ targetMaxTextBytes' = MaxPayload
  /\ UNCHANGED input

-----------------------------------------------------------------------------
(* The packet loop of ServeAsync *)

(* Fault for the checks: the capacity in HELLO is not read. *)
ReceiveHelloDeaf(p) ==
  /\ p.type = "HELLO"
  /\ Send("PONG", p.seq, << >>)
  /\ UNCHANGED <<stream, openSequence, imeReady, targetMaxTextBytes, input>>

(* HELLO announces the capacity of the PC-98; nothing of it, zero or too
   much mean the default.  An open session stays as it was. *)
ReceiveHello(p) ==
  /\ p.type = "HELLO"
  /\ targetMaxTextBytes' = (IF p.data # << >> /\ p.data[1] \in 1 .. MaxPayload
                            THEN p.data[1] ELSE MaxPayload)
  /\ Send("PONG", p.seq, << >>)
  /\ UNCHANGED <<stream, openSequence, imeReady, input>>

ReceivePing(p) ==
  /\ p.type = "PING"
  /\ Send("PONG", p.seq, << >>)
  /\ UNCHANGED <<stream, openSequence, imeReady, targetMaxTextBytes, input>>

(* Fault for the checks: the number of the session before is kept. *)
ReceiveOpenKeepsSequence(p) ==
  /\ p.type = "OPEN_IME"
  /\ openSequence' = (IF openSequence = 0 THEN p.seq ELSE openSequence)
  /\ imeReady' = TRUE
  /\ UNCHANGED <<stream, targetMaxTextBytes, input, toDos>>

(* In automatic mode the text is sent at once, and the box stays usable. *)
ReceiveOpen(p) ==
  /\ p.type = "OPEN_IME"
  /\ openSequence' = p.seq
  /\ imeReady' = TRUE
  /\ IF AutomaticText # << >> /\ Len(AutomaticText) <= targetMaxTextBytes
       THEN Send("TEXT", p.seq, AutomaticText)
       ELSE UNCHANGED toDos
  /\ UNCHANGED <<stream, targetMaxTextBytes, input>>

ReceiveClose(p) ==
  /\ p.type = "CLOSE_IME"
  /\ openSequence' = 0
  /\ imeReady' = FALSE
  /\ input' = << >>
  /\ UNCHANGED <<stream, targetMaxTextBytes, toDos>>

(* An ACK is taken whatever its sequence. *)
ReceiveAck(p) ==
  /\ p.type \in {"TEXT_ACK", "KEY_ACK"}
  /\ openSequence' = 0
  /\ imeReady' = FALSE
  /\ UNCHANGED <<stream, targetMaxTextBytes, input, toDos>>

(* Any other type is ignored; no DOS program sends one. *)
Receive(p) ==
  /\ stream = "up"
  /\ \/ ReceiveHello(p)
     \/ ReceivePing(p)
     \/ ReceiveOpen(p)
     \/ ReceiveClose(p)
     \/ ReceiveAck(p)

-----------------------------------------------------------------------------
(* OnKeyDown.  A send on a broken stream throws and puts imeReady back, so  *)
(* it leaves everything as it was and is not an action here.                *)

TypeText(text) ==
  /\ input = << >>
  /\ text # << >>
  /\ input' = text
  /\ UNCHANGED <<stream, openSequence, imeReady, targetMaxTextBytes, toDos>>

(* Escape on a filled box. *)
ClearInput ==
  /\ input # << >>
  /\ input' = << >>
  /\ UNCHANGED <<stream, openSequence, imeReady, targetMaxTextBytes, toDos>>

MaySend == stream = "up" /\ imeReady

(* Fault for the checks: a second Enter sends again. *)
SendTextStaysReady ==
  /\ MaySend
  /\ input # << >>
  /\ Len(input) <= targetMaxTextBytes
  /\ Send("TEXT", openSequence, input)
  /\ input' = << >>
  /\ UNCHANGED <<stream, openSequence, imeReady, targetMaxTextBytes>>

SendText ==
  /\ MaySend
  /\ input # << >>
  /\ Len(input) <= targetMaxTextBytes
  /\ Send("TEXT", openSequence, input)
  /\ imeReady' = FALSE
  /\ input' = << >>
  /\ UNCHANGED <<stream, openSequence, targetMaxTextBytes>>

SendKey(code) ==
  /\ MaySend
  /\ input = << >>
  /\ Send("KEY", openSequence, <<code>>)
  /\ imeReady' = FALSE
  /\ UNCHANGED <<stream, openSequence, targetMaxTextBytes, input>>

SendCloseIme ==
  /\ MaySend
  /\ input = << >>
  /\ Send("CLOSE_IME", openSequence, << >>)
  /\ imeReady' = FALSE
  /\ UNCHANGED <<stream, openSequence, targetMaxTextBytes, input>>

=============================================================================
