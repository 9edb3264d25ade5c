----------------------- MODULE ForegroundClientProofs -----------------------
(***************************************************************************)
(* The foreground client for every capacity, number of HELLO attempts,     *)
(* text and number of runs.  Three invariants build on each other: who     *)
(* holds the device in which step, the types, and what has been queued.    *)
(* Two more stand beside them: what is on the line while the bridge knows  *)
(* the capacity or does not, and what a verification has left to read.     *)
(***************************************************************************)
EXTENDS ForegroundClient, KeyWordsProofs, SequenceTheorems, FiniteSetTheorems

-----------------------------------------------------------------------------
(* Who holds the device, COM1 and the driver's session *)

(* The injection without /VERIFY comes after the session. *)
Injecting == pc \in {"check", "loop"} /\ ~verify

Holding == pc \notin {"none", "device"} /\ ~Injecting

SessionInv ==
  /\ pc \in Steps /\ verify \in BOOLEAN
  /\ device_is_open \in BOOLEAN /\ serial_opened \in BOOLEAN
  /\ driver \in {"absent", "deaf", "good"}
  /\ session_state \in 0 .. 1
  /\ device_is_open <=> Holding
  /\ open_count = IF device_is_open THEN 1 ELSE 0
  /\ serial_opened => Holding
  /\ session_state = 1 => driver = "good"
  /\ pc \notin {"none", "device", "session"} => driver = "good"
  /\ ~Holding /\ session_state = 1 => pc = "device" \/ (pc = "none" /\ aborted)
  /\ pc = "readback" => verify

sessionVars == <<driverVars, pc, device_is_open, serial_opened, verify, aborted>>

LEMMA SessionStarts == Init => SessionInv
<1> SUFFICES ASSUME Init  PROVE SessionInv
  OBVIOUS
<1>1. /\ pc = "none" /\ verify = FALSE /\ device_is_open = FALSE /\ serial_opened = FALSE
      /\ driver \in {"absent", "deaf", "good"}
      /\ session_state = 0 /\ open_count = 0
  BY DEF Init
<1>2. ~Holding
  BY <1>1 DEF Holding
<1>3. session_state \in 0 .. 1 /\ session_state # 1
  BY <1>1
<1>. QED  BY <1>1, <1>2, <1>3 DEF SessionInv, Steps

LEMMA SessionFrame ==
  ASSUME SessionInv, UNCHANGED sessionVars
  PROVE  SessionInv'
BY DEF SessionInv, Holding, Injecting, sessionVars, driverVars

(* Every way out that main itself takes gives all three back. *)
LEMMA CloseGivesBack ==
  ASSUME SessionInv, Holding, CloseSession, UNCHANGED <<verify, aborted>>,
         \/ pc' = "none"
         \/ pc' = "check" /\ ~verify /\ pc = "close"
  PROVE  SessionInv'
<1>1. device_is_open /\ open_count = 1 /\ driver' = driver
  BY DEF SessionInv, CloseSession
<1>2. device_is_open' = FALSE /\ serial_opened' = FALSE /\ open_count' = 0
  BY <1>1 DEF CloseSession, HandleClosed, DeviceClose, PortClosed
<1>3. session_state' = 0
  <2>1. session_state' = IF driver = "good" THEN 0 ELSE session_state
    BY <1>1 DEF CloseSession, Commanded, IoctlOutput
  <2>. QED  BY <2>1 DEF SessionInv
<1>4. ~Holding'
  BY DEF Holding, Injecting
<1>5. /\ pc' \in Steps /\ pc' \in {"none", "check"} /\ (pc' = "check" => driver' = "good")
      /\ verify' \in BOOLEAN /\ driver' \in {"absent", "deaf", "good"}
  BY <1>1 DEF SessionInv, Steps
<1>6. session_state' \in 0 .. 1 /\ session_state' # 1
  BY <1>3
<1>. QED  BY <1>2, <1>4, <1>5, <1>6 DEF SessionInv

LEMMA FailGivesBack ==
  ASSUME SessionInv, Holding, Fail, UNCHANGED env
  PROVE  SessionInv'
BY CloseGivesBack DEF Fail, Exit, env

(* A step within the session. *)
LEMMA GoesOn ==
  ASSUME SessionInv, Holding, pc # "session", NEW next, Goes(next), UNCHANGED env,
         \/ next \in {"hello", "ping", "open", "ack", "close"}
         \/ verify /\ next \in {"check", "loop", "readback"}
  PROVE  SessionInv'
<1>1. /\ UNCHANGED <<driverVars, device_is_open, serial_opened, aborted, verify>>
      /\ pc' = next
  BY DEF Goes, ending, env
<1>2. Holding'
  BY <1>1 DEF Holding, Injecting, SessionInv
<1>3. pc' \in Steps /\ driver = "good"
  BY <1>1 DEF Steps, SessionInv, Holding
<1>. QED  BY <1>1, <1>2, <1>3 DEF SessionInv, driverVars

(* A step of the injection behind the session. *)
LEMMA InjectsOn ==
  ASSUME SessionInv, Injecting, UNCHANGED <<driverVars, device_is_open, serial_opened>>,
         UNCHANGED <<verify, aborted>>, pc' \in {"loop", "none"}
  PROVE  SessionInv'
<1>1. ~Holding /\ ~Holding' /\ pc' \in Steps /\ pc \in {"check", "loop"}
  BY DEF Holding, Injecting, Steps
<1>2. driver = "good" /\ session_state = 0
  BY <1>1 DEF SessionInv
<1>. QED  BY <1>1, <1>2 DEF SessionInv, driverVars

LEMMA SessionSteps == SessionInv /\ [Next]_vars => SessionInv'
<1> SUFFICES ASSUME SessionInv, [Next]_vars  PROVE SessionInv'
  OBVIOUS
<1>1. CASE Start
  <2>1. ~Holding /\ ~Holding' /\ pc' = "device" /\ verify' \in BOOLEAN
    BY <1>1 DEF Start, Holding, Injecting
  <2>2. UNCHANGED <<driver, open_count, session_state, device_is_open, serial_opened>>
    BY <1>1 DEF Start, driverVars
  <2>. QED  BY <2>1, <2>2 DEF SessionInv, Steps
<1>2. CASE OpenDevice
  <2>1. ~Holding /\ pc = "device" /\ UNCHANGED <<driver, session_state, serial_opened, verify>>
    BY <1>2 DEF OpenDevice, env, Holding
  <2>2. CASE driver = "absent"
    <3>1. pc' = "none" /\ ~Holding' /\ UNCHANGED <<open_count, device_is_open>>
      BY <1>2, <2>2 DEF OpenDevice, Exit, Holding
    <3>. QED  BY <2>1, <2>2, <3>1 DEF SessionInv, Steps
  <2>3. CASE driver # "absent"
    <3>1. pc' = "session" /\ Holding' /\ device_is_open' = TRUE
      BY <1>2, <2>3 DEF OpenDevice, HandleOpened, Holding, Injecting
    <3>2. open_count = 0 /\ open_count' = 1
      <4>1. open_count = 0
        BY <2>1 DEF SessionInv
      <4>2. DeviceOpen
        BY <1>2, <2>3 DEF OpenDevice, HandleOpened
      <4>. QED  BY <4>1, <4>2 DEF DeviceOpen
    <3>. QED  BY <2>1, <3>1, <3>2 DEF SessionInv, Steps
  <2>. QED  BY <2>2, <2>3
<1>3. CASE OpenSession
  <2>1. Holding /\ pc = "session" /\ UNCHANGED env
    BY <1>3 DEF OpenSession, Holding, Injecting
  <2>2. CASE driver = "good"
    <3>1. /\ pc' = "serial" /\ device_is_open /\ session_state' = 1
          /\ UNCHANGED <<driver, open_count, device_is_open, serial_opened, verify, aborted>>
      BY <1>3, <2>1, <2>2
      DEF OpenSession, Commanded, IoctlOutput, SessionInv, env, ending
    <3>2. Holding'
      BY <3>1 DEF Holding, Injecting
    <3>. QED  BY <2>1, <2>2, <3>1, <3>2 DEF SessionInv, Steps
  <2>3. CASE driver # "good"
    BY <1>3, <2>1, <2>3, FailGivesBack DEF OpenSession
  <2>. QED  BY <2>2, <2>3
<1>4. CASE OpenSerial
  <2>1. /\ pc \in {"serial", "hello"} /\ pc' = "hello" /\ serial_opened' = TRUE
        /\ UNCHANGED <<driver, open_count, session_state, device_is_open, verify, aborted>>
    BY <1>4 DEF OpenSerial, PortOpened, driverVars, ending, env
  <2>2. Holding /\ Holding'
    BY <2>1 DEF Holding, Injecting
  <2>. QED  BY <2>1, <2>2 DEF SessionInv, Steps
<1>5. ASSUME HelloAgain, pc = "hello", UNCHANGED env  PROVE SessionInv'
  <2>1. Holding
    BY <1>5 DEF Holding, Injecting
  <2>2. CASE Fail
    BY <1>5, <2>1, <2>2, FailGivesBack
  <2>3. CASE ~Fail
    <3>1. /\ serial_opened' = FALSE
          /\ UNCHANGED <<driver, open_count, session_state, pc, device_is_open, verify, aborted>>
      BY <1>5, <2>3 DEF HelloAgain, PortClosed, driverVars, ending, env
    <3>2. Holding'
      BY <2>1, <3>1 DEF Holding, Injecting
    <3>. QED  BY <2>1, <3>1, <3>2 DEF SessionInv
  <2>. QED  BY <2>2, <2>3
<1>6. CASE SendHello
  <2>1. pc = "hello" /\ Holding /\ UNCHANGED env /\ (HelloAgain \/ Goes("hello"))
    BY <1>6 DEF SendHello, Holding, Injecting
  <2>. QED  BY <1>5, <2>1, GoesOn
<1>7. CASE HelloAnswer
  <2>1. pc = "hello" /\ Holding /\ UNCHANGED env /\ (HelloAgain \/ Goes("ping"))
    BY <1>7 DEF HelloAnswer, Holding, Injecting
  <2>. QED  BY <1>5, <2>1, GoesOn
<1>8. CASE Ask
  <2>1. /\ pc \in {"ping", "open"} /\ Holding /\ UNCHANGED env
        /\ Fail \/ Goes(pc)
    BY <1>8 DEF Ask, Holding, Injecting
  <2>. QED  BY <2>1, GoesOn, FailGivesBack
<1>9. CASE PingAnswer
  <2>1. pc = "ping" /\ Holding /\ UNCHANGED env /\ (Fail \/ Goes("open"))
    BY <1>9 DEF PingAnswer, Holding, Injecting
  <2>. QED  BY <2>1, GoesOn, FailGivesBack
<1>10. CASE TextAnswer
  <2>1. /\ pc = "open" /\ Holding /\ UNCHANGED env
        /\ Fail \/ Goes(IF verify THEN "check" ELSE "ack")
    BY <1>10 DEF TextAnswer, Holding, Injecting
  <2>2. ASSUME Goes(IF verify THEN "check" ELSE "ack")  PROVE SessionInv'
    <3>1. CASE verify
      BY <2>1, <2>2, <3>1, GoesOn
    <3>2. CASE ~verify
      BY <2>1, <2>2, <3>2, GoesOn
    <3>. QED  BY <3>1, <3>2
  <2>. QED  BY <2>1, <2>2, FailGivesBack
<1>11. CASE SendAck
  <2>1. pc = "ack" /\ Holding /\ UNCHANGED env /\ (Fail \/ Goes("close"))
    BY <1>11 DEF SendAck, Holding, Injecting
  <2>. QED  BY <2>1, GoesOn, FailGivesBack
<1>12. CASE Close
  <2>1. pc = "close" /\ Holding /\ CloseSession /\ UNCHANGED <<verify, aborted>>
    BY <1>12 DEF Close, Holding, Injecting, env, ending, Exit
  <2>2. pc' = "none" \/ (pc' = "check" /\ ~verify)
    BY <1>12 DEF Close, Exit
  <2>. QED  BY <2>1, <2>2, CloseGivesBack
<1>13. ASSUME NEW complete \in BOOLEAN, InjectionEnds(complete), pc \in {"check", "loop"},
              UNCHANGED env
       PROVE  SessionInv'
  <2>1. CASE verify
    <3>1. Holding /\ (Goes("readback") \/ Goes("ack"))
      BY <1>13, <2>1 DEF InjectionEnds, Holding, Injecting
    <3>. QED  BY <1>13, <2>1, <3>1, GoesOn
  <2>2. CASE ~verify
    <3>1. /\ Injecting /\ pc' = "none"
          /\ UNCHANGED <<driverVars, device_is_open, serial_opened>>
          /\ UNCHANGED <<verify, aborted>>
      BY <1>13, <2>2 DEF InjectionEnds, Injecting, Exit, env
    <3>. QED  BY <3>1, InjectsOn
  <2>. QED  BY <2>1, <2>2
<1>14. ASSUME Goes("loop"), pc \in {"check", "loop"}, UNCHANGED env
       PROVE  SessionInv'
  <2>1. CASE verify
    <3>1. Holding
      BY <1>14, <2>1 DEF Holding, Injecting
    <3>. QED  BY <1>14, <2>1, <3>1, GoesOn
  <2>2. CASE ~verify
    <3>1. /\ Injecting /\ pc' = "loop"
          /\ UNCHANGED <<driverVars, device_is_open, serial_opened>>
          /\ UNCHANGED <<verify, aborted>>
      BY <1>14, <2>2 DEF Goes, Injecting, env, ending
    <3>. QED  BY <3>1, InjectsOn
  <2>. QED  BY <2>1, <2>2
<1>15. CASE InjectCheck
  BY <1>13, <1>14, <1>15 DEF InjectCheck
<1>16. CASE InjectWord
  BY <1>14, <1>16 DEF InjectWord
<1>17. CASE InjectFull
  BY <1>13, <1>17 DEF InjectFull
<1>18. CASE InjectDone
  BY <1>13, <1>18 DEF InjectDone
<1>19. CASE ReadBack \/ ReadBackDone
  <2>1. /\ pc = "readback" /\ verify /\ Holding /\ UNCHANGED env
        /\ Goes("readback") \/ Goes("ack")
    BY <1>19 DEF ReadBack, ReadBackDone, Holding, Injecting, SessionInv
  <2>. QED  BY <2>1, GoesOn
<1>20. CASE CtrlC
  <2>1. /\ Holding /\ pc' = "none" /\ aborted' = TRUE
        /\ UNCHANGED <<driver, session_state, verify>>
    BY <1>20 DEF CtrlC, Holding, Injecting, env
  <2>2. device_is_open' = FALSE /\ serial_opened' = FALSE
    BY <1>20 DEF CtrlC, HandleClosed, PortClosed
  <2>3. open_count' = 0
    <3>1. device_is_open /\ open_count = 1
      BY <2>1 DEF SessionInv
    <3>. QED  BY <1>20, <3>1 DEF CtrlC, HandleClosed, DeviceClose
  <2>4. ~Holding'
    BY <2>1 DEF Holding
  <2>. QED  BY <2>1, <2>2, <2>3, <2>4 DEF SessionInv, Steps
<1>21. CASE KeyPress \/ ParentReads
  <2>1. UNCHANGED sessionVars
    BY <1>21 DEF KeyPress, ParentReads, sessionVars, ending, env
  <2>. QED  BY <2>1, SessionFrame
<1>22. CASE ClosedPortLoses \/ Line \/ WindowsUser \/ UNCHANGED vars
  <2>1. UNCHANGED sessionVars
    BY <1>22 DEF ClosedPortLoses, Line, WindowsUser, vars, clientVars, sessionVars,
                 ending, env
  <2>. QED  BY <2>1, SessionFrame
<1>. QED
  BY <1>1, <1>2, <1>3, <1>4, <1>6, <1>7, <1>8, <1>9, <1>10, <1>11, <1>12, <1>15,
     <1>16, <1>17, <1>18, <1>19, <1>20, <1>21, <1>22
  DEF Next, Client

(* No run of the client, however it ends, keeps COM1 or the driver's handle,
   and the session flag stays set only behind a Ctrl-C (main.c:79-84). *)
THEOREM GivesSessionBack == Spec => []SessionGivenBack
<1>1. SessionInv => SessionGivenBack
  <2> SUFFICES ASSUME SessionInv, pc \in {"none", "check", "loop"},
                      ~(verify /\ pc # "none")
               PROVE  /\ ~serial_opened /\ ~device_is_open /\ open_count = 0
                      /\ session_state = 1 => aborted
    BY DEF SessionGivenBack
  <2>1. ~Holding
    BY DEF Holding, Injecting, SessionInv
  <2>. QED  BY <2>1 DEF SessionInv
<1>. QED  BY <1>1, SessionStarts, SessionSteps, PTL DEF Spec

-----------------------------------------------------------------------------
(* Types.  The texts the client reads come from the Windows user, through    *)
(* the bridge and the line.                                                  *)

Types == {"HELLO", "PING", "PONG", "OPEN_IME", "CLOSE_IME", "TEXT", "TEXT_ACK",
          "KEY", "BROKEN"}

Packets == [type : Types, seq : Nat, data : Seq(Nat)]

LineTyped ==
  /\ toDos \in Seq(Packets) /\ toHost \in Seq(Packets)
  /\ openSequence \in Nat
  /\ input \in Seq(Nat)

LEMMA MessageTyped ==
  ASSUME NEW type \in Types, NEW seq \in Nat, NEW data \in Seq(Nat)
  PROVE  Host!Message(type, seq, data) \in Packets /\ Packet(type, seq, data) \in Packets
BY DEF Host!Message, Packet, Packets

LEMMA SentTyped ==
  ASSUME toDos \in Seq(Packets), NEW m \in Packets, toDos' = Append(toDos, m)
  PROVE  toDos' \in Seq(Packets)
BY AppendProperties

LEMMA LineStarts == Init => LineTyped
BY DEF Init, Host!LineInit, Host!HostInit, LineTyped

(* The client writes packets and reads them from the front. *)
LEMMA WritesTyped ==
  ASSUME LineTyped, NEW p \in Packets, Writes(<<p>>)
  PROVE  LineTyped'
<1>1. UNCHANGED <<toDos, openSequence, input>>
  BY DEF Writes, hostState
<1>2. toHost' = toHost \/ toHost' = toHost \o <<p>>
  BY DEF Writes, Host!Carry
<1>3. <<p>> \in Seq(Packets)
  OBVIOUS
<1>4. toHost \o <<p>> \in Seq(Packets)
  BY <1>3, ConcatProperties DEF LineTyped
<1>. QED  BY <1>1, <1>2, <1>4 DEF LineTyped

LEMMA FewerArrive ==
  ASSUME LineTyped, UNCHANGED <<hostState, toHost>>,
         toDos' = toDos \/ (toDos # << >> /\ toDos' = Tail(toDos))
  PROVE  LineTyped'
<1>1. toDos # << >> => Tail(toDos) \in Seq(Packets)
  BY HeadTailProperties DEF LineTyped
<1>. QED  BY <1>1 DEF LineTyped, hostState

LEMMA ReadsTyped ==
  ASSUME LineTyped, ReadsNothing \/ (Reads /\ Arrived # {})
  PROVE  LineTyped'
<1>1. Arrived # {} => toDos # << >>
  BY DEF Arrived, LineTyped
<1>. QED  BY <1>1, FewerArrive DEF ReadsNothing, Reads

LEMMA RestTyped ==
  ASSUME NEW s \in Seq(Packets), NEW n \in 1 .. Len(s)
  PROVE  SubSeq(s, n + 1, Len(s)) \in Seq(Packets)
<1>1. Len(s) \in Nat /\ \A i \in n + 1 .. Len(s) : s[i] \in Packets
  OBVIOUS
<1>. QED  BY <1>1, SubSeqProperties

LEMMA ReceivesTyped ==
  ASSUME LineTyped, NEW p \in Packets, Host!Receive(p)
  PROVE  toDos' \in Seq(Packets) /\ openSequence' \in Nat /\ input' \in Seq(Nat)
<1>1. p.seq \in Nat /\ p.data \in Seq(Nat) /\ << >> \in Seq(Nat)
  BY DEF Packets
<1>2. CASE Host!ReceiveHello(p) \/ Host!ReceivePing(p)
  <2> DEFINE m == Host!Message("PONG", p.seq, << >>)
  <2>1. toDos' = Append(toDos, m) /\ UNCHANGED <<openSequence, input>>
    BY <1>2 DEF Host!ReceiveHello, Host!ReceivePing, Host!Send
  <2>2. m \in Packets /\ toDos \in Seq(Packets)
    BY <1>1, MessageTyped DEF LineTyped, Types
  <2> HIDE DEF m
  <2>3. toDos' \in Seq(Packets)
    BY <2>1, <2>2, SentTyped
  <2>. QED  BY <2>1, <2>3 DEF LineTyped
<1>3. CASE Host!ReceiveOpen(p)
  <2> DEFINE m == Host!Message("TEXT", p.seq, AutomaticText)
  <2>1. /\ openSequence' = p.seq /\ input' = input
        /\ toDos' = Append(toDos, m) \/ toDos' = toDos
    BY <1>3 DEF Host!ReceiveOpen, Host!Send
  <2>2. AutomaticText \in Seq(Nat)
    BY ClientAssumption
  <2>3. m \in Packets /\ toDos \in Seq(Packets)
    BY <1>1, <2>2, MessageTyped DEF LineTyped, Types
  <2> HIDE DEF m
  <2>4. toDos' \in Seq(Packets)
    BY <2>1, <2>3, SentTyped
  <2>5. openSequence' \in Nat /\ input' \in Seq(Nat)
    BY <1>1, <2>1 DEF LineTyped
  <2>. QED  BY <2>4, <2>5
<1>4. CASE Host!ReceiveClose(p) \/ Host!ReceiveAck(p)
  <2>1. /\ toDos' = toDos /\ openSequence' = 0
        /\ input' = input \/ input' = << >>
    BY <1>4 DEF Host!ReceiveClose, Host!ReceiveAck
  <2>. QED  BY <1>1, <2>1 DEF LineTyped
<1>. QED  BY <1>2, <1>3, <1>4 DEF Host!Receive

LEMMA LossTyped ==
  ASSUME LineTyped, Host!LineLoss
  PROVE  toDos' \in Seq(Packets) /\ toHost' \in Seq(Packets)
<1>1. PICK n \in 0 .. Len(toDos) : toDos' = SubSeq(toDos, 1, n)
  BY DEF Host!LineLoss
<1>2. SubSeq(toDos, 1, n) \in Seq(Packets)
  BY SubSeqProperties DEF LineTyped
<1>. QED  BY <1>1, <1>2 DEF Host!LineLoss

LEMMA LineSteps ==
  ASSUME LineTyped, Line \/ WindowsUser
  PROVE  LineTyped'
<1>1. toHost # << >> => Head(toHost) \in Packets /\ Tail(toHost) \in Seq(Packets)
  BY HeadTailProperties DEF LineTyped
<1>2. CASE Host!Serves
  <2>1. Head(toHost) \in Packets /\ Host!Receive(Head(toHost)) /\ toHost' \in Seq(Packets)
    BY <1>1, <1>2 DEF Host!Serves
  <2>. QED  BY <2>1, ReceivesTyped DEF LineTyped
<1>3. CASE Host!SkipsFragment
  <2>1. UNCHANGED <<toDos, openSequence, input>>
    BY <1>3 DEF Host!SkipsFragment, Host!hostVars
  <2>2. toHost' \in Seq(Packets)
    <3>1. toHost \in Seq(Packets)
      BY DEF LineTyped
    <3>2. PICK n \in 1 .. Len(toHost) : toHost' = SubSeq(toHost, n + 1, Len(toHost))
      BY <1>3 DEF Host!SkipsFragment
    <3>. QED  BY <3>1, <3>2, RestTyped
  <2>. QED  BY <2>1, <2>2 DEF LineTyped
<1>4. CASE Host!RejectsFragment
  <2>1. openSequence' = 0 /\ input' = input /\ Host!LineLoss
    BY <1>4 DEF Host!RejectsFragment, Host!ServeEnd
  <2>. QED  BY <2>1, LossTyped DEF LineTyped
<1>5. CASE Host!Connects
  BY <1>5 DEF Host!Connects, Host!Connect, LineTyped
<1>6. CASE Host!Breaks
  <2>1. openSequence' = openSequence /\ input' = input /\ Host!LineLoss
    BY <1>6 DEF Host!Breaks
  <2>. QED  BY <2>1, LossTyped DEF LineTyped
<1>7. CASE Host!NoticesBreak
  BY <1>7 DEF Host!NoticesBreak, Host!ServeEnd, LineTyped
<1>8. CASE WindowsUser
  <2>1. CASE Host!ClearInput \/ \E t \in Texts : Host!TypeText(t)
    <3>1. Texts \subseteq Seq(Nat) /\ << >> \in Seq(Nat)
      BY ClientAssumption
    <3>2. /\ UNCHANGED <<toHost, toDos, openSequence>>
          /\ input' = << >> \/ input' \in Texts
      BY <1>8, <2>1 DEF WindowsUser, Host!ClearInput, Host!TypeText
    <3>. QED  BY <3>1, <3>2 DEF LineTyped
  <2>2. ASSUME NEW type \in Types, NEW data \in Seq(Nat),
               toDos' = Append(toDos, Host!Message(type, openSequence, data)),
               input' \in {input, << >>}, UNCHANGED <<openSequence, toHost>>
        PROVE  LineTyped'
    <3> DEFINE m == Host!Message(type, openSequence, data)
    <3>1. m \in Packets /\ toDos \in Seq(Packets)
      BY MessageTyped DEF LineTyped
    <3>2. toDos' = Append(toDos, m)
      BY <2>2
    <3> HIDE DEF m
    <3>3. toDos' \in Seq(Packets)
      BY <3>1, <3>2, SentTyped
    <3>4. << >> \in Seq(Nat)
      OBVIOUS
    <3>. QED  BY <2>2, <3>3, <3>4 DEF LineTyped
  <2>3. input \in Seq(Nat) /\ <<1>> \in Seq(Nat) /\ << >> \in Seq(Nat)
    BY DEF LineTyped
  <2>4. CASE Host!SendText
    <3>1. /\ toDos' = Append(toDos, Host!Message("TEXT", openSequence, input))
          /\ input' = << >> /\ UNCHANGED <<openSequence, toHost>>
      BY <1>8, <2>4 DEF WindowsUser, Host!SendText, Host!Send
    <3>. QED  BY <2>2, <2>3, <3>1 DEF Types
  <2>5. CASE Host!SendKey(1)
    <3>1. /\ toDos' = Append(toDos, Host!Message("KEY", openSequence, <<1>>))
          /\ UNCHANGED <<openSequence, input, toHost>>
      BY <1>8, <2>5 DEF WindowsUser, Host!SendKey, Host!Send
    <3>. QED  BY <2>2, <2>3, <3>1 DEF Types
  <2>6. CASE Host!SendCloseIme
    <3>1. /\ toDos' = Append(toDos, Host!Message("CLOSE_IME", openSequence, << >>))
          /\ UNCHANGED <<openSequence, input, toHost>>
      BY <1>8, <2>6 DEF WindowsUser, Host!SendCloseIme, Host!Send
    <3>. QED  BY <2>2, <2>3, <3>1 DEF Types
  <2>. QED  BY <1>8, <2>1, <2>4, <2>5, <2>6 DEF WindowsUser
<1>. QED  BY <1>2, <1>3, <1>4, <1>5, <1>6, <1>7, <1>8 DEF Line

-----------------------------------------------------------------------------
(* What has been queued *)

(* Nothing of the text is queued before the injection. *)
Before ==
  \/ pc \in {"device", "session", "serial", "hello", "ping", "open", "check"}
  \/ pc \in {"ack", "close"} /\ ~verify

QueueInv ==
  /\ Before => offset = 0 /\ queued = << >>
  /\ pc = "loop" => QueuedInOrder(text, offset, queued) /\ text # << >>
  /\ ExitCodeTrue

ClientInv == SessionInv /\ LineTyped /\ ClientTypeOK /\ QueueInv

LEMMA NoneQueued ==
  ASSUME NEW t \in Seq(Nat)
  PROVE  /\ t # << >> => ~QueuedInOrder(t, Len(t), << >>)
         /\ t # << >> => QueuedInOrder(t, 0, << >>)
<1> SUFFICES ASSUME t # << >>
             PROVE  ~QueuedInOrder(t, Len(t), << >>) /\ QueuedInOrder(t, 0, << >>)
  OBVIOUS
<1>1. Len(t) \in Nat /\ Len(t) >= 1
  <2>1. Len(t) # 0 /\ Len(t) \in Nat
    BY EmptySeq, LenProperties
  <2>. QED  BY <2>1
<1>2. 1 \in UnitStarts(t)
  BY <1>1 DEF UnitStarts
<1>3. {<< >>[n] : n \in DOMAIN << >>} = {}
  OBVIOUS
<1>4. {i \in UnitStarts(t) : i <= 0} = {}
  BY DEF UnitStarts
<1>5. 1 \in {i \in UnitStarts(t) : i <= Len(t)}
  BY <1>1, <1>2
<1>. QED  BY <1>2, <1>3, <1>4, <1>5 DEF QueuedInOrder

LEMMA PartQueued ==
  ASSUME NEW t \in Seq(Nat), NEW o \in 0 .. Len(t) - 1, NEW q,
         QueuedInOrder(t, o, q)
  PROVE  ~QueuedInOrder(t, Len(t), q)
<1>1. o + 1 \in UnitStarts(t) /\ o + 1 <= Len(t) /\ ~(o + 1 <= o)
  BY DEF QueuedInOrder
<1>2. o + 1 \in {i \in UnitStarts(t) : i <= Len(t)}
  BY <1>1
<1>3. o + 1 \notin {i \in UnitStarts(t) : i <= o}
  BY <1>1
<1>. QED  BY <1>2, <1>3 DEF QueuedInOrder

LEMMA NotEmpty ==
  ASSUME NEW t \in Seq(Nat), Cardinality(UnitStarts(t)) >= 1
  PROVE  t # << >>
<1>1. t = << >> => UnitStarts(t) = {}
  BY DEF UnitStarts
<1>2. Cardinality(UnitStarts(t)) # 0
  OBVIOUS
<1>. QED  BY <1>1, <1>2, FS_EmptySet

LEMMA ClientStarts == Init => ClientInv
<1> SUFFICES ASSUME Init  PROVE ClientInv
  OBVIOUS
<1>1. SessionInv /\ LineTyped
  BY SessionStarts, LineStarts
<1>2. /\ text = << >> /\ offset = 0 /\ queued = << >> /\ kbd = << >>
      /\ verified = "none" /\ pc = "none" /\ runs = 0
  BY DEF Init
<1>3. asked \in BOOLEAN /\ aborted \in BOOLEAN
  BY DEF Init
<1>4. attempt \in 0 .. HelloAttempts - 1 /\ exit_code \in 0 .. 1
  BY ClientAssumption DEF Init
<1>5. text \in Seq(Nat) /\ offset \in 0 .. Len(text) /\ queued \in Seq(Nat)
  BY <1>2
<1>6. kbd \in Seq(Nat) /\ Len(kbd) <= KbCapacity
  BY <1>2, ClientAssumption
<1>7. open_count \in 0 .. 1
  BY DEF Init
<1>8. ClientTypeOK
  BY <1>1, <1>2, <1>3, <1>4, <1>5, <1>6, <1>7 DEF ClientTypeOK, SessionInv
<1>9. QueueInv
  <2>1. ~Before /\ pc # "loop"
    BY <1>2 DEF Before
  <2>2. ~(runs > 0)
    BY <1>2
  <2>. QED  BY <2>1, <2>2 DEF QueueInv, ExitCodeTrue
<1>. QED  BY <1>1, <1>8, <1>9 DEF ClientInv

(* A step that queues nothing and moves no text. *)
LEMMA StepWithoutText ==
  ASSUME ClientInv, SessionInv', LineTyped',
         UNCHANGED <<text, offset, queued, verified, kbd, verify>>,
         attempt' \in 0 .. HelloAttempts - 1, asked' \in BOOLEAN,
         exit_code' \in 0 .. 1, aborted' \in BOOLEAN,
         pc # "none", pc # "loop", pc' # "loop",
         Before' => Before,
         pc' = "none" => verify \/ aborted' \/ (Before /\ exit_code' = 1)
  PROVE  ClientInv'
<1>1. ClientTypeOK'
  BY DEF ClientInv, ClientTypeOK, SessionInv
<1>2. QueueInv'
  <2>1. Before' => offset' = 0 /\ queued' = << >>
    BY DEF ClientInv, QueueInv
  <2>2. ASSUME pc' = "none", ~aborted', ~verify'  PROVE ~Complete' /\ exit_code' # 0
    <3>1. queued' = << >> /\ exit_code' # 0
      BY <2>2 DEF ClientInv, QueueInv
    <3>2. text' = text /\ text \in Seq(Nat)
      BY DEF ClientInv, ClientTypeOK
    <3>. QED  BY <3>1, <3>2, NoneQueued DEF Complete
  <2>3. ExitCodeTrue'
    BY <2>2 DEF ExitCodeTrue
  <2>. QED  BY <2>1, <2>3 DEF QueueInv
<1>. QED  BY <1>1, <1>2 DEF ClientInv

(* A step that leaves the run of the client alone. *)
LEMMA StepAround ==
  ASSUME ClientInv, SessionInv', LineTyped',
         UNCHANGED <<pc, verify, runs, attempt, asked, text, offset, queued, verified,
                     exit_code, aborted>>,
         kbd' \in Seq(Nat) /\ Len(kbd') <= KbCapacity
  PROVE  ClientInv'
<1>1. ClientTypeOK'
  BY DEF ClientInv, ClientTypeOK, SessionInv
<1>2. QueueInv'
  BY DEF ClientInv, QueueInv, Before, ExitCodeTrue, Complete
<1>. QED  BY <1>1, <1>2 DEF ClientInv

(* The end of an injection that the tests or a full queue stopped, or that
   ran through. *)
LEMMA StepInjectionEnds ==
  ASSUME ClientInv, SessionInv', LineTyped', NEW complete \in BOOLEAN,
         InjectionEnds(complete), pc \in {"check", "loop"},
         UNCHANGED <<exchange, text, queued, kbd, env>>,
         complete => pc = "loop" /\ offset = Len(text),
         ~complete => pc = "check" \/ offset < Len(text)
  PROVE  ClientInv'
<1>1. /\ text \in Seq(Nat) /\ offset \in 0 .. Len(text) /\ Len(text) \in Nat
      /\ exit_code \in 0 .. 1 /\ verified \in {"none", "verified", "failed", "skipped"}
  BY DEF ClientInv, ClientTypeOK
<1>2. UNCHANGED <<attempt, asked, text, queued, kbd, verify, aborted, runs>>
  BY DEF InjectionEnds, Goes, Exit, exchange, env, ending
<1>3. offset' = offset \/ offset' = 0
  BY DEF InjectionEnds
<1>4. exit_code' \in 0 .. 1
  BY <1>1 DEF InjectionEnds, Goes, Exit, ending
<1>5. verified' \in {"none", "verified", "failed", "skipped"}
  BY <1>1 DEF InjectionEnds
<1>6. aborted \in BOOLEAN /\ asked \in BOOLEAN
  BY DEF ClientInv, ClientTypeOK
<1>7. offset' \in 0 .. Len(text')
  BY <1>1, <1>2, <1>3
<1>8. open_count' \in 0 .. 1
  BY DEF SessionInv
<1>9. ClientTypeOK'
  BY <1>2, <1>4, <1>5, <1>6, <1>7, <1>8 DEF ClientInv, ClientTypeOK, SessionInv
<1>10. pc' # "loop" /\ ~Before'
  <2>1. CASE verify
    BY <1>2, <2>1 DEF InjectionEnds, Goes, Before
  <2>2. CASE ~verify
    BY <2>2 DEF InjectionEnds, Exit, Before
  <2>. QED  BY <2>1, <2>2
<1>11. ASSUME ~verify  PROVE exit_code' = 0 <=> Complete'
  <2>1. exit_code' = IF complete THEN 0 ELSE 1
    BY <1>11 DEF InjectionEnds, Exit
  <2>2. Complete' <=> Complete
    BY <1>2 DEF Complete
  <2>3. CASE complete
    <3>1. Complete
      BY <2>3 DEF ClientInv, QueueInv, Complete
    <3>. QED  BY <2>1, <2>2, <2>3, <3>1
  <2>4. CASE ~complete /\ pc = "check"
    <3>1. queued = << >>
      BY <2>4 DEF ClientInv, QueueInv, Before
    <3>2. ~Complete
      BY <1>1, <3>1, NoneQueued DEF Complete
    <3>. QED  BY <2>1, <2>2, <2>4, <3>2
  <2>5. CASE ~complete /\ pc = "loop"
    <3>1. QueuedInOrder(text, offset, queued) /\ offset \in 0 .. Len(text) - 1
      BY <1>1, <2>5 DEF ClientInv, QueueInv
    <3>2. ~Complete
      BY <1>1, <3>1, PartQueued DEF Complete
    <3>. QED  BY <2>1, <2>2, <2>5, <3>2
  <2>. QED  BY <2>3, <2>4, <2>5
<1>12. QueueInv'
  BY <1>2, <1>10, <1>11 DEF QueueInv, ExitCodeTrue
<1>. QED  BY <1>9, <1>12 DEF ClientInv

LEMMA KeyPut ==
  ASSUME kbd \in Seq(Nat), NEW w \in Nat, Kb!Put(w)
  PROVE  kbd' \in Seq(Nat) /\ Len(kbd') <= KbCapacity
<1>1. Len(kbd) < KbCapacity /\ kbd' = Append(kbd, w)
  BY DEF Kb!Put, Kb!Room
<1>2. Append(kbd, w) \in Seq(Nat) /\ Len(Append(kbd, w)) = Len(kbd) + 1
  BY AppendProperties
<1>3. Len(kbd) + 1 <= KbCapacity
  BY <1>1, LenProperties, ClientAssumption
<1>. QED  BY <1>1, <1>2, <1>3

LEMMA KeyTaken ==
  ASSUME kbd \in Seq(Nat), Len(kbd) <= KbCapacity, kbd # << >>, kbd' = Tail(kbd)
  PROVE  kbd' \in Seq(Nat) /\ Len(kbd') <= KbCapacity
<1>1. Tail(kbd) \in Seq(Nat) /\ Len(Tail(kbd)) = Len(kbd) - 1
  BY HeadTailProperties
<1>2. Len(kbd) - 1 <= KbCapacity
  BY LenProperties, ClientAssumption
<1>. QED  BY <1>1, <1>2

(* The client, up to the injection and around it. *)
LEMMA SessionPart ==
  ASSUME ClientInv, SessionInv',
         \/ OpenDevice \/ OpenSession \/ OpenSerial \/ SendHello \/ HelloAnswer
         \/ Ask \/ PingAnswer \/ SendAck \/ Close \/ CtrlC
  PROVE  ClientInv'
<1>1. /\ attempt \in 0 .. HelloAttempts - 1 /\ asked \in BOOLEAN
      /\ exit_code \in 0 .. 1 /\ aborted \in BOOLEAN /\ LineTyped
  BY DEF ClientInv, ClientTypeOK
<1>2. UNCHANGED <<text, offset, queued, verified, kbd, verify>>
  BY DEF OpenDevice, OpenSession, OpenSerial, SendHello, HelloAnswer, Ask, PingAnswer,
         SendAck, Close, CtrlC, injection, env
<1>3. ASSUME UNCHANGED <<hostState, toDos, toHost>>  PROVE LineTyped'
  BY <1>1, <1>3 DEF LineTyped, hostState
<1>4. ASSUME NEW p \in Packets, Writes(<<p>>) \/ Writes(<<Host!Broken>>)  PROVE LineTyped'
  <2>1. Host!Broken \in Packets
    BY MessageTyped, EmptySeq DEF Host!Broken, Types
  <2>. QED  BY <1>1, <1>4, <2>1, WritesTyped
<1>5. ASSUME ReadsNothing \/ \E p \in Arrived : Reads  PROVE LineTyped'
  BY <1>1, <1>5, ReadsTyped
<1>6. ASSUME Fail  PROVE pc' = "none" /\ exit_code' = 1 /\ aborted' = aborted
  BY <1>6 DEF Fail, Exit
<1>7. 1 \in 0 .. 1 /\ 0 \in 0 .. 1 /\ 0 \in 0 .. HelloAttempts - 1
  BY ClientAssumption
<1>8. ASSUME NEW next, Goes(next)
      PROVE  pc' = next /\ exit_code' = exit_code /\ aborted' = aborted
  BY <1>8 DEF Goes, ending
<1>9. ASSUME HelloAgain, pc = "hello"
      PROVE  /\ pc' = "hello" \/ (pc' = "none" /\ exit_code' = 1)
             /\ exit_code' \in 0 .. 1 /\ aborted' = aborted
             /\ attempt' \in 0 .. HelloAttempts - 1 /\ asked' \in BOOLEAN
  <2>1. CASE attempt + 1 < HelloAttempts
    <3>1. attempt' = attempt + 1 /\ asked' = FALSE /\ UNCHANGED <<pc, exit_code, aborted>>
      BY <1>9, <2>1 DEF HelloAgain, ending
    <3>2. attempt + 1 \in 0 .. HelloAttempts - 1
      BY <1>1, <2>1, ClientAssumption
    <3>. QED  BY <1>1, <1>9, <3>1, <3>2
  <2>2. CASE ~(attempt + 1 < HelloAttempts)
    <3>1. Fail /\ UNCHANGED <<attempt, asked>>
      BY <1>9, <2>2 DEF HelloAgain, exchange
    <3>. QED  BY <1>1, <1>6, <1>7, <3>1
  <2>. QED  BY <2>1, <2>2
<1>10. CASE OpenDevice
  <2>1. LineTyped' /\ UNCHANGED <<attempt, asked>> /\ pc = "device" /\ aborted' = aborted
    BY <1>3, <1>10 DEF OpenDevice, exchange, Exit, ending
  <2>2. (pc' = "none" /\ exit_code' = 1) \/ (pc' = "session" /\ exit_code' = exit_code)
    BY <1>10 DEF OpenDevice, Exit, ending
  <2>3. Before /\ (pc' # "none" => Before')
    BY <2>1, <2>2 DEF Before
  <2>. QED  BY <1>1, <1>2, <1>7, <2>1, <2>2, <2>3, StepWithoutText
<1>11. CASE OpenSession
  <2>1. LineTyped' /\ UNCHANGED <<attempt, asked>> /\ pc = "session"
    BY <1>3, <1>11 DEF OpenSession, exchange
  <2>2. /\ (pc' = "none" /\ exit_code' = 1) \/ (pc' = "serial" /\ exit_code' = exit_code)
        /\ aborted' = aborted
    BY <1>6, <1>11 DEF OpenSession, ending
  <2>3. Before
    BY <2>1 DEF Before
  <2>. QED  BY <1>1, <1>2, <1>7, <2>1, <2>2, <2>3, StepWithoutText
<1>12. CASE OpenSerial
  <2>1. /\ LineTyped' /\ UNCHANGED <<attempt, asked, exit_code, aborted>>
        /\ pc \in {"serial", "hello"} /\ pc' = "hello"
    BY <1>3, <1>12 DEF OpenSerial, exchange, ending
  <2>2. Before
    BY <2>1 DEF Before
  <2>. QED  BY <1>1, <1>2, <2>1, <2>2, StepWithoutText
<1>13. CASE SendHello
  <2>1. pc = "hello" /\ Before
    BY <1>13 DEF SendHello, Before
  <2>2. LineTyped'
    <3>1. Packet("HELLO", 1, <<KbCapacity>>) \in Packets
      <4>1. <<KbCapacity>> \in Seq(Nat) /\ 1 \in Nat
        BY ClientAssumption
      <4>. QED  BY <4>1, MessageTyped DEF Types
    <3>. QED  BY <1>4, <1>13, <3>1 DEF SendHello
  <2>3. HelloAgain \/ (Goes("hello") /\ asked' = TRUE /\ attempt' = attempt)
    BY <1>13 DEF SendHello
  <2>4. /\ pc' = "hello" \/ (pc' = "none" /\ exit_code' = 1)
        /\ exit_code' \in 0 .. 1 /\ aborted' = aborted
        /\ attempt' \in 0 .. HelloAttempts - 1 /\ asked' \in BOOLEAN
    BY <1>1, <1>8, <1>9, <2>1, <2>3
  <2>. QED  BY <1>1, <1>2, <2>1, <2>2, <2>4, StepWithoutText
<1>14. CASE HelloAnswer
  <2>1. pc = "hello" /\ Before
    BY <1>14 DEF HelloAnswer, Before
  <2>2. LineTyped'
    BY <1>5, <1>14 DEF HelloAnswer
  <2>3. HelloAgain \/ (Goes("ping") /\ asked' = FALSE /\ attempt' = attempt)
    BY <1>14 DEF HelloAnswer
  <2>4. /\ pc' \in {"hello", "ping"} \/ (pc' = "none" /\ exit_code' = 1)
        /\ exit_code' \in 0 .. 1 /\ aborted' = aborted
        /\ attempt' \in 0 .. HelloAttempts - 1 /\ asked' \in BOOLEAN
    BY <1>1, <1>8, <1>9, <2>1, <2>3
  <2>. QED  BY <1>1, <1>2, <2>1, <2>2, <2>4, StepWithoutText
<1>15. CASE Ask
  <2>1. pc \in {"ping", "open"} /\ Before /\ attempt' = attempt
    BY <1>15 DEF Ask, Before
  <2>2. LineTyped'
    <3>1. RequestOf(pc) \in Packets
      <4>1. 2 \in Nat /\ 3 \in Nat /\ << >> \in Seq(Nat)
        BY EmptySeq
      <4>2. Packet("PING", 2, << >>) \in Packets /\ Packet("OPEN_IME", 3, << >>) \in Packets
        BY <4>1, MessageTyped DEF Types
      <4>. QED  BY <4>2 DEF RequestOf
    <3>. QED  BY <1>4, <1>15, <3>1 DEF Ask
  <2>3. (Fail /\ asked' = asked) \/ (Goes(pc) /\ asked' = TRUE)
    BY <1>15 DEF Ask
  <2>4. /\ pc' = pc \/ (pc' = "none" /\ exit_code' = 1)
        /\ exit_code' \in 0 .. 1 /\ aborted' = aborted /\ asked' \in BOOLEAN
    BY <1>1, <1>6, <1>7, <1>8, <2>3
  <2>. QED  BY <1>1, <1>2, <2>1, <2>2, <2>4, StepWithoutText
<1>16. CASE PingAnswer
  <2>1. pc = "ping" /\ Before /\ attempt' = attempt /\ asked' = FALSE
    BY <1>16 DEF PingAnswer, Before
  <2>2. LineTyped'
    BY <1>5, <1>16 DEF PingAnswer
  <2>3. Fail \/ Goes("open")
    BY <1>16 DEF PingAnswer
  <2>4. /\ pc' = "open" \/ (pc' = "none" /\ exit_code' = 1)
        /\ exit_code' \in 0 .. 1 /\ aborted' = aborted
    BY <1>1, <1>6, <1>7, <1>8, <2>3
  <2>. QED  BY <1>1, <1>2, <2>1, <2>2, <2>4, StepWithoutText
<1>17. CASE SendAck
  <2>1. pc = "ack" /\ (Before <=> ~verify) /\ UNCHANGED <<attempt, asked>>
    BY <1>17 DEF SendAck, Before, exchange
  <2>2. LineTyped'
    <3>1. Packet("TEXT_ACK", 3, << >>) \in Packets
      <4>1. 3 \in Nat /\ << >> \in Seq(Nat)
        BY EmptySeq
      <4>. QED  BY <4>1, MessageTyped DEF Types
    <3>. QED  BY <1>4, <1>17, <3>1 DEF SendAck
  <2>3. Fail \/ Goes("close")
    BY <1>17 DEF SendAck
  <2>4. /\ pc' = "close" \/ (pc' = "none" /\ exit_code' = 1)
        /\ exit_code' \in 0 .. 1 /\ aborted' = aborted
    BY <1>1, <1>6, <1>7, <1>8, <2>3
  <2>5. Before' => Before
    BY <1>2, <2>1, <2>4 DEF Before
  <2>. QED  BY <1>1, <1>2, <2>1, <2>2, <2>4, <2>5, StepWithoutText
<1>18. CASE Close
  <2>1. /\ pc = "close" /\ (Before <=> ~verify) /\ UNCHANGED <<attempt, asked>>
        /\ LineTyped'
    BY <1>3, <1>18 DEF Close, Before, exchange
  <2>2. /\ (verify /\ pc' = "none" /\ exit_code' = 0)
           \/ (~verify /\ pc' = "check" /\ exit_code' = exit_code)
        /\ aborted' = aborted
    BY <1>18 DEF Close, Exit, ending
  <2>3. Before' => Before
    BY <2>1, <2>2 DEF Before
  <2>. QED  BY <1>1, <1>2, <1>7, <2>1, <2>2, <2>3, StepWithoutText
<1>19. CASE CtrlC
  <2>1. /\ pc \in {"serial", "hello", "ping", "open"} /\ pc' = "none" /\ aborted' = TRUE
        /\ UNCHANGED <<attempt, asked, exit_code>> /\ LineTyped'
    BY <1>3, <1>19 DEF CtrlC, exchange
  <2>2. Before
    BY <2>1 DEF Before
  <2>. QED  BY <1>1, <1>2, <2>1, <2>2, StepWithoutText
<1>. QED
  BY <1>10, <1>11, <1>12, <1>13, <1>14, <1>15, <1>16, <1>17, <1>18, <1>19

LEMMA TextArrives ==
  ASSUME ClientInv, SessionInv', TextAnswer
  PROVE  ClientInv'
<1>1. /\ attempt \in 0 .. HelloAttempts - 1 /\ exit_code \in 0 .. 1 /\ aborted \in BOOLEAN
      /\ LineTyped /\ toDos \in Seq(Packets) /\ text \in Seq(Nat)
  BY DEF ClientInv, ClientTypeOK, LineTyped
<1>2. /\ pc = "open" /\ Before /\ asked' = FALSE
      /\ UNCHANGED <<attempt, offset, queued, verified, kbd, verify>>
  BY DEF TextAnswer, Before, env
<1>3. offset = 0 /\ queued = << >>
  BY <1>2 DEF ClientInv, QueueInv
<1>4. LineTyped'
  BY <1>1, ReadsTyped DEF TextAnswer
<1>5. CASE Fail /\ UNCHANGED text
  <2>1. pc' = "none" /\ exit_code' = 1 /\ aborted' = aborted /\ 1 \in 0 .. 1
    BY <1>5 DEF Fail, Exit
  <2>. QED  BY <1>1, <1>2, <1>4, <1>5, <2>1, StepWithoutText
<1>6. CASE \E p \in Arrived : text' = p.data /\ Goes(IF verify THEN "check" ELSE "ack")
  <2>1. PICK p \in Arrived : text' = p.data /\ Goes(IF verify THEN "check" ELSE "ack")
    BY <1>6
  <2>2. p \in Packets
    BY <1>1 DEF Arrived
  <2>3. text' \in Seq(Nat)
    BY <2>1, <2>2 DEF Packets
  <2>4. UNCHANGED <<exit_code, aborted>> /\ pc' \in {"check", "ack"}
    BY <2>1 DEF Goes, ending
  <2>5. offset' = 0 /\ queued' = << >> /\ offset' \in 0 .. Len(text')
    BY <1>2, <1>3, <2>3, LenProperties
  <2>6. ClientTypeOK'
    <3>1. /\ queued' \in Seq(Nat) /\ kbd' \in Seq(Nat) /\ Len(kbd') <= KbCapacity
          /\ verified' \in {"none", "verified", "failed", "skipped"}
      BY <1>2 DEF ClientInv, ClientTypeOK
    <3>2. asked' \in BOOLEAN /\ aborted' \in BOOLEAN
      BY <1>1, <1>2, <2>4
    <3>. QED  BY <1>1, <1>2, <2>3, <2>4, <2>5, <3>1, <3>2 DEF ClientTypeOK, SessionInv
  <2>7. QueueInv'
    BY <2>4, <2>5 DEF QueueInv, ExitCodeTrue
  <2>. QED  BY <1>4, <2>6, <2>7 DEF ClientInv
<1>. QED  BY <1>5, <1>6 DEF TextAnswer

(* The injection and its verification. *)
LEMMA InjectionPart ==
  ASSUME ClientInv, SessionInv',
         \/ InjectCheck \/ InjectWord \/ InjectFull \/ InjectDone
         \/ ReadBack \/ ReadBackDone
  PROVE  ClientInv'
<1>1. /\ text \in Seq(Nat) /\ offset \in 0 .. Len(text) /\ Len(text) \in Nat
      /\ queued \in Seq(Nat) /\ kbd \in Seq(Nat) /\ Len(kbd) <= KbCapacity
      /\ attempt \in 0 .. HelloAttempts - 1
      /\ exit_code \in 0 .. 1 /\ verified \in {"none", "verified", "failed", "skipped"}
  BY DEF ClientInv, ClientTypeOK
<1>2. asked \in BOOLEAN /\ aborted \in BOOLEAN
  BY DEF ClientInv, ClientTypeOK
<1>3. LineTyped'
  <2>1. UNCHANGED <<hostState, toDos, toHost>>
    BY DEF InjectCheck, InjectWord, InjectFull, InjectDone, ReadBack, ReadBackDone
  <2>. QED  BY <2>1 DEF ClientInv, LineTyped, hostState
<1>4. ASSUME NEW next, Goes(next), UNCHANGED <<exchange, env>>
      PROVE  /\ pc' = next
             /\ UNCHANGED <<attempt, asked, exit_code, aborted, verify, runs>>
  BY <1>4 DEF Goes, exchange, ending, env
<1>5. ASSUME pc' # "none", ~Before', pc' # "loop"  PROVE QueueInv'
  BY <1>5 DEF QueueInv, ExitCodeTrue
<1>6. CASE InjectCheck
  <2>1. CASE NormalizedLength \in 1 .. KbCapacity /\ kbd = << >>
    <3>1. /\ pc = "check" /\ UNCHANGED <<text, offset, queued, verified, kbd>>
          /\ pc' = "loop" /\ UNCHANGED <<attempt, asked, exit_code, aborted>>
      BY <1>4, <1>6, <2>1 DEF InjectCheck
    <3>2. offset = 0 /\ queued = << >>
      BY <3>1 DEF ClientInv, QueueInv, Before
    <3>3. text # << >>
      <4>1. NormalizedLength >= 1
        BY <2>1, ClientAssumption
      <4>. QED  BY <1>1, <4>1, NotEmpty DEF NormalizedLength
    <3>4. QueuedInOrder(text', offset', queued')
      BY <1>1, <3>1, <3>2, <3>3, NoneQueued
    <3>5. QueueInv'
      BY <3>1, <3>3, <3>4 DEF QueueInv, ExitCodeTrue, Before
    <3>6. ClientTypeOK'
      BY <1>1, <1>2, <3>1 DEF ClientTypeOK, SessionInv
    <3>. QED  BY <1>3, <3>5, <3>6 DEF ClientInv
  <2>2. CASE ~(NormalizedLength \in 1 .. KbCapacity /\ kbd = << >>)
    BY <1>3, <1>6, <2>2, StepInjectionEnds DEF InjectCheck
  <2>. QED  BY <2>1, <2>2
<1>7. CASE InjectWord
  <2>1. /\ pc = "loop" /\ offset \in 0 .. Len(text) - 1 /\ offset + 1 \in 1 .. Len(text)
        /\ offset' = UnitEnd(text, offset + 1)
        /\ queued' = Append(queued, offset + 1)
        /\ UNCHANGED <<text, verified>>
        /\ Kb!Put(WordAt(text, offset + 1))
    BY <1>1, <1>7 DEF InjectWord
  <2>2. pc' = "loop" /\ UNCHANGED <<attempt, asked, exit_code, aborted>>
    BY <1>4, <1>7 DEF InjectWord
  <2>3. kbd' \in Seq(Nat) /\ Len(kbd') <= KbCapacity
    <3>1. WordAt(text, offset + 1) \in Nat
      BY <1>1, <2>1, WordIsNat
    <3>. QED  BY <1>1, <2>1, <3>1, KeyPut
  <2>4. offset' \in 0 .. Len(text') /\ queued' \in Seq(Nat)
    <3>1. UnitEnd(text, offset + 1) \in offset + 1 .. Len(text)
      BY <1>1, <2>1, UnitEndInText
    <3>2. Append(queued, offset + 1) \in Seq(Nat)
      BY <1>1, <2>1, AppendProperties
    <3>. QED  BY <1>1, <2>1, <3>1, <3>2
  <2>5. QueuedInOrder(text', offset', queued') /\ text' # << >>
    <3>1. QueuedInOrder(text, offset, queued) /\ text # << >>
      BY <2>1 DEF ClientInv, QueueInv
    <3>2. QueuedInOrder(text, UnitEnd(text, offset + 1), Append(queued, offset + 1))
      BY <1>1, <2>1, <3>1, QueueNextUnit
    <3>. QED  BY <2>1, <3>1, <3>2
  <2>6. QueueInv'
    BY <2>2, <2>5 DEF QueueInv, ExitCodeTrue, Before
  <2>7. ClientTypeOK'
    BY <1>1, <1>2, <2>1, <2>2, <2>3, <2>4 DEF ClientTypeOK, SessionInv
  <2>. QED  BY <1>3, <2>6, <2>7 DEF ClientInv
<1>8. CASE InjectFull
  BY <1>3, <1>8, StepInjectionEnds DEF InjectFull
<1>9. CASE InjectDone
  <2>1. offset = Len(text)
    BY <1>1, <1>9 DEF InjectDone
  <2>. QED  BY <1>3, <1>9, <2>1, StepInjectionEnds DEF InjectDone
<1>10. CASE ReadBack
  <2>1. /\ pc = "readback" /\ verify /\ UNCHANGED <<text, queued>>
        /\ offset \in 0 .. Len(text) - 1 /\ offset + 1 \in 1 .. Len(text)
    BY <1>1, <1>10 DEF ReadBack, ClientInv, SessionInv
  <2>2. /\ pc' \in {"readback", "ack"}
        /\ UNCHANGED <<attempt, asked, exit_code, aborted, verify>>
    BY <1>4, <1>10 DEF ReadBack
  <2>3. kbd' \in Seq(Nat) /\ Len(kbd') <= KbCapacity
    BY <1>1, <1>10, KeyTaken DEF ReadBack
  <2>4. offset' \in 0 .. Len(text')
    <3>1. UnitEnd(text, offset + 1) \in offset + 1 .. Len(text)
      BY <1>1, <2>1, UnitEndInText
    <3>2. offset' = UnitEnd(text, offset + 1) \/ offset' = offset
      BY <1>10 DEF ReadBack
    <3>. QED  BY <1>1, <2>1, <3>1, <3>2
  <2>5. verified' \in {"none", "verified", "failed", "skipped"}
    BY <1>1, <1>10 DEF ReadBack
  <2>6. ClientTypeOK'
    BY <1>1, <1>2, <2>1, <2>2, <2>3, <2>4, <2>5 DEF ClientTypeOK, SessionInv
  <2>7. QueueInv'
    BY <1>5, <2>1, <2>2 DEF Before
  <2>. QED  BY <1>3, <2>6, <2>7 DEF ClientInv
<1>11. CASE ReadBackDone
  <2>1. /\ pc = "readback" /\ verify /\ UNCHANGED <<text, offset, queued, kbd>>
        /\ verified' = "verified"
    BY <1>11 DEF ReadBackDone, ClientInv, SessionInv
  <2>2. pc' = "ack" /\ UNCHANGED <<attempt, asked, exit_code, aborted, verify>>
    BY <1>4, <1>11 DEF ReadBackDone
  <2>3. ClientTypeOK'
    BY <1>1, <1>2, <2>1, <2>2 DEF ClientTypeOK, SessionInv
  <2>4. QueueInv'
    BY <1>5, <2>1, <2>2 DEF Before
  <2>. QED  BY <1>3, <2>3, <2>4 DEF ClientInv
<1>. QED  BY <1>6, <1>7, <1>8, <1>9, <1>10, <1>11

LEMMA ClientSteps == ClientInv /\ [Next]_vars => ClientInv'
<1> SUFFICES ASSUME ClientInv, [Next]_vars  PROVE ClientInv'
  OBVIOUS
<1>1. SessionInv'
  BY SessionSteps DEF ClientInv
<1>2. /\ LineTyped /\ kbd \in Seq(Nat) /\ Len(kbd) <= KbCapacity
      /\ exit_code \in 0 .. 1 /\ verified \in {"none", "verified", "failed", "skipped"}
  BY DEF ClientInv, ClientTypeOK
<1>3. CASE Start
  <2>1. /\ text' = << >> /\ offset' = 0 /\ queued' = << >> /\ verified' = "none"
        /\ attempt' = 0 /\ exit_code' = 0 /\ kbd' = kbd /\ pc' = "device"
        /\ UNCHANGED <<hostState, toDos, toHost>>
    BY <1>3 DEF Start
  <2>2. asked' \in BOOLEAN /\ aborted' \in BOOLEAN
    BY <1>3 DEF Start
  <2>3. LineTyped'
    BY <1>2, <2>1 DEF LineTyped, hostState
  <2>4. text' \in Seq(Nat) /\ offset' \in 0 .. Len(text') /\ queued' \in Seq(Nat)
    BY <2>1
  <2>5. attempt' \in 0 .. HelloAttempts - 1 /\ exit_code' \in 0 .. 1
    BY <2>1, ClientAssumption
  <2>6. ClientTypeOK'
    BY <1>1, <1>2, <2>1, <2>2, <2>4, <2>5 DEF ClientTypeOK, SessionInv
  <2>7. QueueInv'
    BY <2>1 DEF QueueInv, ExitCodeTrue
  <2>. QED  BY <1>1, <2>3, <2>6, <2>7 DEF ClientInv
<1>4. CASE Client
  BY <1>1, <1>4, SessionPart, TextArrives, InjectionPart DEF Client
<1>5. CASE CtrlC
  BY <1>1, <1>5, SessionPart
<1>6. CASE KeyPress \/ ParentReads
  <2>1. /\ UNCHANGED <<hostState, toDos, toHost>>
        /\ UNCHANGED <<pc, verify, runs, attempt, asked, text, offset, queued, verified,
                       exit_code, aborted>>
    BY <1>6 DEF KeyPress, ParentReads, exchange, injection, ending, env
  <2>2. LineTyped'
    BY <1>2, <2>1 DEF LineTyped, hostState
  <2>3. kbd' \in Seq(Nat) /\ Len(kbd') <= KbCapacity
    <3>1. CASE KeyPress
      BY <1>2, <3>1, KeyPut, ClientAssumption DEF KeyPress
    <3>2. CASE ParentReads
      BY <1>2, <3>2, KeyTaken DEF ParentReads, Kb!Take
    <3>. QED  BY <1>6, <3>1, <3>2
  <2>. QED  BY <1>1, <2>1, <2>2, <2>3, StepAround
<1>7. CASE ClosedPortLoses \/ Line \/ WindowsUser \/ UNCHANGED vars
  <2>1. UNCHANGED clientVars
    BY <1>7 DEF ClosedPortLoses, Line, WindowsUser, vars
  <2>2. UNCHANGED <<pc, verify, runs, attempt, asked, text, offset, queued, verified,
                    exit_code, aborted, kbd>>
    BY <2>1 DEF clientVars, exchange, injection, ending, env
  <2>3. LineTyped'
    <3>1. CASE ClosedPortLoses
      BY <1>2, <3>1, FewerArrive DEF ClosedPortLoses
    <3>2. CASE Line \/ WindowsUser
      BY <1>2, <3>2, LineSteps
    <3>3. CASE UNCHANGED vars
      BY <1>2, <3>3 DEF LineTyped, vars, hostState
    <3>. QED  BY <1>7, <3>1, <3>2, <3>3
  <2>. QED  BY <1>1, <1>2, <2>2, <2>3, StepAround
<1>. QED  BY <1>3, <1>4, <1>5, <1>6, <1>7 DEF Next

(* The client's state is well formed: at most one handle of the driver, never
   more words than the keyboard queue takes, never an attempt too many. *)
THEOREM ClientTypeCorrect == Spec => []ClientTypeOK
<1>1. ClientInv => ClientTypeOK
  BY DEF ClientInv
<1>. QED  BY <1>1, ClientStarts, ClientSteps, PTL DEF Spec

(* The exit code of a run without /VERIFY tells whether the whole text is in
   the keyboard queue, for every text and whatever is typed meanwhile
   (inject_bios_pc98.c:128-158, main.c:334-349). *)
THEOREM ExitCodeIsTrue == Spec => []ExitCodeTrue
<1>1. ClientInv => ExitCodeTrue
  BY DEF ClientInv, QueueInv
<1>. QED  BY <1>1, ClientStarts, ClientSteps, PTL DEF Spec

-----------------------------------------------------------------------------
(* The capacity the client announces                                        *)

(* What the client writes; before the bridge has read a HELLO, no OPEN_IME
   is among it. *)
Early == {Packet("HELLO", 1, <<KbCapacity>>), Packet("PING", 2, << >>),
          Packet("TEXT_ACK", 3, << >>)}

Requests == Early \cup {Packet("OPEN_IME", 3, << >>)}

(* What the bridge sends: its texts fit, and only a HELLO is answered by the
   PONG that lets the client go on. *)
Fitting == {p \in Packets : p.type = "TEXT" => Len(p.data) <= KbCapacity}

Unasked == {p \in Fitting : p.type = "PONG" => p.seq # 1}

(* The bridge has read the capacity on the connection that is up. *)
Told == stream = "up" /\ targetMaxTextBytes <= KbCapacity

Untold ==
  /\ ~imeReady /\ pc \notin {"ping", "open"}
  /\ toHost \in Seq(Early) /\ toDos \in Seq(Unasked)

(* As long as nothing on the line failed. *)
CapacityInv ==
  /\ faults \in Nat /\ targetMaxTextBytes \in Nat
  /\ faults = 0 =>
       /\ stream \in {"none", "up"}
       /\ Len(text) <= KbCapacity
       /\ toHost \in Seq(Requests) /\ toDos \in Seq(Fitting)
       /\ Told \/ Untold

LEMMA CapacityTyped ==
  /\ Early \subseteq Requests /\ Requests \subseteq Packets
  /\ Unasked \subseteq Fitting /\ Fitting \subseteq Packets
<1>1. <<KbCapacity>> \in Seq(Nat) /\ << >> \in Seq(Nat) /\ 1 \in Nat /\ 2 \in Nat /\ 3 \in Nat
  BY ClientAssumption
<1>2. /\ Packet("HELLO", 1, <<KbCapacity>>) \in Packets
      /\ Packet("PING", 2, << >>) \in Packets
      /\ Packet("TEXT_ACK", 3, << >>) \in Packets
      /\ Packet("OPEN_IME", 3, << >>) \in Packets
  BY <1>1, MessageTyped DEF Types
<1>3. Requests \subseteq Packets /\ Early \subseteq Requests
  BY <1>2, Zenon DEF Requests, Early
<1>4. Unasked \subseteq Fitting /\ Fitting \subseteq Packets
  BY Zenon DEF Unasked, Fitting
<1>. QED  BY <1>3, <1>4

LEMMA CapacityStarts == Init => CapacityInv
<1> SUFFICES ASSUME Init  PROVE CapacityInv
  OBVIOUS
<1>1. /\ stream = "none" /\ imeReady = FALSE /\ toDos = << >> /\ toHost = << >>
      /\ targetMaxTextBytes = MaxPayload /\ faults = 0 /\ text = << >> /\ pc = "none"
  BY DEF Init, Host!LineInit, Host!HostInit
<1>2. Len(text) <= KbCapacity
  BY <1>1, ClientAssumption
<1>. QED  BY <1>1, <1>2, ClientAssumption DEF CapacityInv, Untold

(* A fault ends all of it. *)
LEMMA CapacityFaults ==
  ASSUME CapacityInv, faults' = faults + 1, targetMaxTextBytes' \in Nat
  PROVE  CapacityInv'
BY DEF CapacityInv

(* What a step of the PC-98 may do: write one request, OPEN_IME in its turn
   only; read or lose what came first; take a text that fits. *)
LEMMA CapacityClient ==
  ASSUME CapacityInv, UNCHANGED <<stream, imeReady, targetMaxTextBytes, faults>>,
         \/ toHost' = toHost
         \/ \E p \in Requests : toHost' = Append(toHost, p) /\ (p \in Early \/ pc = "open"),
         toDos' = toDos \/ (toDos # << >> /\ toDos' = Tail(toDos)),
         faults = 0 => Len(text') <= KbCapacity,
         faults = 0 /\ pc' \in {"ping", "open"} => pc \in {"ping", "open"} \/ Told
  PROVE  CapacityInv'
<1> SUFFICES ASSUME faults = 0
             PROVE  /\ toHost' \in Seq(Requests) /\ toDos' \in Seq(Fitting)
                    /\ Told' \/ Untold'
  BY DEF CapacityInv
<1>1. /\ toHost \in Seq(Requests) /\ toDos \in Seq(Fitting)
      /\ Told \/ Untold
      /\ Told' <=> Told
  BY DEF CapacityInv, Told
<1>2. toDos' \in Seq(Fitting) /\ (Untold => toDos' \in Seq(Unasked))
  <2>1. CASE toDos' = toDos
    BY <1>1, <2>1, Zenon DEF Untold
  <2>2. CASE toDos # << >> /\ toDos' = Tail(toDos)
    <3>1. toDos' \in Seq(Fitting)
      BY <1>1, <2>2, HeadTailProperties, Zenon
    <3>2. ASSUME Untold  PROVE toDos' \in Seq(Unasked)
      <4>1. toDos \in Seq(Unasked)
        BY <3>2, Zenon DEF Untold
      <4>. QED  BY <2>2, <4>1, HeadTailProperties, Zenon
    <3>. QED  BY <3>1, <3>2
  <2>. QED  BY <2>1, <2>2, Zenon
<1>3. toHost' \in Seq(Requests)
  <2>1. ASSUME NEW p \in Requests, toHost' = Append(toHost, p)
        PROVE  toHost' \in Seq(Requests)
    BY <1>1, <2>1, AppendProperties, Zenon
  <2>2. CASE toHost' = toHost
    BY <1>1, <2>2, Zenon
  <2>. QED  BY <2>1, <2>2, Zenon
<1>4. ASSUME ~Told  PROVE Untold'
  <2>1. toHost' \in Seq(Early)
    <3>1. toHost \in Seq(Early) /\ pc # "open"
      BY <1>1, <1>4 DEF Untold
    <3>. QED  BY <3>1
  <2>. QED  BY <1>1, <1>2, <1>4, <2>1 DEF Untold
<1>. QED  BY <1>1, <1>2, <1>3, <1>4

(* The client writes a request, or a piece of one, which is a fault. *)
LEMMA CapacityWrites ==
  ASSUME CapacityInv, LineTyped, NEW p \in Requests, Writes(<<p>>) \/ Writes(<<Host!Broken>>),
         p \in Early \/ pc = "open", UNCHANGED text,
         pc' \in {"ping", "open"} => pc \in {"ping", "open"}
  PROVE  CapacityInv'
<1>1. UNCHANGED <<stream, imeReady, targetMaxTextBytes, toDos>>
  BY DEF Writes, hostState
<1>2. CASE Writes(<<p>>)
  <2>1. faults' = faults
    <3>1. <<p>> # <<Host!Broken>>
      BY DEF Requests, Early, Packet, Host!Broken, Host!Message
    <3>. QED  BY <1>2, <3>1 DEF Writes, Host!CountBroken
  <2>2. toHost' = toHost \/ toHost' = Append(toHost, p)
    <3>1. toHost \in Seq(Packets) /\ p \in Packets
      BY CapacityTyped DEF LineTyped
    <3>2. toHost \o <<p>> = Append(toHost, p)
      BY <3>1
    <3>. QED  BY <1>2, <3>2, Zenon DEF Writes, Host!Carry
  <2>3. faults = 0 => Len(text') <= KbCapacity
    BY DEF CapacityInv
  <2>. QED  BY <1>1, <2>1, <2>2, <2>3, CapacityClient
<1>3. CASE Writes(<<Host!Broken>>)
  <2>1. faults' = faults + 1
    BY <1>3 DEF Writes, Host!CountBroken
  <2>2. targetMaxTextBytes' \in Nat
    BY <1>1 DEF CapacityInv
  <2>. QED  BY <2>1, <2>2, CapacityFaults
<1>. QED  BY <1>2, <1>3

(* A step of the client that leaves the line alone. *)
LEMMA CapacityQuiet ==
  ASSUME CapacityInv, UNCHANGED <<hostState, toDos, toHost, faults>>,
         text' = text \/ text' = << >>,
         pc' \in {"ping", "open"} => pc \in {"ping", "open"}
  PROVE  CapacityInv'
<1>1. UNCHANGED <<stream, imeReady, targetMaxTextBytes, toDos, toHost, faults>>
  BY DEF hostState
<1>2. faults = 0 => Len(text') <= KbCapacity
  <2>1. Len(<< >>) <= KbCapacity
    BY ClientAssumption
  <2>. QED  BY <2>1 DEF CapacityInv
<1>. QED  BY <1>1, <1>2, CapacityClient

(* The client reads an answer. *)
LEMMA CapacityReads ==
  ASSUME CapacityInv, LineTyped, HelloAnswer \/ PingAnswer \/ TextAnswer
  PROVE  CapacityInv'
<1>1. /\ UNCHANGED <<stream, imeReady, targetMaxTextBytes, faults, toHost>>
      /\ toDos' = toDos \/ (toDos # << >> /\ toDos' = Tail(toDos))
  <2>1. ReadsNothing \/ (Reads /\ Arrived # {})
    BY DEF HelloAnswer, PingAnswer, TextAnswer
  <2>2. Arrived # {} => toDos # << >>
    BY DEF Arrived, LineTyped
  <2>. QED  BY <2>1, <2>2 DEF ReadsNothing, Reads, hostState
<1>2. \A p \in Arrived : faults = 0 => p \in Fitting /\ (Told \/ p \in Unasked)
  BY DEF Arrived, CapacityInv, Untold
<1>3. CASE HelloAnswer
  <2>1. text' = text /\ pc = "hello"
    BY <1>3 DEF HelloAnswer, injection
  <2>2. pc' \in {"ping", "open"} => \E p \in Arrived : p.type = "PONG" /\ p.seq = 1
    BY <1>3, <2>1 DEF HelloAnswer, HelloAgain, Fail, Exit
  <2>3. faults = 0 /\ pc' \in {"ping", "open"} => Told
    BY <1>2, <2>2 DEF Unasked
  <2>4. faults = 0 => Len(text') <= KbCapacity
    BY <2>1 DEF CapacityInv
  <2>. QED  BY <1>1, <2>3, <2>4, CapacityClient
<1>4. CASE PingAnswer
  <2>1. text' = text /\ pc = "ping"
    BY <1>4 DEF PingAnswer, injection
  <2>2. faults = 0 => Len(text') <= KbCapacity
    BY <2>1 DEF CapacityInv
  <2>. QED  BY <1>1, <2>1, <2>2, CapacityClient
<1>5. CASE TextAnswer
  <2>1. pc = "open" /\ (text' = text \/ \E p \in Arrived : p.type = "TEXT" /\ text' = p.data)
    BY <1>5 DEF TextAnswer
  <2>2. faults = 0 => Len(text') <= KbCapacity
    BY <1>2, <2>1 DEF Fitting, CapacityInv
  <2>. QED  BY <1>1, <2>1, <2>2, CapacityClient
<1>. QED  BY <1>3, <1>4, <1>5

(* The bridge serves a request. *)
LEMMA CapacityServes ==
  ASSUME CapacityInv, LineTyped, Host!Serves, UNCHANGED clientVars
  PROVE  CapacityInv'
<1> DEFINE p == Head(toHost)
<1>1. /\ toHost # << >> /\ toHost' = Tail(toHost) /\ faults' = faults
      /\ Host!Receive(p) /\ stream = "up" /\ UNCHANGED <<text, pc>>
  BY DEF Host!Serves, Host!Receive, clientVars, injection
<1>2. p \in Packets
  BY <1>1 DEF LineTyped
<1>3. stream' = stream
  BY <1>1 DEF Host!Receive, Host!ReceiveHello, Host!ReceivePing, Host!ReceiveOpen,
              Host!ReceiveClose, Host!ReceiveAck
<1>4. targetMaxTextBytes' \in Nat
  <2>1. CASE Host!ReceiveHello(p)
    <3>1. \/ targetMaxTextBytes' = p.data[1] /\ p.data[1] \in 1 .. MaxPayload
          \/ targetMaxTextBytes' = MaxPayload
      BY <2>1 DEF Host!ReceiveHello
    <3>. QED  BY <3>1, ClientAssumption
  <2>2. CASE ~Host!ReceiveHello(p)
    BY <1>1, <2>2 DEF CapacityInv, Host!Receive, Host!ReceivePing, Host!ReceiveOpen,
       Host!ReceiveClose, Host!ReceiveAck
  <2>. QED  BY <2>1, <2>2
<1> SUFFICES ASSUME faults = 0
             PROVE  toHost' \in Seq(Requests) /\ toDos' \in Seq(Fitting) /\ (Told' \/ Untold')
  BY <1>1, <1>3, <1>4 DEF CapacityInv
<1>5. /\ toHost \in Seq(Requests) /\ toDos \in Seq(Fitting)
      /\ Told \/ Untold
      /\ p \in Requests /\ toHost' \in Seq(Requests)
      /\ Untold => p \in Early /\ toHost' \in Seq(Early)
  BY <1>1 DEF CapacityInv, Untold
<1>a. ASSUME NEW m \in Fitting, toDos' = Append(toDos, m)
      PROVE  /\ toDos' \in Seq(Fitting)
             /\ Untold /\ m \in Unasked => toDos' \in Seq(Unasked)
  <2>1. toDos' \in Seq(Fitting)
    BY <1>5, <1>a, AppendProperties, Zenon
  <2>2. ASSUME Untold, m \in Unasked  PROVE toDos' \in Seq(Unasked)
    <3>1. toDos \in Seq(Unasked)
      BY <2>2, Zenon DEF Untold
    <3>. QED  BY <1>a, <2>2, <3>1, AppendProperties, Zenon
  <2>. QED  BY <2>1, <2>2
<1>6. CASE p = Packet("HELLO", 1, <<KbCapacity>>)
  <2>1. Host!ReceiveHello(p)
    BY <1>1, <1>6 DEF Host!Receive, Host!ReceivePing, Host!ReceiveOpen,
       Host!ReceiveClose, Host!ReceiveAck, Packet
  <2>2. p.data # << >> /\ p.data[1] = KbCapacity /\ p.seq = 1
    BY <1>6 DEF Packet
  <2>3. targetMaxTextBytes' = IF KbCapacity \in 1 .. MaxPayload THEN KbCapacity ELSE MaxPayload
    BY <2>1, <2>2 DEF Host!ReceiveHello
  <2>4. Told'
    BY <1>1, <1>3, <2>3, ClientAssumption DEF Told
  <2>5. toDos' = Append(toDos, Packet("PONG", 1, << >>))
    BY <2>1, <2>2 DEF Host!ReceiveHello, Host!Send, Host!Message, Packet
  <2>6. Packet("PONG", 1, << >>) \in Fitting
    <3>1. Packet("PONG", 1, << >>) \in Packets
      BY MessageTyped, EmptySeq DEF Types
    <3>. QED  BY <3>1 DEF Fitting, Packet
  <2>7. toDos' \in Seq(Fitting)
    BY <1>a, <2>5, <2>6, Zenon
  <2>. QED  BY <1>5, <2>4, <2>7, Zenon
<1>7. CASE p = Packet("PING", 2, << >>)
  <2>1. Host!ReceivePing(p) /\ p.seq = 2
    BY <1>1, <1>7 DEF Host!Receive, Host!ReceiveHello, Host!ReceiveOpen,
       Host!ReceiveClose, Host!ReceiveAck, Packet
  <2>2. /\ toDos' = Append(toDos, Packet("PONG", 2, << >>))
        /\ UNCHANGED <<targetMaxTextBytes, imeReady>>
    BY <2>1 DEF Host!ReceivePing, Host!Send, Host!Message, Packet
  <2>3. Packet("PONG", 2, << >>) \in Unasked /\ Packet("PONG", 2, << >>) \in Fitting
    <3>1. Packet("PONG", 2, << >>) \in Packets
      BY MessageTyped, EmptySeq DEF Types
    <3>. QED  BY <3>1 DEF Fitting, Unasked, Packet
  <2>4. toDos' \in Seq(Fitting) /\ (Untold => toDos' \in Seq(Unasked))
    BY <1>a, <2>2, <2>3, Zenon
  <2>. QED  BY <1>1, <1>3, <1>5, <2>2, <2>4, Zenon DEF Told, Untold
<1>8. CASE p = Packet("TEXT_ACK", 3, << >>)
  <2>1. Host!ReceiveAck(p)
    BY <1>1, <1>8 DEF Host!Receive, Host!ReceiveHello, Host!ReceivePing, Host!ReceiveOpen,
       Host!ReceiveClose, Packet
  <2>2. UNCHANGED <<toDos, targetMaxTextBytes>> /\ imeReady' = FALSE
    BY <2>1 DEF Host!ReceiveAck
  <2>3. toDos' \in Seq(Fitting)
    BY <1>5, <2>2, Zenon
  <2>4. Told => Told'
    BY <1>3, <2>2, Zenon DEF Told
  <2>5. ASSUME Untold  PROVE Untold'
    <3>1. pc' \notin {"ping", "open"} /\ toDos' \in Seq(Unasked)
      BY <1>1, <2>2, <2>5, Zenon DEF Untold
    <3>2. ~imeReady' /\ toHost' \in Seq(Early)
      BY <1>5, <2>2, <2>5, Zenon
    <3>. QED  BY <3>1, <3>2, Zenon DEF Untold
  <2>. QED  BY <1>5, <2>3, <2>4, <2>5, Zenon
<1>9. CASE p = Packet("OPEN_IME", 3, << >>)
  <2>1. Host!ReceiveOpen(p)
    BY <1>1, <1>9 DEF Host!Receive, Host!ReceiveHello, Host!ReceivePing, Host!ReceiveAck,
       Host!ReceiveClose, Packet
  <2>2. Told
    BY <1>5, <1>9 DEF Early, Packet
  <2>3. Told'
    BY <1>3, <2>1, <2>2 DEF Told, Host!ReceiveOpen
  <2>4. \/ toDos' = toDos
        \/ /\ toDos' = Append(toDos, Packet("TEXT", 3, AutomaticText))
           /\ Len(AutomaticText) <= targetMaxTextBytes
    BY <1>9, <2>1 DEF Host!ReceiveOpen, Host!Send, Host!Message, Packet
  <2>5. Len(AutomaticText) <= targetMaxTextBytes => Packet("TEXT", 3, AutomaticText) \in Fitting
    <3>1. Packet("TEXT", 3, AutomaticText) \in Packets
      BY MessageTyped, ClientAssumption DEF Types
    <3>2. Len(AutomaticText) <= targetMaxTextBytes => Len(AutomaticText) <= KbCapacity
      BY <2>2, ClientAssumption DEF Told, CapacityInv
    <3>. QED  BY <3>1, <3>2 DEF Fitting, Packet
  <2>6. toDos' \in Seq(Fitting)
    <3>1. CASE toDos' = toDos
      BY <1>5, <3>1, Zenon
    <3>2. CASE /\ toDos' = Append(toDos, Packet("TEXT", 3, AutomaticText))
               /\ Len(AutomaticText) <= targetMaxTextBytes
      <4>1. Packet("TEXT", 3, AutomaticText) \in Fitting
        BY <2>5, <3>2, Zenon
      <4>. QED  BY <1>5, <3>2, <4>1, AppendProperties, Zenon
    <3>. QED  BY <2>4, <3>1, <3>2, Zenon
  <2>. QED  BY <1>5, <2>3, <2>6, Zenon
<1>. QED  BY <1>5, <1>6, <1>7, <1>8, <1>9 DEF Requests, Early

(* The rest of the line, and the user at the bridge. *)
LEMMA CapacityLine ==
  ASSUME CapacityInv, LineTyped, Line \/ WindowsUser
  PROVE  CapacityInv'
<1>1. UNCHANGED <<text, pc>> /\ UNCHANGED clientVars
  BY DEF Line, WindowsUser, clientVars, injection
<1>2. CASE Host!Serves
  BY <1>1, <1>2, CapacityServes
<1>3. CASE Host!SkipsFragment
  <2>1. /\ UNCHANGED <<stream, openSequence, imeReady, targetMaxTextBytes, input, toDos, faults>>
        /\ toHost # << >> /\ Head(toHost) = Host!Broken
    BY <1>3 DEF Host!SkipsFragment, Host!hostVars
  <2>2. faults # 0
    <3>1. toHost \in Seq(Requests) => Head(toHost) \in Requests
      BY <2>1
    <3>. QED
      BY <2>1, <3>1 DEF CapacityInv, Requests, Early, Packet, Host!Broken, Host!Message
  <2>. QED  BY <2>1, <2>2 DEF CapacityInv
<1>4. CASE Host!RejectsFragment
  <2>1. /\ toHost \in Seq(Packets) /\ Len(toHost) > 1 /\ Head(toHost) = Host!Broken
        /\ faults' = faults /\ targetMaxTextBytes' = MaxPayload
    BY <1>4 DEF Host!RejectsFragment, Host!ServeEnd, LineTyped
  <2>2. faults # 0
    <3>1. toHost \in Seq(Requests) => Head(toHost) \in Requests
      BY <2>1
    <3>. QED
      BY <2>1, <3>1 DEF CapacityInv, Requests, Early, Packet, Host!Broken, Host!Message
  <2>. QED  BY <2>1, <2>2, ClientAssumption DEF CapacityInv
<1>5. CASE Host!Connects
  <2>1. /\ stream = "none" /\ stream' = "up" /\ imeReady' = FALSE
        /\ targetMaxTextBytes' = MaxPayload /\ UNCHANGED <<toDos, toHost, faults>>
    BY <1>5 DEF Host!Connects, Host!Connect
  <2>2. ~Told
    BY <2>1 DEF Told
  <2>. QED  BY <1>1, <2>1, <2>2, ClientAssumption DEF CapacityInv, Untold
<1>6. CASE Host!Breaks
  BY <1>6, CapacityFaults DEF Host!Breaks, CapacityInv
<1>7. CASE Host!NoticesBreak
  <2>1. stream = "broken" /\ faults' = faults /\ targetMaxTextBytes' = MaxPayload
    BY <1>7 DEF Host!NoticesBreak, Host!ServeEnd
  <2>. QED  BY <2>1, ClientAssumption DEF CapacityInv
<1>8. CASE WindowsUser
  <2>1. /\ UNCHANGED <<toHost, faults, stream, targetMaxTextBytes>>
        /\ imeReady' => imeReady
    BY <1>8 DEF WindowsUser, Host!TypeText, Host!ClearInput, Host!SendText, Host!SendKey,
       Host!SendCloseIme
  <2>2. toDos' = toDos \/ (imeReady /\ (faults = 0 => toDos' \in Seq(Fitting)))
    <3>1. CASE Host!ClearInput \/ \E t \in Texts : Host!TypeText(t)
      BY <3>1 DEF Host!TypeText, Host!ClearInput
    <3>2. ASSUME NEW type \in Types, NEW data \in Seq(Nat), imeReady,
                 faults = 0 /\ type = "TEXT" => Len(data) <= KbCapacity,
                 toDos' = Append(toDos, Host!Message(type, openSequence, data))
          PROVE  imeReady /\ (faults = 0 => toDos' \in Seq(Fitting))
      <4> DEFINE m == Host!Message(type, openSequence, data)
      <4>1. m \in Packets
        BY MessageTyped DEF LineTyped
      <4>2. faults = 0 => m \in Fitting
        BY <3>2, <4>1 DEF Fitting, Host!Message
      <4>3. toDos' = Append(toDos, m)
        BY <3>2
      <4> HIDE DEF m
      <4>. QED  BY <3>2, <4>2, <4>3 DEF CapacityInv
    <3>3. input \in Seq(Nat) /\ <<1>> \in Seq(Nat) /\ << >> \in Seq(Nat)
      BY DEF LineTyped
    <3>4. CASE Host!SendText
      <4>1. /\ toDos' = Append(toDos, Host!Message("TEXT", openSequence, input))
            /\ imeReady /\ Len(input) <= targetMaxTextBytes
        BY <3>4 DEF Host!SendText, Host!Send, Host!MaySend
      <4>2. faults = 0 => Len(input) <= KbCapacity
        <5>1. faults = 0 => Told
          BY <4>1 DEF CapacityInv, Untold
        <5>. QED  BY <3>3, <4>1, <5>1, ClientAssumption DEF Told, CapacityInv
      <4>. QED  BY <3>2, <3>3, <4>1, <4>2 DEF Types
    <3>5. CASE Host!SendKey(1)
      <4>1. toDos' = Append(toDos, Host!Message("KEY", openSequence, <<1>>)) /\ imeReady
        BY <3>5 DEF Host!SendKey, Host!Send, Host!MaySend
      <4>. QED  BY <3>2, <3>3, <4>1 DEF Types
    <3>6. CASE Host!SendCloseIme
      <4>1. toDos' = Append(toDos, Host!Message("CLOSE_IME", openSequence, << >>)) /\ imeReady
        BY <3>6 DEF Host!SendCloseIme, Host!Send, Host!MaySend
      <4>. QED  BY <3>2, <3>3, <4>1 DEF Types
    <3>. QED  BY <1>8, <3>1, <3>4, <3>5, <3>6 DEF WindowsUser
  <2>. QED  BY <1>1, <2>1, <2>2 DEF CapacityInv, Told, Untold
<1>. QED  BY <1>2, <1>3, <1>4, <1>5, <1>6, <1>7, <1>8 DEF Line

LEMMA CapacitySteps == LineTyped /\ CapacityInv /\ [Next]_vars => CapacityInv'
<1> SUFFICES ASSUME LineTyped, CapacityInv, [Next]_vars  PROVE CapacityInv'
  OBVIOUS
<1>1. ASSUME UNCHANGED <<hostState, toDos, toHost, faults>>,
             text' = text \/ text' = << >>, pc' \notin {"ping", "open"} \/ pc' = pc
      PROVE  CapacityInv'
  BY <1>1, CapacityQuiet
<1>2. CASE Start \/ OpenDevice \/ OpenSession \/ OpenSerial \/ Close \/ CtrlC
  <2>1. UNCHANGED <<hostState, toDos, toHost, faults>>
    BY <1>2, Zenon DEF Start, OpenDevice, OpenSession, OpenSerial, Close, CtrlC
  <2>2. text' = text \/ text' = << >>
    BY <1>2, Zenon DEF Start, OpenDevice, OpenSession, OpenSerial, Close, CtrlC, injection
  <2>3. pc' \in {"device", "session", "serial", "hello", "none", "check"}
    BY <1>2 DEF Start, OpenDevice, OpenSession, OpenSerial, Close, CtrlC, Fail, Exit
  <2>. QED  BY <1>1, <2>1, <2>2, <2>3
<1>3. CASE InjectCheck \/ InjectWord \/ InjectFull \/ InjectDone \/ ReadBack \/ ReadBackDone
  <2>1. UNCHANGED <<hostState, toDos, toHost, faults, text>>
    BY <1>3, Zenon
       DEF InjectCheck, InjectWord, InjectFull, InjectDone, ReadBack, ReadBackDone
  <2>2. pc' \in {"loop", "readback", "ack", "none"}
    BY <1>3 DEF InjectCheck, InjectWord, InjectFull, InjectDone, ReadBack, ReadBackDone,
       InjectionEnds, Goes, Exit
  <2>. QED  BY <1>1, <2>1, <2>2
<1>4. CASE KeyPress \/ ParentReads \/ UNCHANGED vars
  <2>1. UNCHANGED <<hostState, toDos, toHost, faults, pc, text>>
    BY <1>4, Zenon DEF KeyPress, ParentReads, vars, clientVars, injection
  <2>. QED  BY <1>1, <2>1
<1>5. CASE SendHello
  <2>1. /\ Writes(<<Packet("HELLO", 1, <<KbCapacity>>)>>) \/ Writes(<<Host!Broken>>)
        /\ UNCHANGED text
    BY <1>5 DEF SendHello, injection
  <2>2. pc' \notin {"ping", "open"}
    BY <1>5 DEF SendHello, HelloAgain, Fail, Exit, Goes
  <2>3. Packet("HELLO", 1, <<KbCapacity>>) \in Early
    BY DEF Early
  <2>. QED  BY <2>1, <2>2, <2>3, CapacityWrites DEF Requests
<1>6. CASE Ask
  <2>1. /\ Writes(<<RequestOf(pc)>>) \/ Writes(<<Host!Broken>>)
        /\ UNCHANGED text /\ pc \in {"ping", "open"}
    BY <1>6 DEF Ask, injection
  <2>2. RequestOf(pc) \in Requests /\ (RequestOf(pc) \in Early \/ pc = "open")
    BY <2>1 DEF RequestOf, Requests, Early
  <2> DEFINE p == RequestOf(pc)
  <2>3. p \in Requests /\ (p \in Early \/ pc = "open")
        /\ (Writes(<<p>>) \/ Writes(<<Host!Broken>>))
    BY <2>1, <2>2
  <2> HIDE DEF p
  <2>. QED  BY <2>1, <2>3, CapacityWrites
<1>7. CASE SendAck
  <2>1. /\ Writes(<<Packet("TEXT_ACK", 3, << >>)>>) \/ Writes(<<Host!Broken>>)
        /\ UNCHANGED text
    BY <1>7 DEF SendAck, injection
  <2>2. pc' \notin {"ping", "open"}
    BY <1>7 DEF SendAck, Fail, Exit, Goes
  <2>3. Packet("TEXT_ACK", 3, << >>) \in Early
    BY DEF Early
  <2>. QED  BY <2>1, <2>2, <2>3, CapacityWrites DEF Requests
<1>8. CASE HelloAnswer \/ PingAnswer \/ TextAnswer
  BY <1>8, CapacityReads
<1>9. CASE ClosedPortLoses
  <2>1. /\ UNCHANGED <<stream, imeReady, targetMaxTextBytes, faults, toHost, text, pc>>
        /\ toDos # << >> /\ toDos' = Tail(toDos)
    BY <1>9, Zenon DEF ClosedPortLoses, hostState, clientVars, injection
  <2>2. faults = 0 => Len(text') <= KbCapacity
    BY <2>1 DEF CapacityInv
  <2>. QED  BY <2>1, <2>2, CapacityClient
<1>10. CASE Line \/ WindowsUser
  BY <1>10, CapacityLine
<1>. QED
  BY <1>2, <1>3, <1>4, <1>5, <1>6, <1>7, <1>8, <1>9, <1>10, Zenon DEF Next, Client

(* While the line does not fail, every text the client takes fits into the
   keyboard queue it announced, over any number of runs, retried HELLOs and
   late answers, whatever the two capacities are
   (main.c:248-252, BridgeForm.cs:387-400). *)
THEOREM TextsFit == Spec => []CapacityRespected
<1>1. ClientInv => LineTyped
  BY DEF ClientInv
<1>2. CapacityInv => CapacityRespected
  BY DEF CapacityInv, CapacityRespected
<1>. QED
  BY <1>1, <1>2, ClientStarts, ClientSteps, CapacityStarts, CapacitySteps, PTL DEF Spec

-----------------------------------------------------------------------------
(* What the verification reads back                                         *)

(* The words of the queue that nobody typed, and the units of a text whose
   word is not one that is typed. *)
Foreign(q) == {i \in DOMAIN q : q[i] # UserWord}

Owed(t) == {s \in UnitStarts(t) : WordAt(t, s) # UserWord}

(* There are as many of the first as of the second: of the units queued so
   far, then of those not read back yet.  Words typed before the first unit
   or during the verification do not count. *)
VerifyInv ==
  /\ verified = "verified" => verify /\ pc \in {"none", "ack", "close"}
  /\ pc = "loop" => Cardinality(Foreign(kbd)) = Cardinality({s \in Owed(text) : s <= offset})
  /\ pc = "readback" =>
       /\ Complete
       /\ offset = Len(text) \/ offset + 1 \in UnitStarts(text)
       /\ Cardinality(Foreign(kbd)) = Cardinality({s \in Owed(text) : s > offset})
  /\ pc = "ack" /\ verified = "verified" => Complete /\ Foreign(kbd) = {}

LEMMA FinitelyMany ==
  /\ \A q \in Seq(Nat) : IsFiniteSet(Foreign(q))
  /\ \A t \in Seq(Nat) : IsFiniteSet(Owed(t))
<1>1. ASSUME NEW n \in Nat, NEW S \in SUBSET (1 .. n)  PROVE IsFiniteSet(S)
  <2>1. IsFiniteSet(1 .. n)
    BY FS_Interval
  <2>. QED  BY <2>1, FS_Subset
<1>2. ASSUME NEW q \in Seq(Nat)  PROVE IsFiniteSet(Foreign(q))
  <2>1. Foreign(q) \in SUBSET (1 .. Len(q)) /\ Len(q) \in Nat
    BY DEF Foreign
  <2>. QED  BY <1>1, <2>1
<1>3. ASSUME NEW t \in Seq(Nat)  PROVE IsFiniteSet(Owed(t))
  <2>1. Owed(t) \in SUBSET (1 .. Len(t)) /\ Len(t) \in Nat
    BY DEF Owed, UnitStarts
  <2>. QED  BY <1>1, <2>1
<1>. QED  BY <1>2, <1>3

(* A word put into the queue, and the oldest one taken. *)
LEMMA ForeignPut ==
  ASSUME NEW q \in Seq(Nat), NEW w \in Nat
  PROVE  Cardinality(Foreign(Append(q, w))) =
           Cardinality(Foreign(q)) + IF w = UserWord THEN 0 ELSE 1
<1>1. /\ Append(q, w) \in Seq(Nat) /\ Len(q) \in Nat
      /\ DOMAIN q = 1 .. Len(q) /\ DOMAIN Append(q, w) = 1 .. Len(q) + 1
      /\ \A i \in 1 .. Len(q) : Append(q, w)[i] = q[i]
      /\ Append(q, w)[Len(q) + 1] = w
  OBVIOUS
<1>2. IsFiniteSet(Foreign(q)) /\ Cardinality(Foreign(q)) \in Nat
  BY FinitelyMany, FS_CardinalityType
<1>3. CASE w = UserWord
  <2>1. Foreign(Append(q, w)) = Foreign(q)
    BY <1>1, <1>3 DEF Foreign
  <2>. QED  BY <1>2, <1>3, <2>1
<1>4. CASE w # UserWord
  <2>1. Foreign(Append(q, w)) = Foreign(q) \cup {Len(q) + 1}
    BY <1>1, <1>4 DEF Foreign
  <2>2. Len(q) + 1 \notin Foreign(q)
    BY <1>1 DEF Foreign
  <2>. QED  BY <1>2, <1>4, <2>1, <2>2, FS_AddElement
<1>. QED  BY <1>3, <1>4

LEMMA ForeignTaken ==
  ASSUME NEW q \in Seq(Nat), q # << >>
  PROVE  Cardinality(Foreign(q)) =
           Cardinality(Foreign(Tail(q))) + IF q[1] = UserWord THEN 0 ELSE 1
<1> DEFINE r == Foreign(q) \ {1}
<1>1. /\ Tail(q) \in Seq(Nat) /\ Len(q) \in Nat \ {0}
      /\ DOMAIN q = 1 .. Len(q) /\ DOMAIN Tail(q) = 1 .. Len(q) - 1
      /\ \A i \in 1 .. Len(q) - 1 : Tail(q)[i] = q[i + 1]
  OBVIOUS
<1>2. /\ IsFiniteSet(Foreign(q)) /\ Cardinality(Foreign(q)) \in Nat
      /\ IsFiniteSet(Foreign(Tail(q))) /\ Cardinality(Foreign(Tail(q))) \in Nat
  BY <1>1, FinitelyMany, FS_CardinalityType
<1>3. Cardinality(r) = Cardinality(Foreign(Tail(q)))
  <2> DEFINE f == [i \in Foreign(Tail(q)) |-> i + 1]
  <2>1. f \in [Foreign(Tail(q)) -> r]
    BY <1>1 DEF Foreign
  <2>2. \A i, j \in Foreign(Tail(q)) : f[i] = f[j] => i = j
    BY <1>1 DEF Foreign
  <2>3. \A j \in r : \E i \in Foreign(Tail(q)) : f[i] = j
    <3> SUFFICES ASSUME NEW j \in r  PROVE \E i \in Foreign(Tail(q)) : f[i] = j
      OBVIOUS
    <3>1. j \in 2 .. Len(q) /\ q[j] # UserWord
      BY <1>1 DEF Foreign
    <3>2. j - 1 \in 1 .. Len(q) - 1 /\ (j - 1) + 1 = j
      BY <1>1, <3>1
    <3>3. j - 1 \in Foreign(Tail(q))
      BY <1>1, <3>1, <3>2 DEF Foreign
    <3>. QED  BY <3>2, <3>3
  <2>4. f \in Bijection(Foreign(Tail(q)), r)
    BY <2>1, <2>2, <2>3 DEF Bijection, Injection, Surjection, IsInjective
  <2>5. ExistsBijection(Foreign(Tail(q)), r)
    BY <2>4 DEF ExistsBijection
  <2>. QED  BY <1>2, <2>5, FS_Bijection
<1>4. CASE q[1] = UserWord
  <2>1. r = Foreign(q)
    BY <1>4 DEF Foreign
  <2>2. Cardinality(Foreign(q)) = Cardinality(Foreign(Tail(q)))
    BY <1>3, <2>1, Zenon
  <2>3. Cardinality(Foreign(q)) = Cardinality(Foreign(Tail(q))) + 0
    BY <1>2, <2>2
  <2>. QED  BY <1>4, <2>3, Zenon
<1>5. CASE q[1] # UserWord
  <2>1. 1 \in Foreign(q)
    BY <1>1, <1>5 DEF Foreign
  <2>2. Cardinality(r) = Cardinality(Foreign(q)) - 1
    BY <1>2, <2>1, FS_RemoveElement
  <2>. QED  BY <1>2, <1>3, <1>5, <2>2
<1>. QED  BY <1>4, <1>5

(* One unit further in the text. *)
LEMMA OwedMoves ==
  ASSUME NEW t \in Seq(Nat), NEW o \in 0 .. Len(t) - 1, o + 1 \in UnitStarts(t)
  PROVE  LET e == UnitEnd(t, o + 1)
             one == IF WordAt(t, o + 1) = UserWord THEN 0 ELSE 1
         IN  /\ Cardinality({s \in Owed(t) : s <= e}) =
                  Cardinality({s \in Owed(t) : s <= o}) + one
             /\ Cardinality({s \in Owed(t) : s > o}) =
                  Cardinality({s \in Owed(t) : s > e}) + one
<1> DEFINE e == UnitEnd(t, o + 1)
           done == {s \in Owed(t) : s <= o}
           left == {s \in Owed(t) : s > e}
<1>1. e \in o + 1 .. Len(t) /\ Owed(t) \subseteq UnitStarts(t) /\ UnitStarts(t) \subseteq Nat
  BY UnitEndInText DEF Owed, UnitStarts
<1>2. \A s \in UnitStarts(t) : s <= e <=> s <= o \/ s = o + 1
  <2>1. {s \in UnitStarts(t) : s <= e} = {s \in UnitStarts(t) : s <= o} \cup {o + 1}
    BY NextUnit
  <2>. QED  BY <2>1
<1>3. /\ IsFiniteSet(done) /\ Cardinality(done) \in Nat
      /\ IsFiniteSet(left) /\ Cardinality(left) \in Nat
  <2>1. IsFiniteSet(Owed(t)) /\ done \in SUBSET Owed(t) /\ left \in SUBSET Owed(t)
    BY FinitelyMany
  <2>. QED  BY <2>1, FS_Subset, FS_CardinalityType
<1>4. o + 1 \notin done /\ o + 1 \notin left
  BY <1>1
<1>5. CASE WordAt(t, o + 1) = UserWord
  <2>1. o + 1 \notin Owed(t)
    BY <1>5 DEF Owed
  <2>2. {s \in Owed(t) : s <= e} = done
    BY <1>1, <1>2, <2>1
  <2>3. {s \in Owed(t) : s > o} = left
    BY <1>1, <1>2, <2>1
  <2>4. /\ Cardinality(done) = Cardinality(done) + 0
        /\ Cardinality(left) = Cardinality(left) + 0
    BY <1>3
  <2>. QED  BY <1>5, <2>2, <2>3, <2>4, Zenon
<1>6. CASE WordAt(t, o + 1) # UserWord
  <2>1. o + 1 \in Owed(t)
    BY <1>6 DEF Owed
  <2>2. {s \in Owed(t) : s <= e} = done \cup {o + 1}
    BY <1>1, <1>2, <2>1
  <2>3. {s \in Owed(t) : s > o} = left \cup {o + 1}
    BY <1>1, <1>2, <2>1
  <2>4. /\ Cardinality(done \cup {o + 1}) = Cardinality(done) + 1
        /\ Cardinality(left \cup {o + 1}) = Cardinality(left) + 1
    BY <1>3, <1>4, FS_AddElement
  <2>. QED  BY <1>6, <2>2, <2>3, <2>4
<1>. QED  BY <1>5, <1>6

LEMMA VerifyStarts == Init => VerifyInv
<1> SUFFICES ASSUME Init  PROVE VerifyInv
  OBVIOUS
<1>1. pc = "none" /\ verified = "none"
  BY DEF Init
<1>. QED  BY <1>1 DEF VerifyInv

(* A step outside the injection and its verification. *)
LEMMA VerifyElsewhere ==
  ASSUME VerifyInv, pc \notin {"none", "ack", "close"}, verified' = verified,
         pc' \notin {"loop", "readback"}
  PROVE  VerifyInv'
BY DEF VerifyInv

(* Keys come and go around the client. *)
LEMMA VerifyAround ==
  ASSUME ClientInv, VerifyInv, UNCHANGED <<pc, verify, text, offset, queued, verified>>,
         \/ kbd' = kbd
         \/ kbd' = Append(kbd, UserWord)
         \/ pc = "none"
  PROVE  VerifyInv'
<1>1. kbd \in Seq(Nat) /\ UserWord \in Nat
  BY ClientAssumption DEF ClientInv, ClientTypeOK
<1>2. Complete' <=> Complete
  BY DEF Complete
<1>3. CASE kbd' = kbd
  BY <1>2, <1>3 DEF VerifyInv
<1>4. CASE kbd' = Append(kbd, UserWord)
  <2>1. /\ Cardinality(Foreign(kbd')) = Cardinality(Foreign(kbd)) + 0
        /\ IsFiniteSet(Foreign(kbd)) /\ IsFiniteSet(Foreign(kbd'))
        /\ Cardinality(Foreign(kbd)) \in Nat
    <3>1. kbd' \in Seq(Nat)
      BY <1>1, <1>4, AppendProperties
    <3>2. Cardinality(Foreign(kbd')) = Cardinality(Foreign(kbd)) + 0
      BY <1>1, <1>4, ForeignPut
    <3>3. IsFiniteSet(Foreign(kbd)) /\ IsFiniteSet(Foreign(kbd'))
      BY <1>1, <3>1, FinitelyMany
    <3>. QED  BY <3>2, <3>3, FS_CardinalityType
  <2>2. Cardinality(Foreign(kbd')) = Cardinality(Foreign(kbd))
    BY <2>1
  <2>3. Foreign(kbd) = {} => Foreign(kbd') = {}
    BY <2>1, <2>2, FS_EmptySet
  <2>. QED  BY <1>2, <2>2, <2>3 DEF VerifyInv
<1>5. CASE pc = "none"
  BY <1>5 DEF VerifyInv
<1>. QED  BY <1>3, <1>4, <1>5

(* The injection. *)
LEMMA VerifyInjects ==
  ASSUME ClientInv, VerifyInv, InjectCheck \/ InjectWord \/ InjectFull \/ InjectDone
  PROVE  VerifyInv'
<1>1. /\ text \in Seq(Nat) /\ Len(text) \in Nat /\ offset \in 0 .. Len(text)
      /\ kbd \in Seq(Nat)
  BY DEF ClientInv, ClientTypeOK
<1>2. pc \in {"check", "loop"} /\ verified # "verified"
  <2>1. pc \in {"check", "loop"}
    BY DEF InjectCheck, InjectWord, InjectFull, InjectDone
  <2>. QED  BY <2>1 DEF VerifyInv
<1>3. CASE InjectCheck
  <2>1. CASE NormalizedLength \in 1 .. KbCapacity /\ kbd = << >>
    <3>1. /\ pc' = "loop" /\ UNCHANGED <<text, offset, kbd, verified>> /\ offset = 0
          /\ kbd = << >>
      BY <1>3, <2>1 DEF InjectCheck, Goes, ClientInv, QueueInv, Before
    <3>2. Foreign(kbd') = {}
      BY <3>1 DEF Foreign
    <3>3. {s \in Owed(text') : s <= offset'} = {}
      BY <1>1, <3>1 DEF Owed, UnitStarts
    <3>. QED  BY <1>2, <3>1, <3>2, <3>3 DEF VerifyInv
  <2>2. CASE ~(NormalizedLength \in 1 .. KbCapacity /\ kbd = << >>)
    <3>1. verified' # "verified" /\ pc' \in {"ack", "none"}
      BY <1>2, <1>3, <2>2 DEF InjectCheck, InjectionEnds, Goes, Exit
    <3>. QED  BY <3>1 DEF VerifyInv
  <2>. QED  BY <2>1, <2>2
<1>4. CASE InjectWord
  <2>1. /\ offset \in 0 .. Len(text) - 1 /\ pc = "loop" /\ pc' = "loop"
        /\ offset' = UnitEnd(text, offset + 1) /\ UNCHANGED <<text, verified>>
        /\ kbd' = Append(kbd, WordAt(text, offset + 1))
    BY <1>1, <1>4 DEF InjectWord, Goes, Kb!Put
  <2>2. offset + 1 \in UnitStarts(text)
    BY <1>1, <2>1 DEF ClientInv, QueueInv, QueuedInOrder
  <2> DEFINE one == IF WordAt(text, offset + 1) = UserWord THEN 0 ELSE 1
  <2>3. Cardinality(Foreign(kbd')) = Cardinality(Foreign(kbd)) + one
    <3>1. WordAt(text, offset + 1) \in Nat
      BY <1>1, <2>1, WordIsNat
    <3>. QED  BY <1>1, <2>1, <3>1, ForeignPut
  <2>4. Cardinality({s \in Owed(text) : s <= UnitEnd(text, offset + 1)}) =
          Cardinality({s \in Owed(text) : s <= offset}) + one
    BY <1>1, <2>1, <2>2, OwedMoves
  <2> HIDE DEF one
  <2>5. Cardinality(Foreign(kbd')) = Cardinality({s \in Owed(text') : s <= offset'})
    <3>1. Cardinality(Foreign(kbd)) = Cardinality({s \in Owed(text) : s <= offset})
      BY <2>1 DEF VerifyInv
    <3>. QED  BY <2>1, <2>3, <2>4, <3>1, Zenon
  <2>. QED  BY <1>2, <2>1, <2>5 DEF VerifyInv
<1>5. CASE InjectFull
  <2>1. verified' # "verified" /\ pc' \in {"ack", "none"}
    BY <1>2, <1>5 DEF InjectFull, InjectionEnds, Goes, Exit
  <2>. QED  BY <2>1 DEF VerifyInv
<1>6. CASE InjectDone
  <2>1. /\ pc = "loop" /\ offset = Len(text) /\ UNCHANGED <<text, queued, kbd>>
        /\ verified' = verified
        /\ pc' = "none" \/ (pc' = "readback" /\ offset' = 0)
    BY <1>1, <1>6 DEF InjectDone, InjectionEnds, Goes, Exit
  <2>2. Complete'
    BY <2>1 DEF ClientInv, QueueInv, Complete
  <2>3. 1 \in UnitStarts(text) /\ UnitStarts(text) \subseteq 1 .. Len(text)
    <3>1. Len(text) >= 1
      BY <1>1, <2>1, EmptySeq, LenProperties DEF ClientInv, QueueInv
    <3>. QED  BY <1>1, <3>1 DEF UnitStarts
  <2>4. /\ {s \in Owed(text) : s <= Len(text)} = Owed(text)
        /\ {s \in Owed(text) : s > 0} = Owed(text)
    BY <1>1, <2>3 DEF Owed
  <2>5. Cardinality(Foreign(kbd)) = Cardinality(Owed(text))
    BY <2>1, <2>4 DEF VerifyInv
  <2>6. CASE pc' = "readback" /\ offset' = 0
    <3>1. offset' + 1 \in UnitStarts(text')
      <4>1. offset' + 1 = 1
        BY <2>6
      <4>. QED  BY <2>1, <2>3, <4>1, Zenon
    <3>2. Cardinality(Foreign(kbd')) = Cardinality({s \in Owed(text') : s > offset'})
      BY <2>1, <2>4, <2>5, <2>6, Zenon
    <3>3. pc' = "readback" /\ verified' # "verified"
      BY <1>2, <2>1, <2>6, Zenon
    <3>. QED  BY <2>2, <3>1, <3>2, <3>3 DEF VerifyInv
  <2>. QED  BY <1>2, <2>1, <2>6 DEF VerifyInv
<1>. QED  BY <1>3, <1>4, <1>5, <1>6

(* The verification. *)
LEMMA VerifyReads ==
  ASSUME ClientInv, VerifyInv, ReadBack \/ ReadBackDone
  PROVE  VerifyInv'
<1>1. /\ text \in Seq(Nat) /\ Len(text) \in Nat /\ offset \in 0 .. Len(text)
      /\ kbd \in Seq(Nat)
  BY DEF ClientInv, ClientTypeOK
<1>2. /\ pc = "readback" /\ verify /\ verified # "verified" /\ UNCHANGED <<text, queued, verify>>
      /\ Complete /\ Complete'
  <2>1. pc = "readback" /\ UNCHANGED <<text, queued, verify>>
    BY DEF ReadBack, ReadBackDone, env
  <2>. QED  BY <2>1 DEF VerifyInv, ClientInv, SessionInv, Complete
<1>3. CASE ReadBackDone
  <2>1. /\ offset = Len(text) /\ kbd' = kbd /\ pc' = "ack"
    BY <1>1, <1>3 DEF ReadBackDone, Goes
  <2>2. {s \in Owed(text) : s > offset} = {}
    BY <1>1, <2>1 DEF Owed, UnitStarts
  <2>3. Cardinality(Foreign(kbd)) = 0
    BY <1>2, <2>2, FS_EmptySet DEF VerifyInv
  <2>4. Foreign(kbd) = {}
    BY <1>1, <2>3, FinitelyMany, FS_EmptySet
  <2>. QED  BY <1>2, <2>1, <2>4 DEF VerifyInv
<1>4. CASE ReadBack /\ ~Survived
  <2>1. verified' # "verified" /\ pc' = "ack"
    BY <1>4 DEF ReadBack, Goes
  <2>. QED  BY <2>1 DEF VerifyInv
<1>5. CASE ReadBack /\ Survived
  <2>1. /\ offset \in 0 .. Len(text) - 1 /\ kbd # << >> /\ kbd' = Tail(kbd)
        /\ kbd[1] = WordAt(text, offset + 1) /\ offset' = UnitEnd(text, offset + 1)
        /\ pc' = "readback" /\ verified' = verified
    BY <1>1, <1>5 DEF ReadBack, Survived, Goes
  <2>2. offset + 1 \in UnitStarts(text)
    BY <1>1, <1>2, <2>1 DEF VerifyInv
  <2> DEFINE one == IF WordAt(text, offset + 1) = UserWord THEN 0 ELSE 1
             left == {s \in Owed(text) : s > UnitEnd(text, offset + 1)}
  <2>3. Cardinality(Foreign(kbd)) = Cardinality(Foreign(kbd')) + one
    BY <1>1, <2>1, ForeignTaken
  <2>4. Cardinality({s \in Owed(text) : s > offset}) = Cardinality(left) + one
    BY <1>1, <2>1, <2>2, OwedMoves
  <2>5. Cardinality(Foreign(kbd)) = Cardinality({s \in Owed(text) : s > offset})
    BY <1>2 DEF VerifyInv
  <2>6. Cardinality(Foreign(kbd')) \in Nat /\ Cardinality(left) \in Nat /\ one \in Nat
    <3>1. kbd' \in Seq(Nat)
      BY <1>1, <2>1, HeadTailProperties
    <3>2. IsFiniteSet(left)
      <4>1. left \in SUBSET Owed(text) /\ IsFiniteSet(Owed(text))
        BY <1>1, FinitelyMany
      <4>. QED  BY <4>1, FS_Subset
    <3>. QED  BY <3>1, <3>2, FinitelyMany, FS_CardinalityType
  <2>7. Cardinality(Foreign(kbd')) = Cardinality(left)
    <3> HIDE DEF one, left
    <3>. QED  BY <2>3, <2>4, <2>5, <2>6
  <2>8. offset' = Len(text) \/ offset' + 1 \in UnitStarts(text)
    BY <1>1, <2>1, <2>2, NextUnit
  <2>. QED  BY <1>2, <2>1, <2>7, <2>8 DEF VerifyInv
<1>. QED  BY <1>3, <1>4, <1>5

LEMMA VerifySteps == ClientInv /\ VerifyInv /\ [Next]_vars => VerifyInv'
<1> SUFFICES ASSUME ClientInv, VerifyInv, [Next]_vars  PROVE VerifyInv'
  OBVIOUS
<1>1. CASE Start
  <2>1. verified' = "none" /\ pc' = "device"
    BY <1>1 DEF Start
  <2>. QED  BY <2>1 DEF VerifyInv
<1>2. CASE \/ OpenDevice \/ OpenSession \/ OpenSerial \/ SendHello \/ HelloAnswer
           \/ Ask \/ PingAnswer \/ TextAnswer \/ CtrlC
  <2>1. pc \notin {"none", "ack", "close"}
    BY <1>2 DEF OpenDevice, OpenSession, OpenSerial, SendHello, HelloAnswer, Ask,
       PingAnswer, TextAnswer, CtrlC
  <2>2. verified' = verified
    BY <1>2, Zenon DEF OpenDevice, OpenSession, OpenSerial, SendHello, HelloAnswer, Ask,
       PingAnswer, TextAnswer, CtrlC, injection
  <2>3. pc' \notin {"loop", "readback"}
    BY <1>2 DEF OpenDevice, OpenSession, OpenSerial, SendHello, HelloAnswer, Ask,
       PingAnswer, TextAnswer, CtrlC, HelloAgain, Goes, Fail, Exit
  <2>. QED  BY <2>1, <2>2, <2>3, VerifyElsewhere
<1>3. CASE SendAck
  <2>1. pc = "ack" /\ pc' \in {"close", "none"} /\ UNCHANGED <<verify, verified>>
    BY <1>3 DEF SendAck, Goes, Fail, Exit, injection, env
  <2>. QED  BY <2>1 DEF VerifyInv
<1>4. CASE Close
  <2>1. /\ pc = "close" /\ pc' = (IF verify THEN "none" ELSE "check")
        /\ UNCHANGED <<verify, verified>>
    BY <1>4 DEF Close, Exit, injection, env
  <2>. QED  BY <2>1 DEF VerifyInv
<1>5. CASE InjectCheck \/ InjectWord \/ InjectFull \/ InjectDone
  BY <1>5, VerifyInjects
<1>6. CASE ReadBack \/ ReadBackDone
  BY <1>6, VerifyReads
<1>7. CASE \/ KeyPress \/ ParentReads \/ ClosedPortLoses \/ Line \/ WindowsUser
           \/ UNCHANGED vars
  <2>1. UNCHANGED <<pc, verify, text, offset, queued, verified>>
    BY <1>7, Zenon DEF KeyPress, ParentReads, ClosedPortLoses, Line, WindowsUser, vars,
       clientVars, injection, env
  <2>2. kbd' = kbd \/ kbd' = Append(kbd, UserWord) \/ pc = "none"
    BY <1>7, Zenon DEF KeyPress, ParentReads, ClosedPortLoses, Line, WindowsUser, vars,
       clientVars, Kb!Put
  <2>. QED  BY <2>1, <2>2, VerifyAround
<1>. QED
  BY <1>1, <1>2, <1>3, <1>4, <1>5, <1>6, <1>7, Zenon DEF Next, Client

(* Every report of a run is true, for every text, capacity and number of keys
   typed meanwhile: the exit code (ExitCodeIsTrue), and "verified", after
   which all of the text has been queued and nothing of it is left in the
   queue - also when a key typed has the same word as a unit of the text
   (inject_bios_pc98.c:128-184, main.c:323-349). *)
THEOREM ReportsAreTrue == Spec => []ReportsTrue
<1>1. ClientInv /\ VerifyInv => ReportsTrue
  BY DEF ClientInv, QueueInv, VerifyInv, ReportsTrue, Foreign
<1>. QED
  BY <1>1, ClientStarts, ClientSteps, VerifyStarts, VerifySteps, PTL DEF Spec

=============================================================================
