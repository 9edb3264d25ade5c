-------------------------- MODULE TsrWorkerProofs --------------------------
(***************************************************************************)
(* Theorems about the resident worker, for every queue size, batch, wait   *)
(* limit, sequence width and set of packets.                               *)
(***************************************************************************)
EXTENDS TsrWorker, KeyWordsProofs

LEMMA IncIsSeqNum ==
  ASSUME NEW seq \in SeqNums
  PROVE  Inc(seq) \in SeqNums
BY WorkerAssumption DEF Inc, SeqNums

(* The phase operators return phases. *)
Phases == {"idle", "poll", "text", "key", "open", "tick"}

LEMMA EnteringIsTyped ==
  ASSUME NEW phase \in Phases, Enter(phase)
  PROVE  pc' \in Phases /\ budget' \in Nat
BY WorkerAssumption DEF Enter, BudgetOf, Phases

LEMMA FromIsPhase ==
  /\ FromTick \in Phases /\ FromOpen \in Phases /\ FromKey \in Phases
  /\ FromText \in Phases /\ FromPoll \in Phases
BY DEF FromTick, FromOpen, FromKey, FromText, FromPoll, Phases

LEMMA FromIsPhasePrimed ==
  /\ FromTick' \in Phases /\ FromOpen' \in Phases /\ FromKey' \in Phases
  /\ FromText' \in Phases /\ FromPoll' \in Phases
BY DEF FromTick, FromOpen, FromKey, FromText, FromPoll, Phases

(* The parts of TypeOK: flags, numbers of the session, staged input, queue. *)
FlagsTyped ==
  /\ open_pending \in BOOLEAN /\ ime_active \in BOOLEAN /\ ime_enabled \in BOOLEAN
  /\ serial_opened \in BOOLEAN /\ irq_capture \in BOOLEAN
  /\ hotkey_down \in BOOLEAN /\ abandoned \in BOOLEAN

LinkTyped ==
  /\ link_state \in {"CLOSED", "HELLO_WAIT", "READY"}
  /\ sequence \in SeqNums /\ open_sequence \in SeqNums
  /\ wait_ticks \in 0 .. WaitLimit - 1

StagedTyped ==
  /\ pending_text \in Seq(Nat)
  /\ pending_offset \in 0 .. Len(pending_text)
  /\ pending_sequence \in SeqNums
  /\ pending_key \in Nat
  /\ injected \in Seq(Nat)

QueueTyped == kbd \in Seq(Nat) /\ Len(kbd) <= KbCapacity

PhaseTyped == pc \in Phases /\ budget \in Nat

LEMMA TypeParts ==
  TypeOK <=> FlagsTyped /\ LinkTyped /\ StagedTyped /\ QueueTyped /\ PhaseTyped
BY DEF TypeOK, FlagsTyped, LinkTyped, StagedTyped, QueueTyped, PhaseTyped, Phases

LEMMA TypePartsPrimed ==
  TypeOK' <=> /\ FlagsTyped' /\ LinkTyped' /\ StagedTyped' /\ QueueTyped'
              /\ PhaseTyped'
BY DEF TypeOK, FlagsTyped, LinkTyped, StagedTyped, QueueTyped, PhaseTyped, Phases

(* Flags stay flags in every step. *)
LEMMA FlagsStep == FlagsTyped /\ [Next]_vars => FlagsTyped'
<1> SUFFICES ASSUME FlagsTyped, [Next]_vars
             PROVE  FlagsTyped'
  OBVIOUS
<1>1. ASSUME ResetLink
      PROVE  /\ ime_active' \in BOOLEAN
             /\ serial_opened' \in BOOLEAN /\ irq_capture' \in BOOLEAN
  BY <1>1, Zenon DEF ResetLink, CaptureEnd
<1>2. ASSUME NEW ok, SendOpenIme(ok)
      PROVE  /\ open_pending' \in BOOLEAN /\ ime_active' \in BOOLEAN
             /\ ime_enabled' \in BOOLEAN
             /\ serial_opened' \in BOOLEAN /\ irq_capture' \in BOOLEAN
  BY <1>1, <1>2, Zenon DEF SendOpenIme, FlagsTyped, port
<1>3. ASSUME NEW ok, CloseIme(ok)
      PROVE  /\ open_pending' \in BOOLEAN /\ ime_active' \in BOOLEAN
             /\ ime_enabled' \in BOOLEAN /\ abandoned' \in BOOLEAN
             /\ serial_opened' \in BOOLEAN /\ irq_capture' \in BOOLEAN
  BY <1>3, Zenon DEF CloseIme, CaptureEnd, FlagsTyped, port
<1>4. ASSUME NEW ok, ToggleIme(ok)
      PROVE  /\ open_pending' \in BOOLEAN /\ ime_active' \in BOOLEAN
             /\ ime_enabled' \in BOOLEAN /\ abandoned' \in BOOLEAN
             /\ serial_opened' \in BOOLEAN /\ irq_capture' \in BOOLEAN
  BY <1>3, <1>4, Zenon DEF ToggleIme, FlagsTyped, port, staged
<1>5. ASSUME NEW ok, ServiceHotkey(ok)
      PROVE  FlagsTyped'
  BY <1>4, <1>5, Zenon DEF ServiceHotkey, FlagsTyped
<1>6. CASE ServiceQuiet
  BY <1>6, Zenon DEF ServiceQuiet, FlagsTyped, session, staged, port, keyboard
<1>7. ASSUME NEW p, NEW ok, PollPacket(p, ok)
      PROVE  FlagsTyped'
  <2> hotkey_down' \in BOOLEAN
    BY <1>7, Zenon DEF PollPacket, FlagsTyped, keyboard
  <2>1. CASE HandlePong(p, ok)
    BY <1>2, <2>1, Zenon DEF HandlePong, FlagsTyped, port, staged
  <2>2. CASE HandleText(p)
    BY <2>2, Zenon DEF HandleText, FlagsTyped, port
  <2>3. CASE HandleKey(p)
    BY <2>3, Zenon DEF HandleKey, FlagsTyped, port
  <2>4. CASE HandleClose(p, ok)
    BY <1>3, <2>4, Zenon DEF HandleClose, FlagsTyped
  <2>5. CASE HandleOther(p)
    BY <2>5, Zenon DEF HandleOther, FlagsTyped, session, staged, port
  <2>. QED  BY <1>7, <2>1, <2>2, <2>3, <2>4, <2>5 DEF PollPacket
<1>8. CASE PollDone
  BY <1>8, Zenon DEF PollDone, FlagsTyped, session, staged, port, keyboard
<1>9. CASE InjectWord
  BY <1>9, Zenon DEF InjectWord, FlagsTyped, session, port
<1>10. CASE InjectStall
  BY <1>10, Zenon DEF InjectStall, FlagsTyped, session, staged, port, keyboard
<1>11. ASSUME NEW ok, InjectFinish(ok)
       PROVE  FlagsTyped'
  BY <1>11, Zenon DEF InjectFinish, Answered, FlagsTyped, port, keyboard
<1>12. ASSUME NEW ok, InjectKey(ok)
       PROVE  FlagsTyped'
  BY <1>12, Zenon DEF InjectKey, Answered, FlagsTyped, port
<1>13. CASE InjectKeyFull
  BY <1>13, Zenon DEF InjectKeyFull, FlagsTyped, session, staged, port, keyboard
<1>14. ASSUME NEW ok, OpenSession(ok)
       PROVE  FlagsTyped'
  BY <1>2, <1>14, Zenon DEF OpenSession, FlagsTyped, staged, keyboard
<1>15. ASSUME NEW ok, StartLink(ok)
       PROVE  FlagsTyped'
  BY <1>15, Zenon DEF StartLink, FlagsTyped, staged, keyboard
<1>16. CASE Tick
  BY <1>16, Zenon DEF Tick, FlagsTyped, staged, port, keyboard
<1>17. CASE Timeout
  BY <1>1, <1>17, Zenon DEF Timeout, Staged, FlagsTyped, keyboard
<1>18. ASSUME NEW w, KeyPress(w)
       PROVE  FlagsTyped'
  BY <1>18, Zenon DEF KeyPress, FlagsTyped, session, staged, port
<1>19. CASE HotkeyPress
  BY <1>19, Zenon DEF HotkeyPress, FlagsTyped, session, staged, port
<1>20. CASE HotkeyRelease
  BY <1>20, Zenon DEF HotkeyRelease, FlagsTyped, session, staged, port
<1>21. CASE AppRead
  BY <1>21, Zenon DEF AppRead, FlagsTyped, session, staged, port
<1>22. ASSUME NEW ok, ReturnedHotkey(ok)
       PROVE  FlagsTyped'
  BY <1>4, <1>22, Zenon DEF ReturnedHotkey, ReturnsHotkey, FlagsTyped
<1>23. CASE UNCHANGED vars
  BY <1>23, Zenon DEF FlagsTyped, vars, session, staged, port, keyboard
<1>. QED
  BY <1>5, <1>6, <1>7, <1>8, <1>9, <1>10, <1>11, <1>12, <1>13, <1>14, <1>15,
     <1>16, <1>17, <1>18, <1>19, <1>20, <1>21, <1>22, <1>23, Zenon
     DEF Next, Worker, Receive, User, App

(* The link, its sequence numbers and the wait counter stay in range. *)
LEMMA LinkStep == LinkTyped /\ [Next]_vars => LinkTyped'
<1> SUFFICES ASSUME LinkTyped, [Next]_vars
             PROVE  LinkTyped'
  OBVIOUS
<1> USE WorkerAssumption
<1>0. Inc(sequence) \in SeqNums
  BY IncIsSeqNum DEF LinkTyped
<1>1. ASSUME NEW ok, SendOpenIme(ok)
      PROVE  LinkTyped'
  BY <1>0, <1>1 DEF SendOpenIme, ResetLink, LinkTyped
<1>2. ASSUME NEW ok, CloseIme(ok)
      PROVE  LinkTyped'
  BY <1>2 DEF CloseIme, LinkTyped
<1>3. ASSUME NEW ok, ToggleIme(ok)
      PROVE  LinkTyped'
  BY <1>2, <1>3 DEF ToggleIme, LinkTyped
<1>4. ASSUME NEW ok, ServiceHotkey(ok)
      PROVE  LinkTyped'
  BY <1>3, <1>4 DEF ServiceHotkey
<1>5. ASSUME UNCHANGED session
      PROVE  LinkTyped'
  BY <1>5 DEF session, LinkTyped
<1>6. ASSUME NEW p, NEW ok, PollPacket(p, ok)
      PROVE  LinkTyped'
  <2>1. CASE HandlePong(p, ok)
    BY <1>1, <2>1 DEF HandlePong, LinkTyped
  <2>2. CASE HandleText(p)
    BY <2>2 DEF HandleText, LinkTyped
  <2>3. CASE HandleKey(p)
    BY <2>3 DEF HandleKey, LinkTyped
  <2>4. CASE HandleClose(p, ok)
    BY <1>2, <2>4 DEF HandleClose
  <2>5. CASE HandleOther(p)
    BY <1>5, <2>5 DEF HandleOther
  <2>. QED  BY <1>6, <2>1, <2>2, <2>3, <2>4, <2>5 DEF PollPacket
<1>7. ASSUME Answered
      PROVE  LinkTyped'
  BY <1>7 DEF Answered, LinkTyped
<1>8. ASSUME NEW ok, OpenSession(ok)
      PROVE  LinkTyped'
  BY <1>1, <1>8 DEF OpenSession
<1>9. ASSUME NEW ok, StartLink(ok)
      PROVE  LinkTyped'
  BY <1>0, <1>9 DEF StartLink, LinkTyped
<1>10. CASE Tick
  BY <1>10 DEF Tick, LinkTyped
<1>11. CASE Timeout
  BY <1>11 DEF Timeout, ResetLink, LinkTyped
<1>12. ASSUME NEW ok, ReturnedHotkey(ok)
       PROVE  LinkTyped'
  BY <1>3, <1>12 DEF ReturnedHotkey
<1>13. CASE UNCHANGED vars
  BY <1>5, <1>13 DEF vars
<1>14. ASSUME NEW ok, InjectFinish(ok) \/ InjectKey(ok)
       PROVE  LinkTyped'
  BY <1>7, <1>14 DEF InjectFinish, InjectKey
<1>15. CASE \/ ServiceQuiet \/ PollDone \/ InjectWord \/ InjectStall
            \/ InjectKeyFull \/ HotkeyPress \/ HotkeyRelease \/ AppRead
            \/ \E w \in UserWords : KeyPress(w)
  BY <1>5, <1>15, Zenon
     DEF ServiceQuiet, PollDone, InjectWord, InjectStall, InjectKeyFull,
         HotkeyPress, HotkeyRelease, AppRead, KeyPress
<1>. QED
  BY <1>4, <1>6, <1>8, <1>9, <1>10, <1>11, <1>12, <1>13, <1>14, <1>15, Zenon
     DEF Next, Worker, Receive, User, App

(* The staging buffer keeps its offset inside the text. *)
LEMMA StagedStep == LinkTyped /\ StagedTyped /\ [Next]_vars => StagedTyped'
<1> SUFFICES ASSUME LinkTyped, StagedTyped, [Next]_vars
             PROVE  StagedTyped'
  OBVIOUS
<1>1. ASSUME UNCHANGED staged
      PROVE  StagedTyped'
  BY <1>1 DEF staged, StagedTyped
<1>2. ASSUME NEW ok, CloseIme(ok)
      PROVE  StagedTyped'
  BY <1>2 DEF CloseIme, StagedTyped, NoKey
<1>3. ASSUME NEW ok, ToggleIme(ok)
      PROVE  StagedTyped'
  BY <1>1, <1>2, <1>3, Zenon DEF ToggleIme
<1>4. ASSUME NEW ok, ServiceHotkey(ok) \/ ReturnedHotkey(ok)
      PROVE  StagedTyped'
  BY <1>3, <1>4, Zenon DEF ServiceHotkey, ReturnedHotkey
<1>5. ASSUME NEW p \in Packets, NEW ok, PollPacket(p, ok)
      PROVE  StagedTyped'
  <2>0. p.seq \in SeqNums /\ p.data \in Seq(Nat)
    BY PacketAssumption
  <2>1. CASE HandleText(p)
    BY <2>0, <2>1 DEF HandleText, StagedTyped
  <2>2. CASE HandleKey(p)
    <3>1. KeyWordOf[p.data[1]] \in Nat
      BY <2>2 DEF HandleKey, IsKey, KeyWordOf
    <3>. QED  BY <2>0, <2>2, <3>1 DEF HandleKey, StagedTyped
  <2>3. CASE HandleClose(p, ok)
    BY <1>2, <2>3 DEF HandleClose
  <2>4. CASE HandlePong(p, ok) \/ HandleOther(p)
    BY <1>1, <2>4, Zenon DEF HandlePong, HandleOther
  <2>. QED  BY <1>5, <2>1, <2>2, <2>3, <2>4, Zenon DEF PollPacket
<1>6. CASE InjectWord
  <2>1. pending_offset + 1 \in 1 .. Len(pending_text)
    BY <1>6 DEF InjectWord, StagedTyped
  <2>2. UnitEnd(pending_text, pending_offset + 1) \in 0 .. Len(pending_text)
    BY <2>1, UnitEndInText DEF StagedTyped
  <2>. QED  BY <1>6, <2>1, <2>2 DEF InjectWord, StagedTyped
<1>7. ASSUME NEW ok, InjectFinish(ok)
      PROVE  StagedTyped'
  BY <1>7 DEF InjectFinish, StagedTyped
<1>8. ASSUME NEW ok, InjectKey(ok)
      PROVE  StagedTyped'
  BY <1>8 DEF InjectKey, StagedTyped, NoKey
<1>9. CASE Timeout
  BY <1>9 DEF Timeout, StagedTyped
<1>10. ASSUME NEW ok, OpenSession(ok) \/ StartLink(ok)
       PROVE  StagedTyped'
  BY <1>1, <1>10, Zenon DEF OpenSession, StartLink
<1>11. CASE \/ ServiceQuiet \/ PollDone \/ InjectStall \/ InjectKeyFull \/ Tick
            \/ HotkeyPress \/ HotkeyRelease \/ AppRead
            \/ \E w \in UserWords : KeyPress(w)
            \/ UNCHANGED vars
  BY <1>1, <1>11, Zenon
     DEF ServiceQuiet, PollDone, InjectStall, InjectKeyFull, Tick, HotkeyPress,
         HotkeyRelease, AppRead, KeyPress, vars
<1>. QED
  BY <1>4, <1>5, <1>6, <1>7, <1>8, <1>9, <1>10, <1>11, Zenon
     DEF Next, Worker, Receive, User, App

(* The BIOS queue never holds more than it can. *)
LEMMA QueueStep ==
  StagedTyped /\ QueueTyped /\ [Next]_vars => QueueTyped'
<1> SUFFICES ASSUME StagedTyped, QueueTyped, [Next]_vars
             PROVE  QueueTyped'
  OBVIOUS
<1> USE WorkerAssumption
<1>1. ASSUME NEW w \in Nat, Kb!Put(w)
      PROVE  QueueTyped'
  BY <1>1 DEF Kb!Put, Kb!Room, QueueTyped
<1>2. ASSUME UNCHANGED kbd
      PROVE  QueueTyped'
  BY <1>2 DEF QueueTyped
<1>3. ASSUME NEW ok, ServiceHotkey(ok)
      PROVE  QueueTyped'
  BY <1>3 DEF ServiceHotkey, Kb!Withdraw, Kb!NewestIsSpace, QueueTyped
<1>4. CASE InjectWord
  <2>1. WordAt(pending_text, pending_offset + 1) \in Nat
    BY <1>4, WordIsNat DEF InjectWord, StagedTyped
  <2>. QED  BY <1>1, <1>4, <2>1 DEF InjectWord
<1>5. ASSUME NEW ok, InjectKey(ok)
      PROVE  QueueTyped'
  BY <1>1, <1>5 DEF InjectKey, StagedTyped
<1>6. ASSUME NEW w \in UserWords, KeyPress(w)
      PROVE  QueueTyped'
  BY <1>1, <1>6 DEF KeyPress
<1>7. CASE HotkeyPress
  BY <1>7 DEF HotkeyPress, Kb!Room, Space, QueueTyped
<1>8. CASE AppRead
  BY <1>8 DEF AppRead, Kb!Take, QueueTyped
<1>9. CASE \/ ServiceQuiet \/ PollDone \/ InjectStall \/ InjectKeyFull \/ Tick
           \/ Timeout \/ HotkeyRelease \/ UNCHANGED vars
  BY <1>2, <1>9, Zenon
     DEF ServiceQuiet, PollDone, InjectStall, InjectKeyFull, Tick, Timeout,
         HotkeyRelease, keyboard, vars
<1>10. ASSUME NEW ok, InjectFinish(ok) \/ OpenSession(ok) \/ StartLink(ok)
       PROVE  QueueTyped'
  BY <1>2, <1>10, Zenon DEF InjectFinish, OpenSession, StartLink, keyboard
<1>12. ASSUME NEW ok, ReturnedHotkey(ok)
       PROVE  QueueTyped'
  BY <1>12 DEF ReturnedHotkey, Kb!Take, QueueTyped
<1>11. ASSUME NEW p, NEW ok, PollPacket(p, ok)
       PROVE  QueueTyped'
  BY <1>2, <1>11, Zenon DEF PollPacket, keyboard
<1>. QED
  BY <1>3, <1>4, <1>5, <1>6, <1>7, <1>8, <1>9, <1>10, <1>11, <1>12, Zenon
     DEF Next, Worker, Receive, User, App

(* Every step enters a phase. *)
LEMMA PhaseStep == PhaseTyped /\ [Next]_vars => PhaseTyped'
<1> SUFFICES ASSUME PhaseTyped, [Next]_vars
             PROVE  PhaseTyped'
  OBVIOUS
<1>1. ASSUME NEW phase \in Phases, Enter(phase)
      PROVE  PhaseTyped'
  BY <1>1, EnteringIsTyped DEF PhaseTyped
<1>2. ASSUME UNCHANGED <<pc, budget>>
      PROVE  PhaseTyped'
  BY <1>2 DEF PhaseTyped
<1>3. CASE ServiceQuiet \/ PollDone \/ InjectStall \/ InjectKeyFull
  BY <1>1, <1>3, FromIsPhase
     DEF ServiceQuiet, PollDone, InjectStall, InjectKeyFull
<1>4. ASSUME NEW ok, \/ ServiceHotkey(ok) \/ InjectFinish(ok) \/ InjectKey(ok)
                     \/ OpenSession(ok) \/ StartLink(ok)
      PROVE  PhaseTyped'
  BY <1>1, <1>4, FromIsPhasePrimed
     DEF ServiceHotkey, InjectFinish, InjectKey, OpenSession, StartLink
<1>5. CASE Tick \/ Timeout
  BY <1>1, <1>5 DEF Tick, Timeout, Phases
<1>6. CASE InjectWord
  BY <1>6 DEF InjectWord, PhaseTyped
<1>7. ASSUME NEW p, NEW ok, PollPacket(p, ok)
      PROVE  PhaseTyped'
  <2>1. CASE link_state' = "CLOSED"
    BY <1>1, <1>7, <2>1, FromIsPhasePrimed DEF PollPacket
  <2>2. CASE link_state' # "CLOSED"
    BY <1>7, <2>2 DEF PollPacket, PhaseTyped, Phases
  <2>. QED  BY <2>1, <2>2
<1>8. CASE \/ HotkeyPress \/ HotkeyRelease \/ AppRead
           \/ (\E w \in UserWords : KeyPress(w))
           \/ (\E ok \in TxOutcomes : ReturnedHotkey(ok)) \/ UNCHANGED vars
  BY <1>2, <1>8, Zenon
     DEF HotkeyPress, HotkeyRelease, AppRead, KeyPress, ReturnedHotkey, vars
<1>. QED
  BY <1>3, <1>4, <1>5, <1>6, <1>7, <1>8, Zenon DEF Next, Worker, Receive, User, App

LEMMA TypeInit == Init => TypeOK
<1> SUFFICES ASSUME Init PROVE TypeOK
  OBVIOUS
<1>1. FlagsTyped
  BY Zenon DEF Init, FlagsTyped
<1>2. LinkTyped /\ StagedTyped /\ QueueTyped /\ PhaseTyped
  BY WorkerAssumption
     DEF Init, LinkTyped, StagedTyped, QueueTyped, PhaseTyped, Phases, SeqNums, NoKey
<1>. QED  BY <1>1, <1>2, TypeParts

LEMMA TypeStep == TypeOK /\ [Next]_vars => TypeOK'
BY FlagsStep, LinkStep, StagedStep, QueueStep, PhaseStep, TypeParts, TypePartsPrimed

(* Type correctness: foreground.c keeps its flags, counters, offsets and the
   BIOS queue in range whatever the host sends and the user types. *)
THEOREM TypeCorrect == Spec => []TypeOK
BY TypeInit, TypeStep, PTL DEF Spec

-----------------------------------------------------------------------------
(* The flags and the port *)

(* A phase of the worker is entered only when it has work: what the link
   and the flags are while it runs. *)
PhaseHasWork ==
  /\ pc = "poll" => link_state # "CLOSED"
  /\ pc = "open" => open_pending /\ ~ime_active /\ link_state # "HELLO_WAIT"
  /\ pc = "tick" => link_state = "HELLO_WAIT" \/ ime_active

FlagsInv == SessionFlags /\ PortOwnership /\ PhaseHasWork

(* Entering a phase by its condition establishes PhaseHasWork. *)
LEMMA EnterHasWork ==
  ASSUME NEW phase \in {FromTick, FromOpen, FromKey, FromText, FromPoll},
         Enter(phase)
  PROVE  /\ pc' = "poll" => link_state # "CLOSED"
         /\ pc' = "open" => open_pending /\ ~ime_active /\ link_state # "HELLO_WAIT"
         /\ pc' = "tick" => link_state = "HELLO_WAIT" \/ ime_active
BY DEF Enter, FromTick, FromOpen, FromKey, FromText, FromPoll

LEMMA EnterHasWorkPrimed ==
  ASSUME NEW phase \in {FromTick', FromOpen', FromKey', FromText', FromPoll'},
         Enter(phase)
  PROVE  PhaseHasWork'
BY DEF Enter, FromTick, FromOpen, FromKey, FromText, FromPoll, PhaseHasWork

LEMMA FlagsInvStep == TypeOK /\ FlagsInv /\ [Next]_vars => FlagsInv'
<1> SUFFICES ASSUME TypeOK, FlagsInv, [Next]_vars
             PROVE  FlagsInv'
  OBVIOUS
<1> DEFINE Flags == SessionFlags /\ PortOwnership
<1>0. Flags
  BY DEF FlagsInv
<1>1. ASSUME ResetLink, UNCHANGED found_mask
      PROVE  PortOwnership'
  BY <1>0, <1>1 DEF ResetLink, CaptureEnd, PortOwnership
<1>2. ASSUME NEW ok, SendOpenIme(ok), UNCHANGED found_mask, ime_enabled,
             link_state # "CLOSED"
      PROVE  Flags'
  <2>1. CASE Sent(ok) /\ ime_active' = TRUE
    BY <1>0, <1>2, <2>1 DEF SendOpenIme, SessionFlags, PortOwnership, port
  <2>2. CASE ~Sent(ok) /\ ResetLink
    BY <1>0, <1>1, <1>2, <2>2 DEF SendOpenIme, ResetLink, SessionFlags
  <2>. QED  BY <1>2, <2>1, <2>2 DEF SendOpenIme
<1>3. ASSUME NEW ok, CloseIme(ok), UNCHANGED found_mask
      PROVE  Flags'
  BY <1>0, <1>3 DEF CloseIme, CaptureEnd, SessionFlags, PortOwnership, port
<1>4. ASSUME NEW ok, ToggleIme(ok), UNCHANGED found_mask
      PROVE  Flags'
  <2>1. CASE CloseIme(ok)
    BY <1>3, <1>4, <2>1
  <2>2. CASE ~CloseIme(ok)
    BY <1>0, <1>4, <2>2 DEF ToggleIme, SessionFlags, PortOwnership, port
  <2>. QED  BY <2>1, <2>2
<1>5. ASSUME UNCHANGED <<session, port, found_mask>>
      PROVE  Flags'
  BY <1>0, <1>5 DEF SessionFlags, PortOwnership, session, port
<1>6. ASSUME Answered, UNCHANGED <<port, found_mask>>
      PROVE  Flags'
  BY <1>0, <1>6 DEF Answered, SessionFlags, PortOwnership, port
<1>7. ASSUME NEW ok, ServiceHotkey(ok)
      PROVE  FlagsInv'
  BY <1>4, <1>7, EnterHasWorkPrimed DEF ServiceHotkey, FlagsInv
<1>8. CASE ServiceQuiet \/ PollDone \/ InjectStall \/ InjectKeyFull
  <2>1. Flags'
    BY <1>5, <1>8 DEF ServiceQuiet, PollDone, InjectStall, InjectKeyFull
  <2>2. UNCHANGED <<link_state, open_pending, ime_active>>
    BY <1>8 DEF ServiceQuiet, PollDone, InjectStall, InjectKeyFull, session
  <2>3. PhaseHasWork'
    BY <1>8, <2>2, EnterHasWork
       DEF ServiceQuiet, PollDone, InjectStall, InjectKeyFull, PhaseHasWork
  <2>. QED  BY <2>1, <2>3 DEF FlagsInv
<1>9. ASSUME NEW p, NEW ok, PollPacket(p, ok)
      PROVE  FlagsInv'
  <2>0. link_state # "CLOSED" /\ ime_enabled /\ UNCHANGED found_mask
    BY <1>9 DEF PollPacket, FlagsInv, PhaseHasWork, SessionFlags
  <2>1. ASSUME HandlePong(p, ok)
        PROVE  Flags'
    <3>1. ASSUME SendOpenIme(ok)
          PROVE  Flags'
      BY <1>2, <2>0, <3>1
    <3>2. ASSUME ~open_pending
          PROVE  Flags'
      BY <1>0, <2>0, <2>1, <3>2
         DEF HandlePong, SessionFlags, PortOwnership, port
    <3>. QED  BY <2>1, <3>1, <3>2 DEF HandlePong
  <2>2. ASSUME HandleText(p) \/ HandleKey(p)
        PROVE  Flags'
    <3>1. /\ UNCHANGED <<link_state, open_pending, ime_active, ime_enabled>>
          /\ UNCHANGED <<serial_opened, irq_capture, pic_mask, saved_pic_mask>>
      BY <2>2 DEF HandleText, HandleKey, port
    <3>. QED  BY <1>0, <2>0, <3>1 DEF SessionFlags, PortOwnership
  <2>3. ASSUME HandleClose(p, ok)
        PROVE  Flags'
    BY <1>3, <2>0, <2>3 DEF HandleClose
  <2>4. ASSUME HandleOther(p)
        PROVE  Flags'
    BY <1>5, <2>0, <2>4 DEF HandleOther
  <2>5. Flags'
    BY <1>9, <2>1, <2>2, <2>3, <2>4 DEF PollPacket
  <2>6. PhaseHasWork'
    <3>1. CASE link_state' = "CLOSED"
      BY <1>9, <3>1, EnterHasWorkPrimed DEF PollPacket
    <3>2. CASE link_state' # "CLOSED"
      BY <1>9, <3>2 DEF PollPacket, PhaseHasWork
    <3>. QED  BY <3>1, <3>2
  <2>. QED  BY <2>5, <2>6 DEF FlagsInv
<1>10. CASE InjectWord
  BY <1>5, <1>10 DEF InjectWord, FlagsInv, PhaseHasWork
<1>11. ASSUME NEW ok, InjectFinish(ok) \/ InjectKey(ok)
       PROVE  FlagsInv'
  BY <1>6, <1>11, EnterHasWorkPrimed DEF InjectFinish, InjectKey, FlagsInv
<1>12. ASSUME NEW ok, OpenSession(ok)
       PROVE  FlagsInv'
  <2>1. ime_enabled
    BY <1>12 DEF OpenSession, FlagsInv, SessionFlags
  <2>2. Flags'
    BY <1>2, <1>12, <2>1 DEF OpenSession
  <2>. QED  BY <1>12, <2>2, EnterHasWorkPrimed DEF OpenSession, FlagsInv
<1>13. ASSUME NEW ok, StartLink(ok)
       PROVE  FlagsInv'
  <2>1. SessionFlags'
    BY <1>0, <1>13 DEF StartLink, SessionFlags, FlagsInv, PhaseHasWork
  <2>2. PortOwnership'
    BY <1>0, <1>13 DEF StartLink, PortOwnership
  <2>3. PhaseHasWork'
    BY <1>13, EnterHasWorkPrimed DEF StartLink
  <2>. QED  BY <2>1, <2>2, <2>3 DEF FlagsInv
<1>14. CASE Tick
  BY <1>0, <1>14
     DEF Tick, Enter, FlagsInv, SessionFlags, PortOwnership, PhaseHasWork, port
<1>15. CASE Timeout
  <2>1. PortOwnership'
    BY <1>1, <1>15 DEF Timeout
  <2>2. SessionFlags' /\ PhaseHasWork'
    BY <1>15 DEF Timeout, ResetLink, Enter, SessionFlags, PhaseHasWork
  <2>. QED  BY <2>1, <2>2 DEF FlagsInv
<1>16. CASE \/ HotkeyPress \/ HotkeyRelease \/ AppRead
            \/ (\E w \in UserWords : KeyPress(w)) \/ UNCHANGED vars
  <2>1. UNCHANGED <<session, port, found_mask, pc>>
    BY <1>16, Zenon DEF HotkeyPress, HotkeyRelease, AppRead, KeyPress, vars
  <2>2. PhaseHasWork'
    BY <2>1 DEF session, FlagsInv, PhaseHasWork
  <2>. QED  BY <1>5, <2>1, <2>2 DEF FlagsInv
<1>17. ASSUME NEW ok, ReturnedHotkey(ok)
       PROVE  FlagsInv'
  BY <1>4, <1>17 DEF ReturnedHotkey, FlagsInv, PhaseHasWork
<1>. QED
  BY <1>7, <1>8, <1>9, <1>10, <1>11, <1>12, <1>13, <1>14, <1>15, <1>16, <1>17,
     Zenon DEF Next, Worker, Receive, User, App

LEMMA FlagsInvariant == Spec => []FlagsInv
<1>1. Init => FlagsInv
  BY DEF Init, FlagsInv, SessionFlags, PortOwnership, PhaseHasWork
<1>. QED  BY <1>1, FlagsInvStep, TypeCorrect, PTL DEF Spec

(* The toggle, the wish to open and the session agree in every state. *)
THEOREM FlagsAgree == Spec => []SessionFlags
<1>1. FlagsInv => SessionFlags
  BY DEF FlagsInv
<1>. QED  BY <1>1, FlagsInvariant, PTL

(* The PIC mask and the receive interrupt are given back on every path that
   ends a link. *)
THEOREM PortGivenBack == Spec => []PortOwnership
<1>1. FlagsInv => PortOwnership
  BY DEF FlagsInv
<1>. QED  BY <1>1, FlagsInvariant, PTL

-----------------------------------------------------------------------------
(* The injection *)

(* A text that has just been staged, or none, is in order. *)
LEMMA FreshInOrder ==
  ASSUME injected' = << >>, pending_offset' = 0, pending_text' \in Seq(Nat)
  PROVE  InjectedInOrder'
BY DEF InjectedInOrder, QueuedInOrder, UnitStarts

LEMMA InOrderStep == TypeOK /\ InjectedInOrder /\ [Next]_vars => InjectedInOrder'
<1> SUFFICES ASSUME TypeOK, InjectedInOrder, [Next]_vars
             PROVE  InjectedInOrder'
  OBVIOUS
<1>0. StagedTyped
  BY TypeParts
<1>1. ASSUME UNCHANGED <<pending_text, pending_offset, injected>>
      PROVE  InjectedInOrder'
  BY <1>1 DEF InjectedInOrder
<1>2. ASSUME NEW ok, CloseIme(ok)
      PROVE  InjectedInOrder'
  BY <1>2, FreshInOrder DEF CloseIme
<1>3. ASSUME NEW ok, ServiceHotkey(ok) \/ ReturnedHotkey(ok)
      PROVE  InjectedInOrder'
  BY <1>1, <1>2, <1>3, Zenon DEF ServiceHotkey, ReturnedHotkey, ToggleIme, staged
<1>4. ASSUME NEW p \in Packets, NEW ok, PollPacket(p, ok)
      PROVE  InjectedInOrder'
  <2>1. CASE HandleText(p)
    BY <2>1, FreshInOrder, PacketAssumption DEF HandleText
  <2>2. CASE HandleClose(p, ok)
    BY <1>2, <2>2 DEF HandleClose
  <2>3. CASE HandlePong(p, ok) \/ HandleKey(p) \/ HandleOther(p)
    BY <1>1, <2>3, Zenon DEF HandlePong, HandleKey, HandleOther, staged
  <2>. QED  BY <1>4, <2>1, <2>2, <2>3, Zenon DEF PollPacket
<1>5. CASE InjectWord
  <2>1. pending_offset \in 0 .. Len(pending_text) - 1
    BY <1>0, <1>5 DEF InjectWord, StagedTyped
  <2>2. /\ pending_text' = pending_text
        /\ pending_offset' = UnitEnd(pending_text, pending_offset + 1)
        /\ injected' = Append(injected, pending_offset + 1)
    BY <1>5 DEF InjectWord
  <2>3. pending_text \in Seq(Nat) /\ injected \in Seq(Nat)
    BY <1>0 DEF StagedTyped
  <2>. QED  BY <2>1, <2>2, <2>3, QueueNextUnit DEF InjectedInOrder
<1>6. ASSUME NEW ok, InjectFinish(ok)
      PROVE  InjectedInOrder'
  BY <1>6, FreshInOrder DEF InjectFinish
<1>7. ASSUME NEW ok, \/ InjectKey(ok) \/ OpenSession(ok) \/ StartLink(ok)
      PROVE  InjectedInOrder'
  BY <1>1, <1>7, Zenon DEF InjectKey, OpenSession, StartLink, staged
<1>8. CASE \/ ServiceQuiet \/ PollDone \/ InjectStall \/ InjectKeyFull \/ Tick
           \/ Timeout \/ HotkeyPress \/ HotkeyRelease \/ AppRead
           \/ (\E w \in UserWords : KeyPress(w)) \/ UNCHANGED vars
  BY <1>1, <1>8, Zenon
     DEF ServiceQuiet, PollDone, InjectStall, InjectKeyFull, Tick, Timeout,
         HotkeyPress, HotkeyRelease, AppRead, KeyPress, staged, vars
<1>. QED
  BY <1>3, <1>4, <1>5, <1>6, <1>7, <1>8, Zenon DEF Next, Worker, Receive, User, App

(* Batches, stalls and foreign keys in between never make the worker skip,
   repeat or reorder a unit of the staged text. *)
THEOREM InjectionInOrder == Spec => []InjectedInOrder
<1>1. Init => InjectedInOrder
  BY DEF Init, InjectedInOrder, QueuedInOrder, UnitStarts
<1>. QED  BY <1>1, InOrderStep, TypeCorrect, PTL DEF Spec

-----------------------------------------------------------------------------
(* Acknowledgements *)

(* The one packet a step may put on the wire has the type it was built with
   or is a broken one. *)
LEMMA TransmitType ==
  ASSUME NEW type, NEW seq, NEW ok, NEW other,
         Transmit(Packet(type, seq, << >>), ok), Sends(other)
  PROVE  other = type \/ other = "BROKEN"
BY DEF Transmit, Packet, Broken, Sends

(* Which actions send what. *)
LEMMA SenderOf ==
  ASSUME Next
  PROVE  /\ Sends("TEXT_ACK") => \E ok \in TxOutcomes : InjectFinish(ok)
         /\ Sends("KEY_ACK") => \E ok \in TxOutcomes : InjectKey(ok)
         /\ Sends("OPEN_IME") =>
              \E ok \in TxOutcomes :
                 \/ OpenSession(ok)
                 \/ \E p \in Packets : PollPacket(p, ok) /\ HandlePong(p, ok)
<1> DEFINE Acks == Sends("TEXT_ACK") \/ Sends("KEY_ACK")
<1>1. ASSUME tx' = << >>
      PROVE  ~Acks /\ ~Sends("OPEN_IME")
  BY <1>1 DEF Sends
<1>2. ASSUME NEW ok, SendOpenIme(ok)
      PROVE  ~Acks
  BY <1>2, TransmitType DEF SendOpenIme
<1>3. ASSUME NEW ok, CloseIme(ok)
      PROVE  ~Acks /\ ~Sends("OPEN_IME")
  BY <1>1, <1>3, TransmitType DEF CloseIme
<1>4. ASSUME NEW ok, ServiceHotkey(ok) \/ ReturnedHotkey(ok)
      PROVE  ~Acks /\ ~Sends("OPEN_IME")
  BY <1>1, <1>3, <1>4, Zenon DEF ServiceHotkey, ReturnedHotkey, ToggleIme
<1>5. ASSUME NEW p, NEW ok, PollPacket(p, ok)
      PROVE  ~Acks /\ (Sends("OPEN_IME") => HandlePong(p, ok))
  <2>1. CASE HandlePong(p, ok)
    BY <1>1, <1>2, <2>1, Zenon DEF HandlePong
  <2>2. CASE HandleText(p) \/ HandleKey(p) \/ HandleOther(p)
    BY <1>1, <2>2, Zenon DEF HandleText, HandleKey, HandleOther
  <2>3. CASE HandleClose(p, ok)
    BY <1>3, <2>3, Zenon DEF HandleClose
  <2>. QED  BY <1>5, <2>1, <2>2, <2>3, Zenon DEF PollPacket
<1>6. ASSUME NEW ok, InjectFinish(ok)
      PROVE  ~Sends("KEY_ACK") /\ ~Sends("OPEN_IME")
  BY <1>6, TransmitType DEF InjectFinish
<1>7. ASSUME NEW ok, InjectKey(ok)
      PROVE  ~Sends("TEXT_ACK") /\ ~Sends("OPEN_IME")
  BY <1>7, TransmitType DEF InjectKey
<1>8. ASSUME NEW ok, OpenSession(ok)
      PROVE  ~Acks
  BY <1>2, <1>8, Zenon DEF OpenSession
<1>9. ASSUME NEW ok, StartLink(ok)
      PROVE  ~Acks /\ ~Sends("OPEN_IME")
  BY <1>9 DEF StartLink, Sends, Packet, Broken
<1>10. CASE \/ ServiceQuiet \/ PollDone \/ InjectWord \/ InjectStall
            \/ InjectKeyFull \/ Tick \/ Timeout \/ HotkeyPress \/ HotkeyRelease
            \/ AppRead \/ \E w \in UserWords : KeyPress(w)
  BY <1>1, <1>10, Zenon
     DEF ServiceQuiet, PollDone, InjectWord, InjectStall, InjectKeyFull, Tick,
         Timeout, HotkeyPress, HotkeyRelease, AppRead, KeyPress
<1>. QED
  BY <1>4, <1>5, <1>6, <1>7, <1>8, <1>9, <1>10, Zenon
     DEF Next, Worker, Receive, User, App

(* TEXT_ACK means the whole text is in the BIOS queue. *)
THEOREM AckMeansComplete == Spec => AckComplete
<1> DEFINE Complete ==
             Sends("TEXT_ACK") =>
               {injected[n] : n \in DOMAIN injected} = UnitStarts(pending_text)
<1>1. TypeOK /\ InjectedInOrder /\ [Next]_vars => [Complete]_vars
  <2> SUFFICES ASSUME TypeOK, InjectedInOrder, Next, Sends("TEXT_ACK")
               PROVE  {injected[n] : n \in DOMAIN injected} =
                        UnitStarts(pending_text)
    OBVIOUS
  <2>1. PICK ok : InjectFinish(ok)
    BY SenderOf
  <2>2. pending_offset = Len(pending_text)
    BY <2>1, TypeParts DEF InjectFinish, StagedTyped
  <2>3. {i \in UnitStarts(pending_text) : i <= pending_offset} =
          UnitStarts(pending_text)
    BY <2>2 DEF UnitStarts
  <2>. QED  BY <2>3 DEF InjectedInOrder, QueuedInOrder
<1>. QED  BY <1>1, TypeCorrect, InjectionInOrder, PTL DEF Spec, AckComplete

-----------------------------------------------------------------------------
(* The session of the staged input, when a host sends one TEXT or KEY for   *)
(* each OPEN_IME                                                            *)

(* An injection phase is entered with something to inject, and two inputs
   are staged at once only if a timeout left the first behind. *)
InputHasWork ==
  /\ pc = "text" => pending_text # << >>
  /\ pc = "key" => pending_key # NoKey
  /\ pending_text # << >> /\ pending_key # NoKey => abandoned

SessionInv == StagedInSession /\ InputHasWork

(* Entering an injection phase by its condition. *)
LEMMA EnterHasInput ==
  ASSUME NEW phase \in {FromTick, FromOpen, FromKey, FromText, FromPoll},
         Enter(phase)
  PROVE  (pc' = "text" => pending_text # << >>) /\ (pc' = "key" => pending_key # NoKey)
BY DEF Enter, FromTick, FromOpen, FromKey, FromText, FromPoll

LEMMA EnterHasInputPrimed ==
  ASSUME NEW phase \in {FromTick', FromOpen', FromKey', FromText', FromPoll'},
         Enter(phase)
  PROVE  (pc' = "text" => pending_text' # << >>) /\ (pc' = "key" => pending_key' # NoKey)
BY DEF Enter, FromTick, FromOpen, FromKey, FromText, FromPoll

(* What the staging buffer and the session need, without the phases. *)
StagedApart == pending_text # << >> /\ pending_key # NoKey => abandoned

(* The steps in which no second input of an OPEN_IME arrives. *)
NextOnce ==
  \/ Worker
  \/ \E p \in Packets, ok \in TxOutcomes : PollPacket(p, ok) /\ ~SecondInput(p)
  \/ User
  \/ App

LEMMA SessionInvStep ==
  ASSUME TypeOK, FlagsInv, SessionInv, [NextOnce]_vars
  PROVE  SessionInv'
<1> DEFINE Inv == StagedInSession /\ StagedApart
<1>0. Inv /\ abandoned \in BOOLEAN
  BY DEF SessionInv, InputHasWork, StagedApart, TypeOK
<1>a. ASSUME UNCHANGED <<staged, ime_active, open_sequence>>
      PROVE  Inv'
  BY <1>0, <1>a DEF staged, StagedInSession, StagedApart, Staged
<1>b. ASSUME NEW ok, CloseIme(ok)
      PROVE  Inv'
  BY <1>b DEF CloseIme, StagedInSession, StagedApart, Staged
<1>c. ASSUME UNCHANGED staged, ~ime_active
      PROVE  Inv'
  BY <1>0, <1>c DEF staged, StagedInSession, StagedApart, Staged
<1>d. ASSUME NEW phase \in {FromTick', FromOpen', FromKey', FromText', FromPoll'},
             Enter(phase), Inv'
      PROVE  SessionInv'
  BY <1>d, EnterHasInputPrimed DEF SessionInv, InputHasWork, StagedApart
<1>1. ASSUME NEW ok, ToggleIme(ok)
      PROVE  Inv'
  BY <1>a, <1>b, <1>1 DEF ToggleIme
<1>2. ASSUME NEW ok, ServiceHotkey(ok)
      PROVE  SessionInv'
  BY <1>d, <1>1, <1>2 DEF ServiceHotkey
<1>3. CASE ServiceQuiet \/ PollDone \/ InjectStall \/ InjectKeyFull
  <2>1. Inv' /\ UNCHANGED <<pending_text, pending_key>>
    BY <1>3, <1>a DEF ServiceQuiet, PollDone, InjectStall, InjectKeyFull, session,
                      staged
  <2>2. (pc' = "text" => pending_text # << >>) /\ (pc' = "key" => pending_key # NoKey)
    BY <1>3, EnterHasInput DEF ServiceQuiet, PollDone, InjectStall, InjectKeyFull
  <2>. QED  BY <2>1, <2>2 DEF SessionInv, InputHasWork, StagedApart
<1>4. ASSUME NEW p, NEW ok, PollPacket(p, ok), ~SecondInput(p)
      PROVE  SessionInv'
  <2>0. ~SecondInput(p)
    BY <1>4
  <2>1. ASSUME HandlePong(p, ok)
        PROVE  Inv'
    <3>1. ~ime_active
      BY <2>1 DEF HandlePong, IsPong, FlagsInv, SessionFlags
    <3>. QED  BY <1>c, <2>1, <3>1, Zenon DEF HandlePong
  <2>2. ASSUME HandleText(p)
        PROVE  Inv'
    <3>1. ime_active /\ p.seq = open_sequence /\ pending_sequence # open_sequence
      BY <2>0, <2>2 DEF HandleText, IsText, ForSession, SecondInput
    <3>2. Staged => abandoned
      BY <1>0, <3>1 DEF StagedInSession
    <3>3. UNCHANGED <<ime_active, open_sequence>> /\ pending_sequence' = open_sequence
      BY <2>2, <3>1, Zenon DEF HandleText
    <3>4. StagedApart'
      BY <1>0, <2>2, <3>2, Zenon DEF HandleText, StagedApart, Staged
    <3>. QED  BY <3>1, <3>3, <3>4, Zenon DEF StagedInSession
  <2>3. ASSUME HandleKey(p)
        PROVE  Inv'
    <3>1. ime_active /\ p.seq = open_sequence /\ pending_sequence # open_sequence
      BY <2>0, <2>3 DEF HandleKey, IsKey, ForSession, SecondInput
    <3>2. Staged => abandoned
      BY <1>0, <3>1 DEF StagedInSession
    <3>3. UNCHANGED <<ime_active, open_sequence>> /\ pending_sequence' = open_sequence
      BY <2>3, <3>1, Zenon DEF HandleKey
    <3>4. StagedApart'
      BY <1>0, <2>3, <3>2, Zenon DEF HandleKey, StagedApart, Staged
    <3>. QED  BY <3>1, <3>3, <3>4, Zenon DEF StagedInSession
  <2>4. ASSUME HandleClose(p, ok)
        PROVE  Inv'
    BY <1>b, <2>4, Zenon DEF HandleClose
  <2>5. ASSUME HandleOther(p)
        PROVE  Inv'
    BY <1>a, <2>5, Zenon DEF HandleOther, session
  <2>6. Inv'
    BY <1>4, <2>1, <2>2, <2>3, <2>4, <2>5, Zenon DEF PollPacket
  <2>7. CASE link_state' = "CLOSED"
    BY <1>4, <1>d, <2>6, <2>7 DEF PollPacket
  <2>8. CASE link_state' # "CLOSED"
    BY <1>4, <2>6, <2>8 DEF PollPacket, SessionInv, InputHasWork, StagedApart
  <2>. QED  BY <2>7, <2>8
<1>5. CASE InjectWord
  BY <1>0, <1>5
     DEF InjectWord, session, SessionInv, InputHasWork, StagedInSession, Staged
<1>6. ASSUME NEW ok, InjectFinish(ok)
      PROVE  SessionInv'
  <2>1. pending_text # << >>
    BY <1>6 DEF InjectFinish, SessionInv, InputHasWork
  <2>2. Inv'
    BY <1>0, <1>6, <2>1 DEF InjectFinish, StagedInSession, StagedApart, Staged
  <2>. QED  BY <1>6, <1>d, <2>2 DEF InjectFinish
<1>7. ASSUME NEW ok, InjectKey(ok)
      PROVE  SessionInv'
  <2>1. pending_key # NoKey
    BY <1>7 DEF InjectKey, SessionInv, InputHasWork
  <2>2. Inv'
    BY <1>0, <1>7, <2>1 DEF InjectKey, StagedInSession, StagedApart, Staged
  <2>. QED  BY <1>7, <1>d, <2>2 DEF InjectKey
<1>8. ASSUME NEW ok, OpenSession(ok) \/ StartLink(ok)
      PROVE  SessionInv'
  <2>1. ~ime_active
    BY <1>8 DEF OpenSession, StartLink, FlagsInv, PhaseHasWork
  <2>2. Inv'
    BY <1>8, <1>c, <2>1 DEF OpenSession, StartLink
  <2>. QED  BY <1>8, <1>d, <2>2 DEF OpenSession, StartLink
<1>9. CASE Tick
  BY <1>9, <1>a DEF Tick, Enter, SessionInv, InputHasWork, StagedApart
<1>10. CASE Timeout
  BY <1>10 DEF Timeout, Enter, SessionInv, StagedInSession, InputHasWork, Staged
<1>11. CASE \/ HotkeyPress \/ HotkeyRelease \/ AppRead
            \/ (\E w \in UserWords : KeyPress(w)) \/ UNCHANGED vars
  <2>1. UNCHANGED <<session, staged, pc>>
    BY <1>11, Zenon DEF HotkeyPress, HotkeyRelease, AppRead, KeyPress, vars
  <2>. QED
    BY <2>1 DEF session, staged, SessionInv, StagedInSession, InputHasWork, Staged
<1>12. ASSUME NEW ok, ReturnedHotkey(ok)
       PROVE  SessionInv'
  BY <1>12, <1>1 DEF ReturnedHotkey, SessionInv, InputHasWork, StagedApart
<1>. QED
  BY <1>2, <1>3, <1>4, <1>5, <1>6, <1>7, <1>8, <1>9, <1>10, <1>11, <1>12, Zenon
     DEF NextOnce, Worker, User, App

LEMMA SessionInit == Init => SessionInv
BY DEF Init, SessionInv, StagedInSession, InputHasWork, Staged

LEMMA SessionInvariant == ASSUME OneOutstanding PROVE Spec => []SessionInv
<1>1. [Next]_vars => [NextOnce]_vars
  <2> SUFFICES ASSUME Receive PROVE NextOnce
    BY Zenon DEF Next, NextOnce
  <2>1. PICK p \in Packets, ok \in TxOutcomes : PollPacket(p, ok)
    BY DEF Receive
  <2>2. ~SecondInput(p)
    BY <2>1, Zenon DEF PollPacket
  <2>. QED  BY <2>1, <2>2, Zenon DEF NextOnce
<1>2. TypeOK /\ FlagsInv /\ SessionInv /\ [NextOnce]_vars => SessionInv'
  BY SessionInvStep
<1>. QED
  BY <1>1, <1>2, SessionInit, TypeCorrect, FlagsInvariant, PTL DEF Spec

(* No text or key of a closed session waits in the staging buffer, leftovers
   of a response timeout apart (foreground.c:143-180, 276-308). *)
THEOREM InputStaysInSession ==
  ASSUME OneOutstanding PROVE Spec => []StagedInSession
<1>1. SessionInv => StagedInSession
  BY DEF SessionInv
<1>. QED  BY <1>1, SessionInvariant, PTL

(* The bodies of AckInSession and OpenAfterAnswer. *)
AcksOpen ==
  Sends("TEXT_ACK") \/ Sends("KEY_ACK") =>
    abandoned \/ (ime_active /\ tx'[1].seq = open_sequence)

OpensAlone == Sends("OPEN_IME") => ~Staged \/ abandoned

LEMMA AcksOpenStep == SessionInv /\ [Next]_vars => [AcksOpen]_vars
<1> SUFFICES ASSUME SessionInv, Next, Sends("TEXT_ACK") \/ Sends("KEY_ACK"),
                    ~abandoned
             PROVE  ime_active /\ tx'[1].seq = open_sequence
  BY DEF AcksOpen
<1>1. CASE Sends("TEXT_ACK")
  <2>1. PICK ok : InjectFinish(ok)
    BY <1>1, SenderOf
  <2>2. ime_active /\ pending_sequence = open_sequence
    BY <2>1 DEF InjectFinish, SessionInv, StagedInSession, InputHasWork, Staged
  <2>. QED
    BY <1>1, <2>1, <2>2 DEF InjectFinish, Transmit, Packet, Broken, Sends
<1>2. CASE Sends("KEY_ACK")
  <2>1. PICK ok : InjectKey(ok)
    BY <1>2, SenderOf
  <2>2. ime_active /\ pending_sequence = open_sequence
    BY <2>1 DEF InjectKey, SessionInv, StagedInSession, InputHasWork, Staged
  <2>. QED
    BY <1>2, <2>1, <2>2 DEF InjectKey, Transmit, Packet, Broken, Sends
<1>. QED  BY <1>1, <1>2

LEMMA OpensAloneStep == FlagsInv /\ SessionInv /\ [Next]_vars => [OpensAlone]_vars
<1> SUFFICES ASSUME FlagsInv, SessionInv, Next, Sends("OPEN_IME")
             PROVE  ~Staged \/ abandoned
  BY DEF OpensAlone
<1>1. PICK ok : \/ OpenSession(ok)
                \/ \E p \in Packets : PollPacket(p, ok) /\ HandlePong(p, ok)
  BY SenderOf
<1>2. CASE OpenSession(ok)
  BY <1>2 DEF OpenSession, FlagsInv, PhaseHasWork, SessionInv, StagedInSession
<1>3. CASE \E p \in Packets : HandlePong(p, ok)
  BY <1>3
     DEF HandlePong, IsPong, FlagsInv, SessionFlags, SessionInv, StagedInSession
<1>. QED  BY <1>1, <1>2, <1>3

(* Whatever the user, the host and the line do, an ACK carries the number of
   the OPEN_IME that is out (foreground.c:290, 303). *)
THEOREM AcksStayInSession ==
  ASSUME OneOutstanding PROVE Spec => AckInSession
<1>1. AckInSession <=> [][AcksOpen]_vars
  BY DEF AckInSession, AcksOpen
<1>. QED  BY <1>1, AcksOpenStep, SessionInvariant, PTL DEF Spec

(* A new OPEN_IME never overtakes input of the last one (foreground.c:141-142,
   378-380). *)
THEOREM OpensAfterAnswer ==
  ASSUME OneOutstanding PROVE Spec => OpenAfterAnswer
<1>1. OpenAfterAnswer <=> [][OpensAlone]_vars
  BY DEF OpenAfterAnswer, OpensAlone
<1>. QED
  BY <1>1, OpensAloneStep, FlagsInvariant, SessionInvariant, PTL DEF Spec

=============================================================================
