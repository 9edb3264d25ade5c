------------------------- MODULE CompositionProofs -------------------------
(***************************************************************************)
(* Theorems about the worker of TsrWorker.tla in its two surroundings: the *)
(* interrupt hooks that run it (InputHook.tla), and the Windows bridge at  *)
(* the other end of the line (BridgeSystem.tla).                           *)
(***************************************************************************)
EXTENDS InputHook, BridgeSystem, TsrWorkerProofs, SequenceTheorems

-----------------------------------------------------------------------------
(* The hooks run the worker as TsrWorker.tla says *)

(* A step of the hooks, seen from the worker. *)
LEMMA HookStep == [HookNext]_hookVars => [Next]_vars
<1> SUFFICES ASSUME HookNext
             PROVE  Next \/ UNCHANGED vars
  BY Zenon DEF hookVars
<1>1. CASE WorkerSteps
  BY <1>1, Zenon DEF WorkerSteps, StartWorker, RunWorker, EndWorker, Next, Worker
<1>2. CASE CallSteps
  BY <1>2, Zenon
     DEF CallSteps, BiosReadsKey, BiosReadsHotkey, BiosSensesHotkey, BiosReturns,
         LoopFindsNothing, LoopHalts, LoopDequeues, Next, App
<1>3. CASE (\E ah \in AppCalls : Int18(ah)) \/ Com1Irq
  BY <1>3, Zenon DEF Int18, Com1Irq
<1>4. CASE KeyboardIrq
  BY <1>4, Zenon DEF KeyboardIrq, Next
<1>. QED  BY <1>1, <1>2, <1>3, <1>4, Zenon DEF HookNext

(* Driven by INT 18h, by receive interrupts and by the wait loop, the worker
   behaves as TsrWorker.tla specifies it, so its theorems hold there
   (tsr_hook.S:62-222). *)
THEOREM HooksImplementWorker == HookSpec => Spec
<1>1. HookInit => Init
  BY DEF HookInit
<1>. QED  BY <1>1, HookStep, PTL DEF HookSpec, Spec

-----------------------------------------------------------------------------
(* No sleep on input *)

(* While a call of the worker runs on an empty BIOS queue, staged input is
   still ahead of it, leftovers of a timeout apart. *)
Serves ==
  kbd = << >> =>
    /\ pc = "text" => budget > 0
    /\ pc = "key" => pending_text = << >>
    /\ pc \in {"open", "tick", "idle"} => (Staged => abandoned)

(* Nothing but an abandoned input is staged in front of an empty queue when
   the wait loop comes to its check, and nothing runs between that check
   and the end of the sleep. *)
SleepInv ==
  /\ job = "run" => Serves
  /\ job # "run" => pc = "idle"
  /\ fg \in {"drowsy", "halt"} => job = "none" /\ kbd = << >>
  /\ fg \in {"wait", "drowsy", "halt"} /\ job = "none" /\ kbd = << >> =>
       (Staged => abandoned)

(* Entering a phase by its condition, before and after the step. *)
LEMMA EnterServes ==
  ASSUME NEW phase \in {FromTick, FromOpen, FromKey, FromText, FromPoll},
         Enter(phase)
  PROVE  /\ pc' = "text" => budget' > 0
         /\ phase \in {FromText, FromPoll} =>
              /\ pc' = "key" => pending_text = << >>
              /\ pc' \in {"open", "tick", "idle"} => ~Staged
         /\ phase = FromKey /\ pc' \in {"open", "tick", "idle"} => pending_key = NoKey
BY WorkerAssumption, SMTT(60)
   DEF Enter, BudgetOf, FromTick, FromOpen, FromKey, FromText, FromPoll, Staged

LEMMA EnterServesPrimed ==
  ASSUME NEW phase \in {FromTick', FromOpen', FromKey', FromText', FromPoll'},
         Enter(phase)
  PROVE  /\ pc' = "text" => budget' > 0
         /\ phase \in {FromText', FromPoll'} =>
              /\ pc' = "key" => pending_text' = << >>
              /\ pc' \in {"open", "tick", "idle"} => ~Staged'
         /\ phase = FromKey' /\ pc' \in {"open", "tick", "idle"} => pending_key' = NoKey
BY WorkerAssumption, SMTT(60)
   DEF Enter, BudgetOf, FromTick, FromOpen, FromKey, FromText, FromPoll, Staged

(* The first step of a call: the phase it enters has work if there is any. *)
LEMMA StartServes ==
  ASSUME ServiceQuiet \/ \E ok \in TxOutcomes : ServiceHotkey(ok)
  PROVE  Serves'
<1>1. CASE ServiceQuiet
  <2>1. UNCHANGED <<pending_text, pending_key, abandoned, kbd>> /\ Enter(FromPoll)
    BY <1>1, Zenon DEF ServiceQuiet, staged, keyboard
  <2>. QED  BY <2>1, EnterServes DEF Serves, Staged
<1>2. ASSUME NEW ok, ServiceHotkey(ok)
      PROVE  Serves'
  <2>1. Enter(FromPoll')
    BY <1>2, Zenon DEF ServiceHotkey
  <2>. QED  BY <2>1, EnterServesPrimed DEF Serves
<1>. QED  BY <1>1, <1>2

(* Every further step leaves the input to a later phase, moves a word of it
   into the queue, answers it or gives it up. *)
LEMMA RunServes ==
  ASSUME TypeOK, Serves, Worker \/ Receive, pc # "idle"
  PROVE  Serves'
<1>0. /\ kbd \in Seq(Nat) /\ budget \in Nat /\ abandoned \in BOOLEAN
      /\ KbCapacity \in Nat \ {0}
  BY WorkerAssumption DEF TypeOK
<1>1. ASSUME NEW p, NEW ok, PollPacket(p, ok)
      PROVE  Serves'
  <2>1. CASE link_state' = "CLOSED"
    <3>1. Enter(FromText')
      BY <1>1, <2>1 DEF PollPacket
    <3>. QED  BY <3>1, EnterServesPrimed DEF Serves
  <2>2. CASE link_state' # "CLOSED"
    BY <1>1, <2>2 DEF PollPacket, Serves
  <2>. QED  BY <2>1, <2>2
<1>2. CASE PollDone
  <2>1. UNCHANGED <<pending_text, pending_key, abandoned, kbd>> /\ Enter(FromText)
    BY <1>2, Zenon DEF PollDone, staged, keyboard
  <2>. QED  BY <2>1, EnterServes DEF Serves, Staged
<1>3. ASSUME NEW w, Kb!Put(w)
      PROVE  kbd' # << >>
  BY <1>0, <1>3 DEF Kb!Put
<1>4. CASE InjectWord
  BY <1>3, <1>4 DEF InjectWord, Serves
<1>5. CASE InjectStall \/ InjectKeyFull
  <2>1. kbd # << >> /\ UNCHANGED kbd
    BY <1>0, <1>5 DEF InjectStall, InjectKeyFull, Kb!Room, Serves, keyboard
  <2>. QED  BY <2>1 DEF Serves
<1>6. ASSUME NEW ok, InjectFinish(ok)
      PROVE  Serves'
  <2>1. /\ pending_text' = << >>
        /\ Enter(FromKey')
    BY <1>6, Zenon DEF InjectFinish
  <2>2. /\ pc' = "text" => budget' > 0
        /\ pc' \in {"open", "tick", "idle"} => pending_key' = NoKey
    BY <2>1, EnterServesPrimed
  <2>. QED  BY <2>1, <2>2 DEF Serves, Staged
<1>7. ASSUME NEW ok, InjectKey(ok)
      PROVE  Serves'
  BY <1>3, <1>7 DEF InjectKey, Serves
<1>8. ASSUME NEW ok, OpenSession(ok) \/ StartLink(ok)
      PROVE  Serves'
  <2>1. /\ UNCHANGED <<pending_text, pending_key, abandoned, kbd>>
        /\ Enter(FromTick') /\ pc = "open"
    BY <1>8, Zenon DEF OpenSession, StartLink, staged, keyboard
  <2>2. pc' \in {"tick", "idle"}
    BY <2>1 DEF Enter, FromTick
  <2>. QED  BY <2>1, <2>2 DEF Serves, Staged
<1>9. CASE Tick
  BY <1>9 DEF Tick, Enter, Serves, Staged, staged, keyboard
<1>10. CASE Timeout
  BY <1>10 DEF Timeout, Enter, Serves, Staged, keyboard
<1>. QED
  BY <1>1, <1>2, <1>4, <1>5, <1>6, <1>7, <1>8, <1>9, <1>10
     DEF Worker, Receive, ServiceQuiet, ServiceHotkey

(* The hotkey seen by a caller leaves nothing staged but what a timeout cut
   off: it closes the session, or none was open. *)
LEMMA HotkeyUnstages ==
  ASSUME SessionFlags, StagedInSession, NEW ok, ToggleIme(ok)
  PROVE  Staged' => abandoned'
<1>1. CASE CloseIme(ok)
  BY <1>1 DEF CloseIme, Staged
<1>2. CASE ~ime_enabled /\ UNCHANGED staged
  <2>1. ~ime_active
    BY <1>2 DEF SessionFlags
  <2>. QED  BY <1>2, <2>1 DEF StagedInSession, Staged, staged
<1>. QED  BY <1>1, <1>2, Zenon DEF ToggleIme

LEMMA SleepInvStep ==
  ASSUME TypeOK, SessionFlags, StagedInSession, SleepInv, [HookNext]_hookVars
  PROVE  SleepInv'
<1>1. CASE StartWorker
  <2>1. Serves' /\ job' = "run" /\ UNCHANGED fg
    BY <1>1, StartServes DEF StartWorker
  <2>2. fg \notin {"drowsy", "halt"}
    BY <1>1 DEF StartWorker, SleepInv
  <2>. QED  BY <2>1, <2>2 DEF SleepInv
<1>2. CASE RunWorker
  <2>1. Serves' /\ job' = "run" /\ job = "run" /\ UNCHANGED fg
    BY <1>2, RunServes DEF RunWorker, SleepInv
  <2>2. fg \notin {"drowsy", "halt"}
    BY <2>1 DEF SleepInv
  <2>. QED  BY <2>1, <2>2 DEF SleepInv
<1>3. CASE EndWorker
  <2>1. /\ job = "run" /\ pc = "idle" /\ job' = "none" /\ fg' \in {"bios", fg}
        /\ UNCHANGED <<kbd, pc, pending_text, pending_key, abandoned>>
    BY <1>3 DEF EndWorker, vars, staged, keyboard
  <2>2. fg \notin {"drowsy", "halt"}
    BY <2>1 DEF SleepInv
  <2>. QED  BY <2>1, <2>2 DEF SleepInv, Serves, Staged
<1>4. CASE \/ BiosReadsKey \/ BiosSensesHotkey \/ BiosReturns
           \/ (LoopDequeues /\ AppRead /\ fg' = "app")
  <2>1. fg' = "app" /\ job = "none" /\ UNCHANGED <<job, pc>>
    BY <1>4, Zenon
       DEF BiosReadsKey, BiosSensesHotkey, BiosReturns, LoopDequeues, InBios,
           AppRead, ReturnedHotkey, vars
  <2>. QED  BY <2>1 DEF SleepInv
<1>5. CASE \/ BiosReadsHotkey
           \/ (LoopDequeues /\ \E ok \in TxOutcomes : ReturnedHotkey(ok) /\ UNCHANGED fg)
  <2>1. PICK ok \in TxOutcomes : ReturnedHotkey(ok)
    BY <1>5, Zenon DEF BiosReadsHotkey, LoopDequeues
  <2>2. Staged' => abandoned'
    BY <2>1, HotkeyUnstages, Zenon DEF ReturnedHotkey
  <2>3. fg' \in {"app", "wait"} /\ job = "none" /\ UNCHANGED <<job, pc>>
    BY <1>5, <2>1 DEF BiosReadsHotkey, LoopDequeues, InBios, ReturnedHotkey
  <2>. QED  BY <2>2, <2>3 DEF SleepInv
<1>6. CASE LoopFindsNothing \/ LoopHalts
  <2>1. /\ fg \in {"wait", "drowsy"} /\ job = "none" /\ kbd = << >>
        /\ UNCHANGED <<kbd, pc, job, pending_text, pending_key, abandoned>>
    BY <1>6 DEF LoopFindsNothing, LoopHalts, SleepInv, vars, staged, keyboard
  <2>. QED  BY <2>1 DEF SleepInv, Staged
<1>7. CASE (\E ah \in AppCalls : Int18(ah)) \/ Com1Irq
  <2>1. /\ job = "none" /\ job' = "todo" /\ fg' \in {"pre", "wait", fg}
        /\ fg' \notin {"drowsy", "halt"} /\ UNCHANGED pc
    BY <1>7 DEF Int18, Com1Irq, Interruptible, Awake, vars
  <2>. QED  BY <2>1 DEF SleepInv
<1>8. CASE KeyboardIrq
  <2>1. /\ job = "none" /\ UNCHANGED <<job, pc, pending_text, pending_key, abandoned>>
        /\ fg' \notin {"drowsy", "halt"} /\ (fg' = "wait" => fg \in {"wait", "halt"})
    BY <1>8
       DEF KeyboardIrq, Interruptible, Awake, User, KeyPress, HotkeyPress,
           HotkeyRelease, staged
  <2>2. kbd' = << >> => kbd = << >>
    <3>1. kbd \in Seq(Nat)
      BY DEF TypeOK
    <3>. QED
      BY <1>8, <3>1
         DEF KeyboardIrq, User, KeyPress, HotkeyPress, HotkeyRelease, Kb!Put, Kb!Room
  <2>. QED  BY <2>1, <2>2 DEF SleepInv, Staged
<1>9. CASE UNCHANGED hookVars
  BY <1>9 DEF hookVars, vars, staged, keyboard, SleepInv, Serves, Staged
<1>. QED
  BY <1>1, <1>2, <1>3, <1>4, <1>5, <1>6, <1>7, <1>8, <1>9, Zenon
     DEF HookNext, WorkerSteps, CallSteps, LoopDequeues

(* The processor never sleeps on a key or on staged input, whatever the queue
   and the batch hold: CLI closes the gap between the check and HLT
   (tsr_hook.S:193-211). *)
THEOREM NeverSleepsOnInput ==
  ASSUME OneOutstanding PROVE HookSpec => []NoSleepOnInput
<1>1. HookInit => SleepInv
  BY DEF HookInit, Init, SleepInv
<1>2. TypeOK /\ SessionFlags /\ StagedInSession /\ SleepInv /\ [HookNext]_hookVars
        => SleepInv'
  BY SleepInvStep
<1>3. SleepInv => NoSleepOnInput
  BY DEF SleepInv, NoSleepOnInput
<1>. QED
  BY <1>1, <1>2, <1>3, HooksImplementWorker, TypeCorrect, FlagsAgree,
     InputStaysInSession, PTL DEF HookSpec

-----------------------------------------------------------------------------
(* The bridge at the other end                                             *)

(* What the PC-98 may have on its way to the bridge. *)
Uplinks ==
  [type : {"HELLO", "OPEN_IME", "CLOSE_IME", "TEXT_ACK", "KEY_ACK", "BROKEN"},
   seq : SeqNums, data : {<< >>}]

Asks(p) == p.type \in {"TEXT", "KEY"}
Opens(p) == p.type = "OPEN_IME"

(* A packet that makes the bridge ready or ends that, whatever it was. *)
Decides(p) == p.type \in {"OPEN_IME", "CLOSE_IME", "TEXT_ACK", "KEY_ACK"}

(* Everything on the two wires is well formed. *)
WireInv ==
  /\ toDos \in Seq(Packets) /\ toHost \in Seq(Uplinks)
  /\ openSequence \in SeqNums
  /\ input # << >> => \A seq \in SeqNums : Packet("TEXT", seq, input) \in Packets
  /\ sent \in Seq({FirstWord(p) : p \in {q \in Packets : Asks(q)}})

(* An OPEN_IME that goes out takes the next number. *)
FreshIfOpen(p) == Opens(p) => p.seq = Inc(sequence) /\ sequence' = Inc(sequence)

(* A step of the PC-98 transmits nothing or one packet; an OPEN_IME has a
   fresh number. *)
LEMMA TsrSends ==
  ASSUME TypeOK, Next
  PROVE  tx' = << >> \/ \E p \in Uplinks : tx' = <<p>> /\ FreshIfOpen(p)
<1> DEFINE Goal == tx' = << >> \/ \E p \in Uplinks : tx' = <<p>> /\ FreshIfOpen(p)
<1> USE DEF Uplinks, Opens, FreshIfOpen
<1>0. /\ sequence \in SeqNums /\ open_sequence \in SeqNums
      /\ pending_sequence \in SeqNums /\ Inc(sequence) \in SeqNums /\ 0 \in SeqNums
  BY IncIsSeqNum, WorkerAssumption DEF TypeOK, SeqNums
<1>a. ASSUME NEW type \in {"CLOSE_IME", "TEXT_ACK", "KEY_ACK"}, NEW seq \in SeqNums,
             NEW ok, Transmit(Packet(type, seq, << >>), ok)
      PROVE  Goal
  BY <1>0, <1>a DEF Transmit, Packet, Broken
<1>b. ASSUME NEW ok, SendOpenIme(ok)
      PROVE  Goal
  BY <1>0, <1>b DEF SendOpenIme, Transmit, Packet, Broken
<1>c. ASSUME NEW ok, CloseIme(ok)
      PROVE  Goal
  BY <1>0, <1>a, <1>c DEF CloseIme
<1>1. ASSUME NEW ok, ServiceHotkey(ok) \/ ReturnedHotkey(ok)
      PROVE  Goal
  BY <1>c, <1>1, Zenon DEF ServiceHotkey, ReturnedHotkey, ToggleIme
<1>2. ASSUME NEW p, NEW ok, PollPacket(p, ok)
      PROVE  Goal
  <2>1. CASE HandlePong(p, ok)
    BY <1>b, <2>1, Zenon DEF HandlePong
  <2>2. CASE HandleText(p) \/ HandleKey(p) \/ HandleOther(p)
    BY <2>2, Zenon DEF HandleText, HandleKey, HandleOther
  <2>3. CASE HandleClose(p, ok)
    BY <1>c, <2>3, Zenon DEF HandleClose
  <2>. QED  BY <1>2, <2>1, <2>2, <2>3, Zenon DEF PollPacket
<1>3. ASSUME NEW ok, InjectFinish(ok) \/ InjectKey(ok)
      PROVE  Goal
  BY <1>0, <1>a, <1>3 DEF InjectFinish, InjectKey
<1>4. ASSUME NEW ok, OpenSession(ok)
      PROVE  Goal
  BY <1>b, <1>4, Zenon DEF OpenSession
<1>5. ASSUME NEW ok, StartLink(ok)
      PROVE  Goal
  BY <1>0, <1>5 DEF StartLink, Packet, Broken
<1>6. CASE \/ ServiceQuiet \/ PollDone \/ InjectWord \/ InjectStall
           \/ InjectKeyFull \/ Tick \/ Timeout \/ HotkeyPress \/ HotkeyRelease
           \/ AppRead \/ \E w \in UserWords : KeyPress(w)
  BY <1>6, Zenon
     DEF ServiceQuiet, PollDone, InjectWord, InjectStall, InjectKeyFull, Tick,
         Timeout, HotkeyPress, HotkeyRelease, AppRead, KeyPress
<1>. QED
  BY <1>1, <1>2, <1>3, <1>4, <1>5, <1>6, Zenon DEF Next, Worker, Receive, User, App

(* The numbers move in two places only: a send takes the next one, and a
   received input leaves its own behind. *)
LEMMA TsrNumbers ==
  ASSUME Next
  PROVE  /\ sequence' \in {sequence, Inc(sequence)}
         /\ Worker \/ User \/ App => UNCHANGED pending_sequence
<1>1. ASSUME NEW ok, SendOpenIme(ok)
      PROVE  sequence' = Inc(sequence)
  BY <1>1, Zenon DEF SendOpenIme
<1>2. ASSUME NEW ok, CloseIme(ok)
      PROVE  UNCHANGED <<sequence, pending_sequence>>
  BY <1>2, Zenon DEF CloseIme
<1>3. ASSUME NEW ok, ServiceHotkey(ok) \/ ReturnedHotkey(ok)
      PROVE  UNCHANGED <<sequence, pending_sequence>>
  BY <1>2, <1>3, Zenon DEF ServiceHotkey, ReturnedHotkey, ToggleIme, staged
<1>4. ASSUME NEW p, NEW ok, PollPacket(p, ok)
      PROVE  sequence' \in {sequence, Inc(sequence)}
  BY <1>1, <1>2, <1>4, Zenon
     DEF PollPacket, HandlePong, HandleText, HandleKey, HandleClose, HandleOther,
         session
<1>5. ASSUME NEW ok, InjectFinish(ok) \/ InjectKey(ok)
      PROVE  UNCHANGED <<sequence, pending_sequence>>
  BY <1>5, Zenon DEF InjectFinish, InjectKey, Answered
<1>6. ASSUME NEW ok, OpenSession(ok) \/ StartLink(ok)
      PROVE  sequence' = Inc(sequence) /\ UNCHANGED pending_sequence
  BY <1>1, <1>6, Zenon DEF OpenSession, StartLink, staged
<1>7. CASE \/ ServiceQuiet \/ PollDone \/ InjectWord \/ InjectStall
           \/ InjectKeyFull \/ Tick \/ Timeout \/ HotkeyPress \/ HotkeyRelease
           \/ AppRead \/ \E w \in UserWords : KeyPress(w)
  BY <1>7, Zenon
     DEF ServiceQuiet, PollDone, InjectWord, InjectStall, InjectKeyFull, Tick,
         Timeout, HotkeyPress, HotkeyRelease, AppRead, KeyPress, session, staged
<1>. QED
  BY <1>3, <1>4, <1>5, <1>6, <1>7, Zenon DEF Next, Worker, Receive, User, App

LEMMA RestOfWire ==
  ASSUME NEW S, NEW s \in Seq(S), NEW n \in 1 .. Len(s)
  PROVE  LET rest == SubSeq(s, n + 1, Len(s))
         IN  /\ rest \in Seq(S) /\ Len(rest) = Len(s) - n
             /\ \A i \in 1 .. Len(rest) : i + n \in 1 .. Len(s) /\ rest[i] = s[i + n]
<1> DEFINE rest == SubSeq(s, n + 1, Len(s))
<1>1. Len(s) \in Nat /\ \A i \in n + 1 .. Len(s) : s[i] \in S
  OBVIOUS
<1>2. /\ rest \in Seq(S)
      /\ Len(rest) = IF n + 1 <= Len(s) THEN Len(s) - (n + 1) + 1 ELSE 0
      /\ \A i \in 1 .. Len(s) - (n + 1) + 1 : rest[i] = s[(n + 1) + i - 1]
  BY <1>1, SubSeqProperties
<1> HIDE DEF rest
<1>3. Len(rest) = Len(s) - n
  BY <1>1, <1>2
<1>4. ASSUME NEW i \in 1 .. Len(rest)
      PROVE  i + n \in 1 .. Len(s) /\ rest[i] = s[i + n]
  <2>1. /\ i \in 1 .. Len(s) - (n + 1) + 1 /\ (n + 1) + i - 1 = i + n
        /\ i + n \in 1 .. Len(s)
    BY <1>1, <1>3
  <2>. QED  BY <1>2, <2>1
<1>. QED  BY <1>2, <1>3, <1>4 DEF rest

(* What a step of the PC-98 leaves on the line: the wire as it was, or one
   more packet behind it. *)
LEMMA UplinkStep ==
  ASSUME TypeOK, WireInv, Next, Uplink
  PROVE  \/ UNCHANGED toHost
         \/ \E p \in Uplinks : toHost' = Append(toHost, p) /\ FreshIfOpen(p)
<1>1. toHost' = toHost \/ toHost' = toHost \o tx'
  BY DEF Uplink, Host!Carry
<1>2. toHost \in Seq(Uplinks)
  BY DEF WireInv
<1>3. CASE tx' = << >>
  BY <1>1, <1>2, <1>3
<1>4. ASSUME NEW p \in Uplinks, tx' = <<p>>
      PROVE  toHost' = toHost \/ toHost' = Append(toHost, p)
  BY <1>1, <1>2, <1>4
<1>. QED  BY <1>3, <1>4, TsrSends, Zenon

(* A step of the system, seen from the PC-98. *)
LEMMA SystemStep == WireInv /\ [SystemNext]_systemVars => [Next]_vars
<1> SUFFICES ASSUME WireInv, SystemNext
             PROVE  Next \/ UNCHANGED vars
  BY Zenon DEF systemVars
<1>1. CASE TsrReceives
  <2>1. Head(toDos) \in Packets
    BY <1>1 DEF TsrReceives, WireInv
  <2>. QED  BY <1>1, <2>1, Zenon DEF TsrReceives, Next, Receive
<1>2. CASE TsrStep \/ UserStroke \/ AppReads \/ KeyRelease
  BY <1>2, Zenon DEF TsrStep, UserStroke, AppReads, KeyRelease, Next, User, App
<1>3. CASE \/ ClosedPortLoses \/ HostReceives \/ HostSkipsFragment
           \/ HostRejectsFragment \/ HostConnects \/ LineBreaks \/ HostNoticesBreak
           \/ HostUser
  BY <1>3, Zenon
     DEF ClosedPortLoses, HostReceives, HostSkipsFragment, HostRejectsFragment,
         HostConnects, LineBreaks, HostNoticesBreak, HostUser
<1>. QED  BY <1>1, <1>2, <1>3, Zenon DEF SystemNext

(* What the bridge has to send is in Packets. *)
LEMMA NextInput ==
  ASSUME WireInv, NEW type, NextIs(type), NEW seq \in SeqNums
  PROVE  /\ type \in {"TEXT", "KEY"}
         /\ Packet(type, seq, NextData) \in Packets
         /\ type = "KEY" => <<NextData[1]>> = NextData
<1> DEFINE n == Len(sent) + 1
<1>1. n \in DOMAIN UserInputs /\ UserInputs[n].type = type
  <2>1. Len(sent) \in Nat /\ Len(UserInputs) \in Nat
    BY CarriedAssumption DEF WireInv
  <2>. QED  BY <2>1, CarriedAssumption DEF NextIs
<1>2. UserInputs[n] \in [type : {"TEXT", "KEY"}, data : Seq(Nat)]
  <2> DEFINE Inputs == [type : {"TEXT", "KEY"}, data : Seq(Nat)]
  <2>1. UserInputs \in Seq(Inputs)
    BY CarriedAssumption
  <2> HIDE DEF Inputs
  <2>2. UserInputs[n] \in Inputs
    BY <1>1, <2>1
  <2>. QED  BY <2>2 DEF Inputs
<1>3. Packet(type, seq, NextData) \in Packets
  BY <1>1, CarriedAssumption DEF NextData
<1>4. ASSUME type = "KEY"
      PROVE  <<NextData[1]>> = NextData
  <2>1. NextData \in Seq(Nat) /\ Len(NextData) = 1
    BY <1>1, <1>2, <1>4, CarriedAssumption DEF NextData
  <2>. QED  BY <2>1
<1>. QED  BY <1>1, <1>2, <1>3, <1>4

(* What serving a packet does: a HELLO is answered, an OPEN_IME makes the
   bridge ready, anything else ends that. *)
LEMMA HostServes ==
  ASSUME WireInv, HostReceives
  PROVE  /\ toHost # << >> /\ toHost' = Tail(toHost) /\ Head(toHost) \in Uplinks
         /\ \/ toDos' = toDos
            \/ \E q \in Packets : /\ toDos' = Append(toDos, q)
                                  /\ Asks(q) => AutomaticText # << >>
         /\ openSequence' \in {openSequence, 0, Head(toHost).seq}
         /\ input' \in {input, << >>}
         /\ imeReady' => \/ /\ imeReady /\ UNCHANGED openSequence
                            /\ ~Decides(Head(toHost))
                         \/ Opens(Head(toHost)) /\ openSequence' = Head(toHost).seq
<1> DEFINE p == Head(toHost)
<1>1. toHost # << >> /\ toHost' = Tail(toHost) /\ Host!Receive(p)
  BY Zenon DEF HostReceives, Host!Serves
<1>2. p \in Uplinks /\ p.seq \in SeqNums
  <2>1. p \in Uplinks
    BY <1>1 DEF WireInv
  <2>. QED  BY <2>1 DEF Uplinks
<1>3. \/ Host!ReceiveHello(p) \/ Host!ReceiveOpen(p) \/ Host!ReceiveClose(p)
      \/ Host!ReceiveAck(p)
  BY <1>1, <1>2 DEF Host!Receive, Host!ReceivePing, Uplinks
<1> HIDE DEF p
<1>4. CASE Host!ReceiveHello(p)
  <2>1. Packet("PONG", p.seq, << >>) \in Packets
    BY <1>2, CarriedAssumption
  <2>2. toDos' = Append(toDos, Packet("PONG", p.seq, << >>))
    BY <1>4 DEF Host!ReceiveHello, Host!Send, Host!Message, Packet
  <2>3. ~Asks(Packet("PONG", p.seq, << >>))
    BY DEF Asks, Packet
  <2>4. ~Decides(p)
    BY <1>4 DEF Host!ReceiveHello, Decides
  <2>. QED
    BY <1>1, <1>2, <1>4, <2>1, <2>2, <2>3, <2>4, Zenon DEF Host!ReceiveHello, p
<1>5. CASE Host!ReceiveOpen(p)
  <2>1. \/ toDos' = toDos
        \/ \E q \in Packets : toDos' = Append(toDos, q) /\ AutomaticText # << >>
    BY <1>2, <1>5, CarriedAssumption
       DEF Host!ReceiveOpen, Host!Send, Host!Message, Packet
  <2>. QED
    BY <1>1, <1>2, <1>5, <2>1, Zenon DEF Host!ReceiveOpen, Opens, p
<1>6. CASE Host!ReceiveClose(p) \/ Host!ReceiveAck(p)
  BY <1>1, <1>2, <1>6, Zenon DEF Host!ReceiveClose, Host!ReceiveAck, p
<1>. QED  BY <1>3, <1>4, <1>5, <1>6

(* What the user makes the bridge send: one input for the session it is
   ready for, or the end of that session. *)
LEMMA HostSends ==
  ASSUME WireInv, HostUser
  PROVE  /\ UNCHANGED <<vars, toHost, openSequence>>
         /\ input' # << >> => \A seq \in SeqNums : Packet("TEXT", seq, input') \in Packets
         /\ \/ UNCHANGED <<toDos, imeReady>>
            \/ /\ \E q \in Packets : /\ toDos' = Append(toDos, q)
                                     /\ q.seq = openSequence
               /\ imeReady /\ ~imeReady'
<1>0. openSequence \in SeqNums /\ UNCHANGED <<vars, toHost>>
  BY Zenon DEF WireInv, HostUser
<1>1. CASE NextIs("TEXT") /\ Host!TypeText(NextData)
  <2>1. \A seq \in SeqNums : Packet("TEXT", seq, NextData) \in Packets
    BY <1>1, NextInput
  <2>. QED  BY <1>0, <1>1, <2>1, Zenon DEF Host!TypeText
<1>2. CASE Host!SendText
  <2>1. Packet("TEXT", openSequence, input) \in Packets
    BY <1>0, <1>2 DEF Host!SendText, WireInv
  <2>2. /\ toDos' = Append(toDos, Packet("TEXT", openSequence, input))
        /\ Packet("TEXT", openSequence, input).seq = openSequence
    BY <1>2 DEF Host!SendText, Host!Send, Host!Message, Packet
  <2>. QED
    BY <1>0, <1>2, <2>1, <2>2, Zenon DEF Host!SendText, Host!MaySend
<1>3. CASE NextIs("KEY") /\ Host!SendKey(NextData[1])
  <2>1. /\ Packet("KEY", openSequence, NextData) \in Packets
        /\ <<NextData[1]>> = NextData
    BY <1>0, <1>3, NextInput
  <2>2. /\ toDos' = Append(toDos, Packet("KEY", openSequence, NextData))
        /\ Packet("KEY", openSequence, NextData).seq = openSequence
    BY <1>3, <2>1 DEF Host!SendKey, Host!Send, Host!Message, Packet
  <2>. QED
    BY <1>0, <1>3, <2>1, <2>2, Zenon DEF Host!SendKey, Host!MaySend, WireInv
<1>4. CASE Host!ClearInput
  BY <1>0, <1>4, Zenon DEF Host!ClearInput
<1>5. CASE Host!SendCloseIme
  <2>1. /\ Packet("CLOSE_IME", openSequence, << >>) \in Packets
        /\ Packet("CLOSE_IME", openSequence, << >>).seq = openSequence
    BY <1>0, CarriedAssumption DEF Packet
  <2>2. toDos' = Append(toDos, Packet("CLOSE_IME", openSequence, << >>))
    BY <1>5 DEF Host!SendCloseIme, Host!Send, Host!Message, Packet
  <2>. QED
    BY <1>0, <1>5, <2>1, <2>2, Zenon DEF Host!SendCloseIme, Host!MaySend, WireInv
<1>. QED  BY <1>1, <1>2, <1>3, <1>4, <1>5, Zenon DEF HostUser

(* Every step keeps both wires well formed. *)
LEMMA WireInvStep ==
  ASSUME TypeOK, WireInv, [SystemNext]_systemVars
  PROVE  WireInv'
<1> DEFINE FirstWords == {FirstWord(p) : p \in {q \in Packets : Asks(q)}}
           MayType(text) ==
             text # << >> => \A seq \in SeqNums : Packet("TEXT", seq, text) \in Packets
<1>0. /\ toDos \in Seq(Packets) /\ toHost \in Seq(Uplinks)
      /\ openSequence \in SeqNums /\ MayType(input) /\ sent \in Seq(FirstWords)
      /\ 0 \in SeqNums /\ MayType(<< >>)
  BY WorkerAssumption DEF WireInv, SeqNums
<1> SUFFICES /\ toDos' \in Seq(Packets) /\ toHost' \in Seq(Uplinks)
             /\ openSequence' \in SeqNums /\ MayType(input')
             /\ sent' \in Seq(FirstWords)
  BY Zenon DEF WireInv
<1> HIDE DEF FirstWords, MayType
<1>a. ASSUME NoteSend,
             toDos' = toDos \/ \E p \in Packets : toDos' = Append(toDos, p)
      PROVE  toDos' \in Seq(Packets) /\ sent' \in Seq(FirstWords)
  <2>1. CASE toDos' = toDos
    BY <1>0, <1>a, <2>1 DEF NoteSend, history
  <2>2. ASSUME NEW p \in Packets, toDos' = Append(toDos, p)
        PROVE  toDos' \in Seq(Packets) /\ sent' \in Seq(FirstWords)
    <3>1. toDos' \in Seq(Packets) /\ toDos' # toDos /\ toDos'[Len(toDos')] = p
      BY <1>0, <2>2
    <3>2. CASE Asks(p)
      <4>1. sent' = Append(sent, FirstWord(p))
        BY <1>a, <3>1, <3>2 DEF NoteSend, Asks
      <4>2. FirstWord(p) \in FirstWords
        BY <3>2 DEF FirstWords
      <4>. QED  BY <1>0, <3>1, <4>1, <4>2
    <3>3. CASE ~Asks(p)
      BY <1>0, <1>a, <3>1, <3>3 DEF NoteSend, Asks, history
    <3>. QED  BY <3>2, <3>3
  <2>. QED  BY <1>a, <2>1, <2>2
<1>b. ASSUME Host!LineLoss
      PROVE  toHost' \in Seq(Uplinks) /\ toDos' \in Seq(Packets)
  BY <1>0, <1>b DEF Host!LineLoss
<1>1. CASE TsrStep \/ UserStroke \/ AppReads
  <2>1. Next /\ Uplink /\ UNCHANGED <<hostState, sent>>
    BY <1>1, Zenon DEF TsrStep, UserStroke, AppReads, Next, User, App, history
  <2>2. toHost' \in Seq(Uplinks)
    BY <1>0, <2>1, UplinkStep
  <2>. QED  BY <1>0, <2>1, <2>2 DEF hostState
<1>2. CASE TsrReceives
  <2>1. Head(toDos) \in Packets /\ toDos' \in Seq(Packets)
    BY <1>0, <1>2 DEF TsrReceives
  <2>2. Next /\ Uplink /\ UNCHANGED <<openSequence, input, sent>>
    BY <1>2, <2>1, Zenon DEF TsrReceives, Next, Receive, history
  <2>3. toHost' \in Seq(Uplinks)
    BY <1>0, <2>2, UplinkStep
  <2>. QED  BY <1>0, <2>1, <2>2, <2>3
<1>3. CASE ClosedPortLoses \/ KeyRelease
  BY <1>0, <1>3 DEF ClosedPortLoses, KeyRelease, history, hostState
<1>4. CASE HostReceives
  <2>1. toDos' = toDos \/ \E p \in Packets : toDos' = Append(toDos, p)
    BY <1>4, HostServes
  <2>2. toHost' \in Seq(Uplinks) /\ openSequence' \in SeqNums /\ MayType(input')
    <3>1. toHost # << >> /\ toHost' = Tail(toHost) /\ Head(toHost) \in Uplinks
      BY <1>4, HostServes, Zenon
    <3>2. /\ openSequence' \in {openSequence, 0, Head(toHost).seq}
          /\ input' \in {input, << >>}
      BY <1>4, HostServes, Zenon
    <3>3. Head(toHost).seq \in SeqNums
      BY <3>1 DEF Uplinks
    <3>. QED  BY <1>0, <3>1, <3>2, <3>3
  <2>3. CASE NoteSend
    BY <1>a, <2>1, <2>2, <2>3
  <2>4. CASE ~NoteSend
    <3>1. UNCHANGED <<sent, delivered>> \/ UNCHANGED history
      BY <1>4, <2>4 DEF HostReceives
    <3>2. sent' = sent
      BY <3>1 DEF history
    <3>3. toDos' \in Seq(Packets)
      <4>1. ASSUME NEW p \in Packets, toDos' = Append(toDos, p)
            PROVE  toDos' \in Seq(Packets)
        BY <1>0, <4>1
      <4>. QED  BY <1>0, <2>1, <4>1
    <3>. QED  BY <1>0, <2>2, <3>2, <3>3
  <2>. QED  BY <2>3, <2>4
<1>5. CASE HostSkipsFragment
  <2>1. \E n \in 1 .. Len(toHost) : toHost' = SubSeq(toHost, n + 1, Len(toHost))
    BY <1>5, Zenon DEF HostSkipsFragment, Host!SkipsFragment
  <2>2. toHost' \in Seq(Uplinks)
    BY <1>0, <2>1, RestOfWire
  <2>. QED
    BY <1>0, <1>5, <2>2
       DEF HostSkipsFragment, Host!SkipsFragment, Host!hostVars, history
<1>6. CASE HostRejectsFragment
  BY <1>0, <1>b, <1>6 DEF HostRejectsFragment, Host!RejectsFragment, Host!ServeEnd
<1>7. CASE HostConnects
  BY <1>0, <1>7 DEF HostConnects, Host!Connects, Host!Connect, history
<1>8. CASE LineBreaks
  BY <1>0, <1>b, <1>8 DEF LineBreaks, Host!Breaks, history
<1>9. CASE HostNoticesBreak
  BY <1>0, <1>9 DEF HostNoticesBreak, Host!NoticesBreak, Host!ServeEnd
<1>10. CASE HostUser
  <2>1. toDos' = toDos \/ \E p \in Packets : toDos' = Append(toDos, p)
    BY <1>10, HostSends
  <2>2. UNCHANGED <<toHost, openSequence>> /\ MayType(input')
    BY <1>10, HostSends DEF MayType
  <2>. QED  BY <1>0, <1>10, <1>a, <2>1, <2>2 DEF HostUser
<1>11. CASE UNCHANGED systemVars
  BY <1>0, <1>11 DEF systemVars, hostState, history
<1>. QED
  BY <1>1, <1>2, <1>3, <1>4, <1>5, <1>6, <1>7, <1>8, <1>9, <1>10, <1>11, Zenon
     DEF SystemNext

LEMMA WireInvariant == SystemSpec => []WireInv /\ Spec
<1>1. SystemInit => Init
  BY Zenon DEF SystemInit
<1>2. SystemInit => WireInv
  <2> SUFFICES ASSUME SystemInit PROVE WireInv
    OBVIOUS
  <2>1. /\ toDos = << >> /\ toHost = << >> /\ openSequence = 0 /\ input = << >>
        /\ sent = << >>
    BY DEF SystemInit, Host!LineInit, Host!HostInit
  <2>. QED  BY <2>1, WorkerAssumption DEF WireInv, SeqNums
<1>3. Init => TypeOK
  BY TypeInit
<1>4. TypeOK /\ WireInv /\ [SystemNext]_systemVars => [Next]_vars /\ WireInv'
  BY SystemStep, WireInvStep
<1>5. TypeOK /\ [Next]_vars => TypeOK'
  BY TypeStep
<1>. QED  BY <1>1, <1>2, <1>3, <1>4, <1>5, PTL DEF SystemSpec, Spec

(* Joined to the real bridge, over a line that breaks and loses, the worker
   receives nothing that TsrWorker.tla does not allow it: what is proved
   there for any packets holds for the whole system
   (BridgeForm.cs:389-508 against foreground.c:132-180). *)
THEOREM SystemImplementsWorker == SystemSpec => Spec
BY WireInvariant, PTL

-----------------------------------------------------------------------------
(* One input for each OPEN_IME                                             *)

(* The numbers under way rise from the PC-98's staging buffer, over the
   inputs on the line to it, the session the bridge is ready for and the
   OPEN_IMEs on the line to the bridge, to the last number given out: each
   OPEN_IME is asked for, made ready, answered and staged once. *)
Rising(pending, dos, ready, open, host, last) ==
  /\ pending <= last
  /\ \A i \in DOMAIN dos : Asks(dos[i]) =>
       /\ pending < dos[i].seq /\ dos[i].seq <= last
       /\ ready => dos[i].seq < open
       /\ \A j \in DOMAIN dos : i < j /\ Asks(dos[j]) => dos[i].seq < dos[j].seq
       /\ \A k \in DOMAIN host : Opens(host[k]) => dos[i].seq < host[k].seq
  /\ ready =>
       /\ pending < open /\ open <= last
       /\ \A k \in DOMAIN host : Opens(host[k]) => open < host[k].seq
  /\ \A k \in DOMAIN host : Opens(host[k]) =>
       /\ pending < host[k].seq /\ host[k].seq <= last
       /\ \A l \in DOMAIN host : k < l /\ Opens(host[l]) => host[k].seq < host[l].seq

RisingInv ==
  Rising(pending_sequence, toDos, imeReady, openSequence, toHost, sequence)

(* A number is given out once: the 16 bits have not come round. *)
NoWrap == sequence + 1 < SeqMod

(* Part of a wire: what is left when its head was read or its end lost. *)
Within(part, wire) ==
  \E d \in Nat : \A i \in DOMAIN part : i + d \in DOMAIN wire /\ part[i] = wire[i + d]

LEMMA WithinSelf == ASSUME NEW S, NEW s \in Seq(S) PROVE Within(s, s)
<1>1. \A i \in DOMAIN s : i + 0 \in DOMAIN s /\ s[i] = s[i + 0]
  OBVIOUS
<1>. QED  BY <1>1 DEF Within

LEMMA WithinTail ==
  ASSUME NEW S, NEW s \in Seq(S), s # << >>
  PROVE  Within(Tail(s), s)
<1>1. \A i \in DOMAIN Tail(s) : i + 1 \in DOMAIN s /\ Tail(s)[i] = s[i + 1]
  BY HeadTailProperties
<1>. QED  BY <1>1 DEF Within

LEMMA WithinRest ==
  ASSUME NEW S, NEW s \in Seq(S), NEW n \in 1 .. Len(s)
  PROVE  Within(SubSeq(s, n + 1, Len(s)), s)
<1>1. \A i \in DOMAIN SubSeq(s, n + 1, Len(s)) :
        i + n \in DOMAIN s /\ SubSeq(s, n + 1, Len(s))[i] = s[i + n]
  BY RestOfWire
<1>2. n \in Nat
  OBVIOUS
<1>. QED  BY <1>1, <1>2, Zenon DEF Within

LEMMA WithinPrefix ==
  ASSUME NEW S, NEW s \in Seq(S), NEW n \in 0 .. Len(s)
  PROVE  Within(SubSeq(s, 1, n), s)
<1>1. \A i \in DOMAIN SubSeq(s, 1, n) : i + 0 \in DOMAIN s /\ SubSeq(s, 1, n)[i] = s[i + 0]
  OBVIOUS
<1>. QED  BY <1>1 DEF Within

LEMMA NumbersOnWires ==
  ASSUME NEW dos \in Seq(Packets), NEW host \in Seq(Uplinks)
  PROVE  /\ \A i \in DOMAIN dos : i \in Nat /\ dos[i].seq \in Nat
         /\ \A k \in DOMAIN host : k \in Nat /\ host[k].seq \in Nat
<1>1. SeqNums \subseteq Nat
  BY WorkerAssumption DEF SeqNums
<1>2. ASSUME NEW i \in DOMAIN dos
      PROVE  i \in Nat /\ dos[i].seq \in Nat
  <2>1. dos[i] \in Packets /\ i \in Nat
    OBVIOUS
  <2>. QED  BY <1>1, <2>1, PacketAssumption
<1>3. ASSUME NEW k \in DOMAIN host
      PROVE  k \in Nat /\ host[k].seq \in Nat
  <2>1. host[k] \in Uplinks /\ k \in Nat
    OBVIOUS
  <2>. QED  BY <1>1, <2>1 DEF Uplinks
<1>. QED  BY <1>2, <1>3

(* Losing packets, closing the session and giving out a number keep the
   order. *)
LEMMA RisingShrinks ==
  ASSUME NEW pending \in Nat, NEW open \in Nat, NEW open2 \in Nat,
         NEW last \in Nat, NEW last2 \in Nat,
         NEW dos \in Seq(Packets), NEW host \in Seq(Uplinks),
         NEW dos2 \in Seq(Packets), NEW host2 \in Seq(Uplinks), NEW ready, NEW ready2,
         Rising(pending, dos, ready, open, host, last),
         Within(dos2, dos), Within(host2, host),
         ready2 => ready /\ open2 = open, last <= last2
  PROVE  Rising(pending, dos2, ready2, open2, host2, last2)
<1>1. PICK d \in Nat : \A i \in DOMAIN dos2 : i + d \in DOMAIN dos /\ dos2[i] = dos[i + d]
  BY DEF Within
<1>2. PICK e \in Nat : \A i \in DOMAIN host2 : i + e \in DOMAIN host /\ host2[i] = host[i + e]
  BY DEF Within
<1>3. /\ \A i \in DOMAIN dos : i \in Nat /\ dos[i].seq \in Nat
      /\ \A k \in DOMAIN host : k \in Nat /\ host[k].seq \in Nat
      /\ \A i \in DOMAIN dos2 : i \in Nat
      /\ \A k \in DOMAIN host2 : k \in Nat
  BY NumbersOnWires, Zenon
<1>4. ASSUME NEW i \in DOMAIN dos2, Asks(dos2[i])
      PROVE  /\ pending < dos2[i].seq /\ dos2[i].seq <= last2
             /\ ready2 => dos2[i].seq < open2
             /\ \A j \in DOMAIN dos2 : i < j /\ Asks(dos2[j]) => dos2[i].seq < dos2[j].seq
             /\ \A k \in DOMAIN host2 : Opens(host2[k]) => dos2[i].seq < host2[k].seq
  <2>1. /\ i + d \in DOMAIN dos /\ dos2[i] = dos[i + d] /\ Asks(dos[i + d])
        /\ dos[i + d].seq \in Nat
    BY <1>1, <1>3, <1>4
  <2>2. /\ pending < dos[i + d].seq /\ dos[i + d].seq <= last
        /\ ready => dos[i + d].seq < open
        /\ \A j \in DOMAIN dos : i + d < j /\ Asks(dos[j]) => dos[i + d].seq < dos[j].seq
        /\ \A k \in DOMAIN host : Opens(host[k]) => dos[i + d].seq < host[k].seq
    BY <2>1, Zenon DEF Rising
  <2>3. ASSUME NEW j \in DOMAIN dos2, i < j, Asks(dos2[j])
        PROVE  dos2[i].seq < dos2[j].seq
    <3>1. j + d \in DOMAIN dos /\ dos2[j] = dos[j + d] /\ i + d < j + d
      BY <1>1, <1>3, <2>3
    <3>. QED  BY <2>1, <2>2, <2>3, <3>1, Zenon
  <2>4. ASSUME NEW k \in DOMAIN host2, Opens(host2[k])
        PROVE  dos2[i].seq < host2[k].seq
    BY <1>2, <2>1, <2>2, <2>4, Zenon
  <2>5. dos2[i].seq <= last2
    BY <2>1, <2>2
  <2>. QED  BY <2>1, <2>2, <2>3, <2>4, <2>5, Zenon
<1>5. ASSUME ready2
      PROVE  /\ pending < open2 /\ open2 <= last2
             /\ \A k \in DOMAIN host2 : Opens(host2[k]) => open2 < host2[k].seq
  BY <1>2, <1>3, <1>5 DEF Rising
<1>6. ASSUME NEW k \in DOMAIN host2, Opens(host2[k])
      PROVE  /\ pending < host2[k].seq /\ host2[k].seq <= last2
             /\ \A l \in DOMAIN host2 : k < l /\ Opens(host2[l]) => host2[k].seq < host2[l].seq
  <2>1. /\ k + e \in DOMAIN host /\ host2[k] = host[k + e] /\ Opens(host[k + e])
        /\ host[k + e].seq \in Nat
    BY <1>2, <1>3, <1>6
  <2>2. /\ pending < host[k + e].seq /\ host[k + e].seq <= last
        /\ \A l \in DOMAIN host : k + e < l /\ Opens(host[l]) => host[k + e].seq < host[l].seq
    BY <2>1, Zenon DEF Rising
  <2>3. ASSUME NEW l \in DOMAIN host2, k < l, Opens(host2[l])
        PROVE  host2[k].seq < host2[l].seq
    <3>1. l + e \in DOMAIN host /\ host2[l] = host[l + e] /\ k + e < l + e
      BY <1>2, <1>3, <2>3
    <3>. QED  BY <2>1, <2>2, <2>3, <3>1, Zenon
  <2>4. host2[k].seq <= last2
    BY <2>1, <2>2
  <2>. QED  BY <2>1, <2>2, <2>3, <2>4, Zenon
<1>7. pending <= last2
  BY DEF Rising
<1>. QED  BY <1>4, <1>5, <1>6, <1>7, Zenon DEF Rising

(* The input the PC-98 takes is older than everything behind it. *)
LEMMA RisingTakes ==
  ASSUME NEW pending \in Nat, NEW open \in Nat, NEW last \in Nat,
         NEW dos \in Seq(Packets), NEW host \in Seq(Uplinks), NEW ready,
         Rising(pending, dos, ready, open, host, last), dos # << >>, Asks(Head(dos))
  PROVE  Rising(Head(dos).seq, Tail(dos), ready, open, host, last)
<1> DEFINE n == dos[1].seq
           rest == Tail(dos)
<1>1. /\ 1 \in DOMAIN dos /\ Head(dos) = dos[1]
      /\ rest \in Seq(Packets)
      /\ \A i \in DOMAIN rest : i + 1 \in DOMAIN dos /\ rest[i] = dos[i + 1]
  BY HeadTailProperties
<1>2. /\ \A i \in DOMAIN dos : i \in Nat /\ dos[i].seq \in Nat
      /\ \A k \in DOMAIN host : k \in Nat /\ host[k].seq \in Nat
      /\ \A i \in DOMAIN rest : i \in Nat /\ i > 0
  BY <1>1, NumbersOnWires
<1> HIDE DEF rest
<1>3. /\ n <= last /\ n \in Nat
      /\ ready => n < open
      /\ \A j \in DOMAIN dos : 1 < j /\ Asks(dos[j]) => n < dos[j].seq
      /\ \A k \in DOMAIN host : Opens(host[k]) => n < host[k].seq
  BY <1>1, <1>2 DEF Rising
<1>4. ASSUME NEW i \in DOMAIN rest, Asks(rest[i])
      PROVE  /\ n < rest[i].seq /\ rest[i].seq <= last
             /\ ready => rest[i].seq < open
             /\ \A j \in DOMAIN rest : i < j /\ Asks(rest[j]) => rest[i].seq < rest[j].seq
             /\ \A k \in DOMAIN host : Opens(host[k]) => rest[i].seq < host[k].seq
  <2>1. i + 1 \in DOMAIN dos /\ 1 < i + 1 /\ Asks(dos[i + 1]) /\ rest[i] = dos[i + 1]
    BY <1>1, <1>2, <1>4
  <2>2. n < rest[i].seq
    BY <1>3, <2>1
  <2>3. ASSUME NEW j \in DOMAIN rest, i < j, Asks(rest[j])
        PROVE  rest[i].seq < rest[j].seq
    <3>1. j + 1 \in DOMAIN dos /\ rest[j] = dos[j + 1] /\ i + 1 < j + 1
      BY <1>1, <1>2, <2>3
    <3>. QED  BY <2>1, <2>3, <3>1, Zenon DEF Rising
  <2>. QED  BY <2>1, <2>2, <2>3 DEF Rising
<1>5. ASSUME ready
      PROVE  /\ n < open /\ open <= last
             /\ \A k \in DOMAIN host : Opens(host[k]) => open < host[k].seq
  BY <1>3, <1>5 DEF Rising
<1>6. ASSUME NEW k \in DOMAIN host, Opens(host[k])
      PROVE  /\ n < host[k].seq /\ host[k].seq <= last
             /\ \A l \in DOMAIN host : k < l /\ Opens(host[l]) => host[k].seq < host[l].seq
  BY <1>3, <1>6 DEF Rising
<1>7. Rising(n, rest, ready, open, host, last)
  BY <1>3, <1>4, <1>5, <1>6, Zenon DEF Rising
<1>. QED  BY <1>1, <1>7 DEF rest

(* The OPEN_IME the bridge serves makes it ready for a number above those of
   all inputs sent before. *)
LEMMA RisingServes ==
  ASSUME NEW pending \in Nat, NEW open \in Nat, NEW last \in Nat,
         NEW dos \in Seq(Packets), NEW host \in Seq(Uplinks), NEW ready,
         Rising(pending, dos, ready, open, host, last), host # << >>, Opens(Head(host))
  PROVE  Rising(pending, dos, TRUE, Head(host).seq, Tail(host), last)
<1> DEFINE n == host[1].seq
           rest == Tail(host)
<1>1. /\ 1 \in DOMAIN host /\ Head(host) = host[1]
      /\ rest \in Seq(Uplinks)
      /\ \A k \in DOMAIN rest : k + 1 \in DOMAIN host /\ rest[k] = host[k + 1]
  BY HeadTailProperties
<1>2. \A k \in DOMAIN rest : 1 < k + 1
  BY <1>1
<1> HIDE DEF rest
<1>3. /\ pending < n /\ n <= last
      /\ \A l \in DOMAIN host : 1 < l /\ Opens(host[l]) => n < host[l].seq
  BY <1>1, Zenon DEF Rising
<1>4. ASSUME NEW i \in DOMAIN dos, Asks(dos[i])
      PROVE  /\ pending < dos[i].seq /\ dos[i].seq <= last
             /\ dos[i].seq < n
             /\ \A j \in DOMAIN dos : i < j /\ Asks(dos[j]) => dos[i].seq < dos[j].seq
             /\ \A k \in DOMAIN rest : Opens(rest[k]) => dos[i].seq < rest[k].seq
  BY <1>1, <1>4, Zenon DEF Rising
<1>5. \A k \in DOMAIN rest : Opens(rest[k]) => n < rest[k].seq
  BY <1>1, <1>2, <1>3, Zenon
<1>6. ASSUME NEW k \in DOMAIN rest, Opens(rest[k])
      PROVE  /\ pending < rest[k].seq /\ rest[k].seq <= last
             /\ \A l \in DOMAIN rest : k < l /\ Opens(rest[l]) => rest[k].seq < rest[l].seq
  <2>1. ASSUME NEW l \in DOMAIN rest, k < l, Opens(rest[l])
        PROVE  rest[k].seq < rest[l].seq
    <3>1. k + 1 < l + 1
      BY <1>1, <2>1
    <3>. QED  BY <1>1, <1>6, <2>1, <3>1, Zenon DEF Rising
  <2>. QED  BY <1>1, <1>6, <2>1, Zenon DEF Rising
<1>7. pending <= last
  BY Zenon DEF Rising
<1>8. Rising(pending, dos, TRUE, n, rest, last)
  BY <1>3, <1>4, <1>5, <1>6, <1>7, Zenon DEF Rising
<1>. QED  BY <1>1, <1>8, Zenon DEF rest

(* What the bridge sends has the number it was ready for, and ends that. *)
LEMMA RisingSends ==
  ASSUME NEW pending \in Nat, NEW open \in Nat, NEW last \in Nat,
         NEW dos \in Seq(Packets), NEW host \in Seq(Uplinks), NEW q \in Packets,
         NEW ready, NEW ready2,
         Rising(pending, dos, ready, open, host, last),
         Asks(q) => ready /\ ~ready2 /\ q.seq = open, ready2 => ready
  PROVE  Rising(pending, Append(dos, q), ready2, open, host, last)
<1> DEFINE more == Append(dos, q)
<1>1. /\ more \in Seq(Packets)
      /\ \A i \in DOMAIN more : \/ i \in DOMAIN dos /\ more[i] = dos[i]
                                \/ i = Len(dos) + 1 /\ more[i] = q
      /\ \A i \in DOMAIN dos : i < Len(dos) + 1
      /\ \A i \in DOMAIN more : i <= Len(dos) + 1
      /\ ~(Len(dos) + 1 < Len(dos) + 1)
  OBVIOUS
<1> HIDE DEF more
<1>2. ASSUME NEW i \in DOMAIN more, Asks(more[i])
      PROVE  /\ pending < more[i].seq /\ more[i].seq <= last
             /\ ready2 => more[i].seq < open
             /\ \A j \in DOMAIN more : i < j /\ Asks(more[j]) => more[i].seq < more[j].seq
             /\ \A k \in DOMAIN host : Opens(host[k]) => more[i].seq < host[k].seq
  <2>1. CASE i \in DOMAIN dos /\ more[i] = dos[i]
    BY <1>1, <1>2, <2>1, Zenon DEF Rising
  <2>2. CASE i = Len(dos) + 1 /\ more[i] = q
    <3>1. \A j \in DOMAIN more : ~(i < j)
      BY <1>1, <2>2
    <3>. QED  BY <1>2, <2>2, <3>1, Zenon DEF Rising
  <2>. QED  BY <1>1, <2>1, <2>2
<1>. QED  BY <1>2, Zenon DEF Rising, more

(* A new OPEN_IME has the highest number of all. *)
LEMMA RisingOpens ==
  ASSUME NEW pending \in Nat, NEW open \in Nat, NEW last \in Nat, NEW last2 \in Nat,
         NEW dos \in Seq(Packets), NEW host \in Seq(Uplinks), NEW p \in Uplinks,
         NEW ready,
         Rising(pending, dos, ready, open, host, last),
         last <= last2, Opens(p) => p.seq = last2 /\ last < last2
  PROVE  Rising(pending, dos, ready, open, Append(host, p), last2)
<1> DEFINE more == Append(host, p)
<1>1. /\ more \in Seq(Uplinks)
      /\ \A k \in DOMAIN more : \/ k \in DOMAIN host /\ more[k] = host[k]
                                \/ k = Len(host) + 1 /\ more[k] = p
      /\ \A k \in DOMAIN more : k <= Len(host) + 1
      /\ Len(host) \in Nat
  OBVIOUS
<1>2. /\ \A i \in DOMAIN dos : i \in Nat /\ dos[i].seq \in Nat
      /\ \A k \in DOMAIN host : k \in Nat /\ host[k].seq \in Nat
      /\ \A k \in DOMAIN more : k \in Nat
  BY <1>1, NumbersOnWires
<1> HIDE DEF more
<1>3. ASSUME NEW n \in Nat, n <= last
      PROVE  /\ n <= last2
             /\ Opens(p) => n < p.seq
  BY <1>3
<1>4. ASSUME NEW n \in Nat, n <= last,
             \A k \in DOMAIN host : Opens(host[k]) => n < host[k].seq
      PROVE  \A k \in DOMAIN more : Opens(more[k]) => n < more[k].seq
  BY <1>1, <1>3, <1>4, Zenon
<1>5. ASSUME NEW i \in DOMAIN dos, Asks(dos[i])
      PROVE  /\ dos[i].seq <= last2
             /\ \A k \in DOMAIN more : Opens(more[k]) => dos[i].seq < more[k].seq
  BY <1>2, <1>3, <1>4, <1>5, Zenon DEF Rising
<1>6. ASSUME ready
      PROVE  /\ open <= last2
             /\ \A k \in DOMAIN more : Opens(more[k]) => open < more[k].seq
  BY <1>3, <1>4, <1>6, Zenon DEF Rising
<1>7. ASSUME NEW k \in DOMAIN more, Opens(more[k])
      PROVE  /\ pending < more[k].seq /\ more[k].seq <= last2
             /\ \A l \in DOMAIN more : k < l /\ Opens(more[l]) => more[k].seq < more[l].seq
  <2>1. CASE k \in DOMAIN host /\ more[k] = host[k]
    <3>1. /\ pending < host[k].seq /\ host[k].seq <= last
          /\ \A l \in DOMAIN host : k < l /\ Opens(host[l]) => host[k].seq < host[l].seq
      BY <1>7, <2>1, Zenon DEF Rising
    <3>2. host[k].seq <= last2 /\ (Opens(p) => host[k].seq < p.seq)
      BY <1>2, <1>3, <2>1, <3>1, Zenon
    <3>. QED  BY <1>1, <2>1, <3>1, <3>2, Zenon
  <2>2. CASE k = Len(host) + 1 /\ more[k] = p
    <3>1. \A l \in DOMAIN more : ~(k < l)
      BY <1>1, <1>2, <2>2
    <3>2. pending <= last
      BY Zenon DEF Rising
    <3>3. more[k].seq = last2 /\ pending < last2
      BY <1>7, <2>2, <3>2
    <3>4. more[k].seq <= last2
      BY <3>3
    <3>. QED  BY <3>1, <3>3, <3>4, Zenon
  <2>. QED  BY <1>1, <2>1, <2>2
<1>8. pending <= last2
  BY DEF Rising
<1>9. Rising(pending, dos, ready, open, more, last2)
  BY <1>5, <1>6, <1>7, <1>8, Zenon DEF Rising
<1>. QED  BY <1>9 DEF more

(* An input handled leaves its number in the staging buffer; nothing else
   received changes that number. *)
LEMMA TsrTakes ==
  ASSUME NEW p, NEW ok, PollPacket(p, ok)
  PROVE  pending_sequence' = pending_sequence \/ (Asks(p) /\ pending_sequence' = p.seq)
<1>1. CASE HandleText(p) \/ HandleKey(p)
  BY <1>1 DEF HandleText, HandleKey, IsText, IsKey, Asks
<1>2. CASE HandlePong(p, ok) \/ HandleClose(p, ok) \/ HandleOther(p)
  BY <1>2, Zenon DEF HandlePong, HandleClose, HandleOther, CloseIme, staged
<1>. QED  BY <1>1, <1>2, Zenon DEF PollPacket

(* What the PC-98 sends in a step goes behind everything else. *)
LEMMA RisingUplink ==
  ASSUME TypeOK, WireInv, NoWrap, Next, Uplink,
         NEW pending \in Nat, NEW dos \in Seq(Packets),
         Rising(pending, dos, imeReady, openSequence, toHost, sequence)
  PROVE  Rising(pending, dos, imeReady, openSequence, toHost', sequence')
<1>1. /\ sequence \in Nat /\ openSequence \in Nat /\ toHost \in Seq(Uplinks)
      /\ Inc(sequence) = sequence + 1
  <2>1. /\ sequence \in SeqNums /\ openSequence \in SeqNums
        /\ toHost \in Seq(Uplinks) /\ SeqMod \in Nat \ {0}
    BY WorkerAssumption, Zenon DEF TypeOK, WireInv
  <2>2. /\ sequence \in Nat /\ openSequence \in Nat /\ sequence + 1 < SeqMod
        /\ (sequence + 1) % SeqMod = sequence + 1
    BY <2>1 DEF SeqNums, NoWrap
  <2>. QED  BY <2>1, <2>2, Zenon DEF Inc
<1>2. sequence' \in Nat /\ sequence <= sequence'
  BY <1>1, TsrNumbers
<1>3. CASE UNCHANGED toHost
  <2>1. Within(dos, dos) /\ Within(toHost, toHost)
    BY <1>1, WithinSelf
  <2>. QED  BY <1>1, <1>2, <1>3, <2>1, RisingShrinks
<1>4. ASSUME NEW p \in Uplinks, toHost' = Append(toHost, p), FreshIfOpen(p)
      PROVE  Rising(pending, dos, imeReady, openSequence, toHost', sequence')
  <2>1. Opens(p) => p.seq = sequence' /\ sequence < sequence'
    BY <1>1, <1>4 DEF FreshIfOpen
  <2>2. Rising(pending, dos, imeReady, openSequence, Append(toHost, p), sequence')
    BY <1>1, <1>2, <2>1, RisingOpens
  <2>. QED  BY <1>4, <2>2, Zenon
<1>. QED  BY <1>3, <1>4, UplinkStep, Zenon

LEMMA RisingStep ==
  ASSUME AutomaticText = << >>, TypeOK, WireInv, NoWrap, RisingInv,
         [SystemNext]_systemVars
  PROVE  RisingInv'
<1>0. /\ toDos \in Seq(Packets) /\ toHost \in Seq(Uplinks)
      /\ toDos' \in Seq(Packets) /\ toHost' \in Seq(Uplinks)
      /\ pending_sequence \in Nat /\ sequence \in Nat
      /\ openSequence \in Nat /\ openSequence' \in Nat
      /\ Within(toDos, toDos) /\ Within(toHost, toHost)
      /\ Within(<< >>, toHost) /\ sequence <= sequence
  <2>1. WireInv'
    BY WireInvStep
  <2>2. Within(<< >>, toHost)
    BY DEF Within
  <2>3. SeqNums \subseteq Nat
    BY WorkerAssumption DEF SeqNums
  <2>4. sequence \in Nat /\ sequence <= sequence
    BY <2>3 DEF TypeOK
  <2>. QED  BY <2>1, <2>2, <2>3, <2>4, WithinSelf, Zenon DEF TypeOK, WireInv
<1>a. ASSUME UNCHANGED <<pending_sequence, sequence>>,
             Within(toDos', toDos), Within(toHost', toHost),
             imeReady' => imeReady /\ openSequence' = openSequence
      PROVE  RisingInv'
  <2>1. Rising(pending_sequence, toDos', imeReady', openSequence', toHost', sequence)
    BY <1>0, <1>a, RisingShrinks, Zenon DEF RisingInv
  <2>. QED  BY <1>a, <2>1, Zenon DEF RisingInv
<1>b. ASSUME UNCHANGED vars
      PROVE  UNCHANGED <<pending_sequence, sequence>>
  BY <1>b DEF vars, session, staged
<1>c. ASSUME Host!LineLoss
      PROVE  Within(toDos', toDos) /\ Within(toHost', toHost)
  <2>1. PICK n \in 0 .. Len(toDos) : toDos' = SubSeq(toDos, 1, n)
    BY <1>c DEF Host!LineLoss
  <2>2. Within(SubSeq(toDos, 1, n), toDos)
    BY <1>0, WithinPrefix
  <2>. QED  BY <1>0, <1>c, <2>1, <2>2, Zenon DEF Host!LineLoss
<1>1. CASE TsrStep \/ UserStroke \/ AppReads
  <2>1. Next /\ Uplink /\ (Worker \/ User \/ App) /\ UNCHANGED hostState
    BY <1>1, Zenon DEF TsrStep, UserStroke, AppReads, Next, User, App
  <2>2. UNCHANGED <<pending_sequence, toDos, imeReady, openSequence>>
    BY <2>1, TsrNumbers, Zenon DEF hostState
  <2>3. Rising(pending_sequence, toDos, imeReady, openSequence, toHost', sequence')
    BY <1>0, <2>1, RisingUplink, Zenon DEF RisingInv
  <2>. QED  BY <2>2, <2>3, Zenon DEF RisingInv
<1>2. CASE TsrReceives
  <2>1. PICK ok \in TxOutcomes : PollPacket(Head(toDos), ok)
    BY <1>2, Zenon DEF TsrReceives
  <2>2. /\ toDos # << >> /\ toDos' = Tail(toDos) /\ Uplink
        /\ UNCHANGED <<imeReady, openSequence>>
    BY <1>2, Zenon DEF TsrReceives
  <2>3. Head(toDos) \in Packets
    BY <1>0, <2>2
  <2>4. Next
    BY <2>1, <2>3, Zenon DEF Next, Receive
  <2>5. Within(Tail(toDos), toDos)
    BY <1>0, <2>2, WithinTail
  <2>6. Rising(pending_sequence', toDos', imeReady, openSequence, toHost, sequence)
    <3>1. CASE pending_sequence' = pending_sequence
      <4>1. Rising(pending_sequence, toDos', imeReady, openSequence, toHost, sequence)
        BY <1>0, <2>2, <2>5, RisingShrinks, Zenon DEF RisingInv
      <4>. QED  BY <3>1, <4>1, Zenon
    <3>2. CASE Asks(Head(toDos)) /\ pending_sequence' = Head(toDos).seq
      <4>1. Rising(Head(toDos).seq, Tail(toDos), imeReady, openSequence, toHost, sequence)
        BY <1>0, <2>2, <3>2, RisingTakes DEF RisingInv
      <4>. QED  BY <2>2, <3>2, <4>1, Zenon
    <3>. QED  BY <2>1, <3>1, <3>2, TsrTakes
  <2>7. pending_sequence' \in Nat
    <3>1. Head(toDos).seq \in Nat
      BY <2>3, PacketAssumption, WorkerAssumption DEF SeqNums
    <3>. QED  BY <1>0, <2>1, <3>1, TsrTakes
  <2>8. Rising(pending_sequence', toDos', imeReady, openSequence, toHost', sequence')
    BY <1>0, <2>2, <2>4, <2>6, <2>7, RisingUplink, Zenon
  <2>. QED  BY <2>2, <2>8, Zenon DEF RisingInv
<1>3. CASE ClosedPortLoses
  <2>1. /\ toDos # << >> /\ toDos' = Tail(toDos)
        /\ UNCHANGED <<vars, imeReady, openSequence, toHost>>
    BY <1>3, Zenon DEF ClosedPortLoses
  <2>. QED  BY <1>0, <1>a, <1>b, <2>1, WithinTail
<1>4. CASE KeyRelease
  <2>1. /\ UNCHANGED <<toDos, imeReady, openSequence, toHost>>
        /\ UNCHANGED <<pending_sequence, sequence>>
    BY <1>4, Zenon DEF KeyRelease, HotkeyRelease, hostState, session, staged
  <2>. QED  BY <1>0, <1>a, <2>1
<1>5. CASE HostReceives
  <2>1. UNCHANGED <<pending_sequence, sequence>>
    BY <1>5, <1>b, Zenon DEF HostReceives
  <2>2. /\ toHost # << >> /\ toHost' = Tail(toHost)
        /\ \/ toDos' = toDos
           \/ \E q \in Packets : toDos' = Append(toDos, q) /\ ~Asks(q)
        /\ imeReady' => \/ imeReady /\ UNCHANGED openSequence
                        \/ Opens(Head(toHost)) /\ openSequence' = Head(toHost).seq
    BY <1>5, HostServes, Zenon
  <2>3. Within(Tail(toHost), toHost)
    BY <1>0, <2>2, WithinTail
  <2>4. Rising(pending_sequence, toDos, imeReady', openSequence', toHost', sequence)
    <3>1. CASE imeReady' => imeReady /\ UNCHANGED openSequence
      BY <1>0, <2>2, <2>3, <3>1, RisingShrinks, Zenon DEF RisingInv
    <3>2. CASE imeReady' /\ Opens(Head(toHost)) /\ openSequence' = Head(toHost).seq
      <4>1. Rising(pending_sequence, toDos, TRUE, openSequence', toHost', sequence)
        BY <1>0, <2>2, <3>2, RisingServes DEF RisingInv
      <4>. QED  BY <1>0, <3>2, <4>1, WithinSelf, RisingShrinks
    <3>. QED  BY <2>2, <3>1, <3>2, Zenon
  <2>5. Rising(pending_sequence, toDos', imeReady', openSequence', toHost', sequence)
    <3>1. CASE toDos' = toDos
      BY <2>4, <3>1, Zenon
    <3>2. ASSUME NEW q \in Packets, toDos' = Append(toDos, q), ~Asks(q)
          PROVE  Rising(pending_sequence, toDos', imeReady', openSequence', toHost',
                        sequence)
      <4>1. Rising(pending_sequence, Append(toDos, q), imeReady', openSequence', toHost',
                   sequence)
        BY <1>0, <2>4, <3>2, RisingSends
      <4>. QED  BY <3>2, <4>1, Zenon
    <3>. QED  BY <2>2, <3>1, <3>2, Zenon
  <2>. QED  BY <2>1, <2>5, Zenon DEF RisingInv
<1>6. CASE HostSkipsFragment
  <2>1. /\ UNCHANGED <<vars, toDos, imeReady, openSequence>>
        /\ \E n \in 1 .. Len(toHost) : toHost' = SubSeq(toHost, n + 1, Len(toHost))
    BY <1>6, Zenon DEF HostSkipsFragment, Host!SkipsFragment, Host!hostVars
  <2>2. Within(toHost', toHost)
    BY <1>0, <2>1, WithinRest
  <2>. QED  BY <1>0, <1>a, <1>b, <2>1, <2>2
<1>7. CASE HostRejectsFragment
  <2>1. UNCHANGED vars /\ Host!LineLoss /\ imeReady' = FALSE
    BY <1>7, Zenon DEF HostRejectsFragment, Host!RejectsFragment, Host!ServeEnd
  <2>. QED  BY <1>a, <1>b, <1>c, <2>1
<1>8. CASE HostConnects \/ HostNoticesBreak
  <2>1. UNCHANGED <<vars, toDos, toHost>> /\ imeReady' = FALSE
    BY <1>8, Zenon
       DEF HostConnects, Host!Connects, Host!Connect, HostNoticesBreak,
           Host!NoticesBreak, Host!ServeEnd
  <2>. QED  BY <1>0, <1>a, <1>b, <2>1
<1>9. CASE LineBreaks
  <2>1. UNCHANGED <<vars, imeReady, openSequence>> /\ Host!LineLoss
    BY <1>9, Zenon DEF LineBreaks, Host!Breaks
  <2>. QED  BY <1>a, <1>b, <1>c, <2>1
<1>10. CASE HostUser
  <2>1. /\ UNCHANGED <<pending_sequence, sequence, toHost, openSequence>>
        /\ \/ UNCHANGED <<toDos, imeReady>>
           \/ /\ \E q \in Packets : toDos' = Append(toDos, q) /\ q.seq = openSequence
              /\ imeReady /\ ~imeReady'
    BY <1>10, <1>b, HostSends, Zenon
  <2>2. CASE UNCHANGED <<toDos, imeReady>>
    BY <1>0, <1>a, <2>1, <2>2
  <2>3. ASSUME NEW q \in Packets, toDos' = Append(toDos, q), q.seq = openSequence,
               imeReady, ~imeReady'
        PROVE  RisingInv'
    <3>1. Rising(pending_sequence, Append(toDos, q), imeReady', openSequence, toHost,
                 sequence)
      BY <1>0, <2>3, RisingSends DEF RisingInv
    <3>. QED  BY <2>1, <2>3, <3>1, Zenon DEF RisingInv
  <2>. QED  BY <2>1, <2>2, <2>3, Zenon
<1>11. CASE UNCHANGED systemVars
  <2>1. UNCHANGED <<vars, toDos, toHost, imeReady, openSequence>>
    BY <1>11, Zenon DEF systemVars, hostState
  <2>. QED  BY <1>0, <1>a, <1>b, <2>1
<1>. QED
  BY <1>1, <1>2, <1>3, <1>4, <1>5, <1>6, <1>7, <1>8, <1>9, <1>10, <1>11, Zenon
     DEF SystemNext

(* The input at the head of the line is the first one for its number. *)
LEMMA FirstInput ==
  ASSUME WireInv, RisingInv, toDos # << >>
  PROVE  ~SecondInput(Head(toDos))
<1> DEFINE p == Head(toDos)
<1>1. /\ 1 \in DOMAIN toDos /\ p = toDos[1] /\ p \in Packets
  BY DEF WireInv
<1>2. Asks(p) => pending_sequence < p.seq
  BY <1>1, Zenon DEF RisingInv, Rising
<1>3. SecondInput(p) => Asks(p) /\ p.seq = pending_sequence
  BY DEF SecondInput, IsText, IsKey, ForSession, Asks
<1>4. p.seq \in Nat
  BY <1>1, PacketAssumption, WorkerAssumption DEF SeqNums
<1> HIDE DEF p
<1>5. ~SecondInput(p)
  BY <1>2, <1>3, <1>4
<1>. QED  BY <1>5 DEF p

LEMMA SystemStepOnce == WireInv /\ RisingInv /\ [SystemNext]_systemVars => [NextOnce]_vars
<1> SUFFICES ASSUME WireInv, RisingInv, SystemNext
             PROVE  NextOnce \/ UNCHANGED vars
  BY Zenon DEF systemVars
<1>1. CASE TsrReceives
  <2>1. Head(toDos) \in Packets /\ ~SecondInput(Head(toDos))
    BY <1>1, FirstInput DEF TsrReceives, WireInv
  <2>. QED  BY <1>1, <2>1, Zenon DEF TsrReceives, NextOnce
<1>2. CASE TsrStep \/ UserStroke \/ AppReads \/ KeyRelease
  BY <1>2, Zenon DEF TsrStep, UserStroke, AppReads, KeyRelease, NextOnce, User, App
<1>3. CASE \/ ClosedPortLoses \/ HostReceives \/ HostSkipsFragment
           \/ HostRejectsFragment \/ HostConnects \/ LineBreaks \/ HostNoticesBreak
           \/ HostUser
  BY <1>3, Zenon
     DEF ClosedPortLoses, HostReceives, HostSkipsFragment, HostRejectsFragment,
         HostConnects, LineBreaks, HostNoticesBreak, HostUser
<1>. QED  BY <1>1, <1>2, <1>3, Zenon DEF SystemNext

LEMMA RisingInvariant ==
  ASSUME AutomaticText = << >>
  PROVE  SystemSpec /\ []NoWrap => []RisingInv
<1>1. SystemInit => RisingInv
  <2> SUFFICES ASSUME SystemInit PROVE RisingInv
    OBVIOUS
  <2>1. /\ toDos = << >> /\ toHost = << >> /\ imeReady = FALSE
        /\ pending_sequence = 0 /\ sequence = 0
    BY DEF SystemInit, Init, Host!LineInit, Host!HostInit
  <2>. QED  BY <2>1 DEF RisingInv, Rising
<1>2. /\ TypeOK /\ WireInv /\ NoWrap /\ RisingInv /\ [SystemNext]_systemVars
      => RisingInv'
  BY RisingStep
<1>3. SystemSpec => []TypeOK /\ []WireInv
  BY WireInvariant, TypeCorrect, PTL
<1>. QED  BY <1>1, <1>2, <1>3, PTL DEF SystemSpec

(* Every step of the system is one the environment assumption allows. *)
LEMMA SystemOnce ==
  ASSUME AutomaticText = << >>
  PROVE  SystemSpec /\ []NoWrap => [][NextOnce]_vars
BY WireInvariant, RisingInvariant, SystemStepOnce, PTL DEF SystemSpec

(* The session discipline of the staged input holds in the whole system, over
   a line that loses packets and connections, as long as no number is used
   twice (foreground.c:143-180, 276-308; BridgeForm.cs:408-508). *)
THEOREM SystemKeepsSession ==
  ASSUME AutomaticText = << >>
  PROVE  SystemSpec /\ []NoWrap => []StagedInSession /\ AckInSession /\ OpenAfterAnswer
<1>1. TypeOK /\ FlagsInv /\ SessionInv /\ [NextOnce]_vars => SessionInv'
  BY SessionInvStep
<1>2. SystemSpec => Init /\ Spec
  BY WireInvariant, PTL DEF Spec
<1>3. SystemSpec /\ []NoWrap => []SessionInv
  BY <1>1, <1>2, SessionInit, TypeCorrect, FlagsInvariant, SystemOnce, PTL
<1>4. SessionInv => StagedInSession
  BY DEF SessionInv
<1>5. /\ AckInSession <=> [][AcksOpen]_vars
      /\ OpenAfterAnswer <=> [][OpensAlone]_vars
  BY DEF AckInSession, AcksOpen, OpenAfterAnswer, OpensAlone
<1>. QED
  BY <1>2, <1>3, <1>4, <1>5, AcksOpenStep, OpensAloneStep, FlagsInvariant, PTL DEF Spec

-----------------------------------------------------------------------------
(* The system implements the worker with its assumption                    *)

(* TsrWorker.tla under OneOutstanding = TRUE differs in its receiving only:
   phase by phase, its operators are those of the worker. *)
LEMMA AssumedPhases ==
  /\ FromPoll = Assumed!FromPoll /\ FromPoll' = Assumed!FromPoll'
  /\ FromText = Assumed!FromText /\ FromText' = Assumed!FromText'
  /\ FromKey = Assumed!FromKey /\ FromKey' = Assumed!FromKey'
  /\ FromOpen = Assumed!FromOpen /\ FromOpen' = Assumed!FromOpen'
  /\ FromTick = Assumed!FromTick /\ FromTick' = Assumed!FromTick'
  /\ \A phase : Enter(phase) => Assumed!Enter(phase)
<1>1. /\ FromTick = Assumed!FromTick /\ FromTick' = Assumed!FromTick'
  BY Zenon DEF FromTick, Assumed!FromTick
<1>2. /\ FromOpen = Assumed!FromOpen /\ FromOpen' = Assumed!FromOpen'
  BY <1>1, Zenon DEF FromOpen, Assumed!FromOpen
<1>3. /\ FromKey = Assumed!FromKey /\ FromKey' = Assumed!FromKey'
  BY <1>2, Zenon DEF FromKey, Assumed!FromKey, NoKey, Assumed!NoKey
<1>4. /\ FromText = Assumed!FromText /\ FromText' = Assumed!FromText'
  BY <1>3, Zenon DEF FromText, Assumed!FromText
<1>5. /\ FromPoll = Assumed!FromPoll /\ FromPoll' = Assumed!FromPoll'
  BY <1>4, Zenon DEF FromPoll, Assumed!FromPoll
<1>6. \A phase : Enter(phase) => Assumed!Enter(phase)
  BY Zenon DEF Enter, Assumed!Enter, BudgetOf, Assumed!BudgetOf
<1>. QED  BY <1>1, <1>2, <1>3, <1>4, <1>5, <1>6, Zenon

(* The words of the keys. *)
LEMMA AssumedWords ==
  /\ Space = Assumed!Space
  /\ SpaceWords = Assumed!SpaceWords
  /\ KeyWordOf = Assumed!KeyWordOf
  /\ \A text, n : WordAt(text, n) = Assumed!WordAt(text, n)
  /\ \A text, n : UnitEnd(text, n) = Assumed!UnitEnd(text, n)
<1>1. Space = Assumed!Space
  BY SMT DEF Space, Assumed!Space
<1>2. SpaceWords = Assumed!SpaceWords
  BY <1>1, Zenon DEF SpaceWords, Assumed!SpaceWords
<1>3. KeyWordOf = Assumed!KeyWordOf
  BY SMT DEF KeyWordOf, Assumed!KeyWordOf
<1>4. \A text, n : UnitEnd(text, n) = Assumed!UnitEnd(text, n)
  BY SMT DEF UnitEnd, Assumed!UnitEnd, MergesLF, Assumed!MergesLF, CR, Assumed!CR,
         LF, Assumed!LF
<1>5. \A text, n : WordAt(text, n) = Assumed!WordAt(text, n)
  BY SMT DEF WordAt, Assumed!WordAt, CR, Assumed!CR, LF, Assumed!LF, BS, Assumed!BS,
         TAB, Assumed!TAB
<1>. QED  BY <1>1, <1>2, <1>3, <1>4, <1>5, Zenon

(* Sending, and the link and the toggle with it. *)
LEMMA AssumedLink ==
  /\ \A type, seq, data : Packet(type, seq, data) = Assumed!Packet(type, seq, data)
  /\ \A p, ok : Transmit(p, ok) => Assumed!Transmit(p, ok)
  /\ \A ok : SendOpenIme(ok) => Assumed!SendOpenIme(ok)
  /\ \A ok : CloseIme(ok) => Assumed!CloseIme(ok)
  /\ \A ok : ToggleIme(ok) => Assumed!ToggleIme(ok)
  /\ ResetLink => Assumed!ResetLink
<1>1. \A type, seq, data : Packet(type, seq, data) = Assumed!Packet(type, seq, data)
  BY Zenon
     DEF Packet, Assumed!Packet
<1>2. \A p, ok : Transmit(p, ok) => Assumed!Transmit(p, ok)
  BY Zenon
     DEF Transmit, Assumed!Transmit, Packet, Assumed!Packet, Broken,
         Assumed!Broken
<1>3. CaptureEnd => Assumed!CaptureEnd
  BY Zenon
     DEF CaptureEnd, Assumed!CaptureEnd
<1>4. ResetLink => Assumed!ResetLink
  BY <1>3, Zenon
     DEF ResetLink, Assumed!ResetLink
<1>5. \A ok : SendOpenIme(ok) => Assumed!SendOpenIme(ok)
  BY <1>1, <1>2, <1>4, Zenon
     DEF SendOpenIme, Assumed!SendOpenIme, Sent, Assumed!Sent, Inc, Assumed!Inc,
         port, Assumed!port
<1>6. \A ok : CloseIme(ok) => Assumed!CloseIme(ok)
  BY <1>1, <1>2, <1>3, Zenon
     DEF CloseIme, Assumed!CloseIme, NoKey, Assumed!NoKey, port, Assumed!port
<1>7. \A ok : ToggleIme(ok) => Assumed!ToggleIme(ok)
  BY <1>6, Zenon
     DEF ToggleIme, Assumed!ToggleIme, staged, Assumed!staged, port,
         Assumed!port
<1>. QED  BY <1>1, <1>2, <1>4, <1>5, <1>6, <1>7, Zenon

(* The BIOS keyboard queue. *)
LEMMA AssumedQueue ==
  /\ Kb!Room <=> Assumed!Kb!Room
  /\ \A w : Kb!Put(w) => Assumed!Kb!Put(w)
  /\ Kb!Take => Assumed!Kb!Take
  /\ Kb!NewestIsSpace <=> Assumed!Kb!NewestIsSpace
  /\ Kb!Withdraw => Assumed!Kb!Withdraw
<1>1. Kb!Room <=> Assumed!Kb!Room
  BY Zenon
     DEF Kb!Room, Assumed!Kb!Room
<1>2. \A w : Kb!Put(w) => Assumed!Kb!Put(w)
  BY <1>1, Zenon
     DEF Kb!Put, Assumed!Kb!Put
<1>3. Kb!Take => Assumed!Kb!Take
  BY Zenon
     DEF Kb!Take, Assumed!Kb!Take
<1>4. Kb!NewestIsSpace <=> Assumed!Kb!NewestIsSpace
  BY AssumedWords, Zenon
     DEF Kb!NewestIsSpace, Assumed!Kb!NewestIsSpace
<1>5. Kb!Withdraw => Assumed!Kb!Withdraw
  BY <1>4, Zenon
     DEF Kb!Withdraw, Assumed!Kb!Withdraw
<1>. QED  BY <1>1, <1>2, <1>3, <1>4, <1>5, Zenon

(* The worker's own steps. *)
LEMMA AssumedWorker == Worker => Assumed!Worker
<1>1. ServiceQuiet => Assumed!ServiceQuiet
  BY AssumedPhases, AssumedQueue, Zenon
     DEF ServiceQuiet, Assumed!ServiceQuiet, session, Assumed!session, staged,
         Assumed!staged, port, Assumed!port, keyboard, Assumed!keyboard
<1>2. PollDone => Assumed!PollDone
  BY AssumedPhases, Zenon
     DEF PollDone, Assumed!PollDone, session, Assumed!session, staged,
         Assumed!staged, port, Assumed!port, keyboard, Assumed!keyboard
<1>3. InjectWord => Assumed!InjectWord
  BY AssumedQueue, AssumedWords, Zenon
     DEF InjectWord, Assumed!InjectWord, session, Assumed!session, port,
         Assumed!port
<1>4. InjectStall => Assumed!InjectStall
  BY AssumedPhases, AssumedQueue, Zenon
     DEF InjectStall, Assumed!InjectStall, session, Assumed!session, staged,
         Assumed!staged, port, Assumed!port, keyboard, Assumed!keyboard
<1>5. InjectKeyFull => Assumed!InjectKeyFull
  BY AssumedPhases, AssumedQueue, Zenon
     DEF InjectKeyFull, Assumed!InjectKeyFull, session, Assumed!session, staged,
         Assumed!staged, port, Assumed!port, keyboard, Assumed!keyboard
<1>6. Tick => Assumed!Tick
  BY AssumedPhases, Zenon
     DEF Tick, Assumed!Tick, staged, Assumed!staged, port, Assumed!port,
         keyboard, Assumed!keyboard
<1>7. Timeout => Assumed!Timeout
  BY AssumedPhases, AssumedLink, Zenon
     DEF Timeout, Assumed!Timeout, Staged, Assumed!Staged, NoKey, Assumed!NoKey,
         keyboard, Assumed!keyboard
<1>8. \A ok : ServiceHotkey(ok) => Assumed!ServiceHotkey(ok)
  BY AssumedPhases, AssumedLink, AssumedQueue, Zenon
     DEF ServiceHotkey, Assumed!ServiceHotkey
<1>9. \A ok : InjectFinish(ok) => Assumed!InjectFinish(ok)
  BY AssumedPhases, AssumedLink, Zenon
     DEF InjectFinish, Assumed!InjectFinish, Answered, Assumed!Answered, NoKey,
         Assumed!NoKey, port, Assumed!port, keyboard, Assumed!keyboard
<1>10. \A ok : InjectKey(ok) => Assumed!InjectKey(ok)
  BY AssumedPhases, AssumedLink, AssumedQueue, Zenon
     DEF InjectKey, Assumed!InjectKey, Answered, Assumed!Answered, NoKey,
         Assumed!NoKey, port, Assumed!port
<1>11. \A ok : OpenSession(ok) => Assumed!OpenSession(ok)
  BY AssumedPhases, AssumedLink, Zenon
     DEF OpenSession, Assumed!OpenSession, staged, Assumed!staged, keyboard,
         Assumed!keyboard
<1>12. \A ok : StartLink(ok) => Assumed!StartLink(ok)
  BY AssumedPhases, Zenon
     DEF StartLink, Assumed!StartLink, Inc, Assumed!Inc, Broken, Assumed!Broken,
         Packet, Assumed!Packet, staged, Assumed!staged, keyboard,
         Assumed!keyboard
<1>. QED
  BY <1>1, <1>2, <1>3, <1>4, <1>5, <1>6, <1>7, <1>8, <1>9, <1>10, <1>11, <1>12,
     Zenon DEF Worker, Assumed!Worker

(* The steps of the user and of the application. *)
LEMMA AssumedUser ==
  /\ User => Assumed!User
  /\ App => Assumed!App
<1>1. \A w : KeyPress(w) => Assumed!KeyPress(w)
  BY AssumedQueue, AssumedWords, Zenon
     DEF KeyPress, Assumed!KeyPress, session, Assumed!session, staged,
         Assumed!staged, port, Assumed!port
<1>2. HotkeyPress => Assumed!HotkeyPress
  BY AssumedQueue, AssumedWords, Zenon
     DEF HotkeyPress, Assumed!HotkeyPress, session, Assumed!session, staged,
         Assumed!staged, port, Assumed!port
<1>3. HotkeyRelease => Assumed!HotkeyRelease
  BY Zenon
     DEF HotkeyRelease, Assumed!HotkeyRelease, session, Assumed!session, staged,
         Assumed!staged, port, Assumed!port
<1>4. ReturnsHotkey <=> Assumed!ReturnsHotkey
  BY AssumedWords, Zenon
     DEF ReturnsHotkey, Assumed!ReturnsHotkey
<1>5. AppRead => Assumed!AppRead
  BY <1>4, AssumedQueue, Zenon
     DEF AppRead, Assumed!AppRead, session, Assumed!session, staged,
         Assumed!staged, port, Assumed!port
<1>6. \A ok : ReturnedHotkey(ok) => Assumed!ReturnedHotkey(ok)
  BY <1>4, AssumedQueue, AssumedLink, Zenon
     DEF ReturnedHotkey, Assumed!ReturnedHotkey
<1>. QED
  BY <1>1, <1>2, <1>3, <1>5, <1>6, Zenon DEF User, Assumed!User, App, Assumed!App

(* Receiving: a packet that is not a second input is taken the same way. *)
LEMMA AssumedReceive ==
  ASSUME NEW p, NEW ok, PollPacket(p, ok), ~SecondInput(p)
  PROVE  Assumed!PollPacket(p, ok)
<1>1. /\ IsPong(p) <=> Assumed!IsPong(p)
      /\ IsText(p) <=> Assumed!IsText(p)
      /\ IsKey(p) <=> Assumed!IsKey(p)
      /\ IsClose(p) <=> Assumed!IsClose(p)
  BY AssumedWords, Zenon
     DEF IsPong, Assumed!IsPong, IsText, Assumed!IsText, IsKey, Assumed!IsKey,
         IsClose, Assumed!IsClose, ForSession, Assumed!ForSession
<1>2. HandlePong(p, ok) => Assumed!HandlePong(p, ok)
  BY <1>1, AssumedLink, Zenon
     DEF HandlePong, Assumed!HandlePong, staged, Assumed!staged, port,
         Assumed!port
<1>3. HandleText(p) => Assumed!HandleText(p)
  BY <1>1, Zenon
     DEF HandleText, Assumed!HandleText, NoKey, Assumed!NoKey, port,
         Assumed!port
<1>4. HandleKey(p) => Assumed!HandleKey(p)
  BY <1>1, AssumedWords, Zenon
     DEF HandleKey, Assumed!HandleKey, port, Assumed!port
<1>5. HandleClose(p, ok) => Assumed!HandleClose(p, ok)
  BY <1>1, AssumedLink, Zenon
     DEF HandleClose, Assumed!HandleClose
<1>6. HandleOther(p) => Assumed!HandleOther(p)
  BY <1>1, Zenon
     DEF HandleOther, Assumed!HandleOther, session, Assumed!session, staged,
         Assumed!staged, port, Assumed!port
<1>7. ~Assumed!SecondInput(p)
  BY <1>1, Zenon
     DEF SecondInput, Assumed!SecondInput
<1>. QED
  BY <1>2, <1>3, <1>4, <1>5, <1>6, <1>7, AssumedPhases, Zenon
     DEF PollPacket, Assumed!PollPacket, keyboard, Assumed!keyboard


(* Every step of the worker that takes no second input is one of the assumed
   worker. *)
LEMMA AssumedStep == [NextOnce]_vars => [Assumed!Next]_(Assumed!vars)
<1>1. vars = Assumed!vars
  BY Zenon DEF vars, Assumed!vars, session, Assumed!session, staged, Assumed!staged,
               port, Assumed!port, keyboard, Assumed!keyboard
<1>2. vars' = Assumed!vars'
  BY Zenon DEF vars, Assumed!vars, session, Assumed!session, staged, Assumed!staged,
               port, Assumed!port, keyboard, Assumed!keyboard
<1>3. NextOnce => Assumed!Next
  BY AssumedWorker, AssumedUser, AssumedReceive, Zenon
     DEF NextOnce, Assumed!Next, Assumed!Receive
<1>. QED  BY <1>1, <1>2, <1>3, Zenon

(* Joined to the real bridge over a faulty line, the worker is the worker of
   TsrWorker.tla whose host sends one input for each OPEN_IME, as long as no
   number is used twice (BridgeForm.cs:408-508, foreground.c:143-180). *)
THEOREM TsrIsAsAssumed ==
  ASSUME AutomaticText = << >>
  PROVE  SystemSpec /\ []NoWrap => TsrAsAssumed
<1>1. Init => Assumed!Init
  BY Zenon DEF Init, Assumed!Init, NoKey, Assumed!NoKey
<1>. QED
  BY <1>1, WireInvariant, SystemOnce, AssumedStep, PTL
     DEF Spec, TsrAsAssumed, Assumed!Spec

-----------------------------------------------------------------------------
(* The bridge is ready for the session that is open                        *)

(* What the bridge will be once it has read the wire: ready for session seq. *)
Readies(wire, ready, open, seq) ==
  \/ \E n \in 1 .. Len(wire) :
       /\ Opens(wire[n]) /\ wire[n].seq = seq
       /\ \A m \in 1 .. Len(wire) : m > n => ~Decides(wire[m])
  \/ /\ ready /\ open = seq
     /\ \A m \in 1 .. Len(wire) : ~Decides(wire[m])

(* The PC-98 waits for an input of session seq, or gave up. *)
Awaits(seq) == link_state # "READY" \/ (ime_active /\ open_sequence = seq)

(* Packets under way included, the bridge is ready for no session but the
   one the PC-98 has open. *)
ReadyInv ==
  /\ stream # "up" => toHost = << >>
  /\ NothingCutOff
  /\ imeReady => ~outstanding
  /\ stream = "up" =>
       \A seq \in SeqNums :
         Readies(toHost, imeReady, openSequence, seq) => Awaits(seq)

LEMMA OpensDecides == \A p : Opens(p) => Decides(p)
BY DEF Opens, Decides

(* One more packet on the wire decides, or leaves it to those before it. *)
LEMMA ReadiesAppend ==
  ASSUME NEW S, NEW wire \in Seq(S), NEW p \in S, NEW ready, NEW open, NEW seq,
         Readies(Append(wire, p), ready, open, seq)
  PROVE  (Opens(p) /\ p.seq = seq) \/ (~Decides(p) /\ Readies(wire, ready, open, seq))
<1> DEFINE w == Append(wire, p)
<1>1. /\ Len(wire) \in Nat /\ Len(w) = Len(wire) + 1 /\ w[Len(w)] = p
      /\ \A m \in 1 .. Len(wire) : w[m] = wire[m]
  OBVIOUS
<1>2. Readies(w, ready, open, seq)
  OBVIOUS
<1> HIDE DEF w
<1>3. CASE ready /\ open = seq /\ \A m \in 1 .. Len(w) : ~Decides(w[m])
  BY <1>1, <1>3 DEF Readies
<1>4. ASSUME NEW n \in 1 .. Len(w), Opens(w[n]), w[n].seq = seq,
             \A m \in 1 .. Len(w) : m > n => ~Decides(w[m])
      PROVE  (Opens(p) /\ p.seq = seq) \/ (~Decides(p) /\ Readies(wire, ready, open, seq))
  <2>1. CASE n = Len(w)
    BY <1>1, <1>4, <2>1
  <2>2. CASE n # Len(w)
    <3>1. n \in 1 .. Len(wire) /\ Len(w) \in 1 .. Len(w) /\ Len(w) > n
      BY <1>1, <2>2
    <3>2. ~Decides(p)
      BY <1>1, <1>4, <3>1
    <3>3. /\ Opens(wire[n]) /\ wire[n].seq = seq
          /\ \A m \in 1 .. Len(wire) : m > n => ~Decides(wire[m])
      BY <1>1, <1>4, <3>1
    <3>. QED  BY <3>1, <3>2, <3>3 DEF Readies
  <2>. QED  BY <2>1, <2>2
<1>. QED  BY <1>2, <1>3, <1>4 DEF Readies

(* Reading the first packet changes nothing of what the bridge will be. *)
LEMMA ReadiesTail ==
  ASSUME NEW S, NEW wire \in Seq(S), wire # << >>,
         NEW ready, NEW open, NEW ready2, NEW open2, NEW seq,
         ready2 => \/ ready /\ open2 = open /\ ~Decides(Head(wire))
                   \/ Opens(Head(wire)) /\ open2 = Head(wire).seq,
         Readies(Tail(wire), ready2, open2, seq)
  PROVE  Readies(wire, ready, open, seq)
<1> DEFINE w == Tail(wire)
<1>1. /\ Len(wire) \in Nat \ {0} /\ Len(w) = Len(wire) - 1 /\ Head(wire) = wire[1]
      /\ \A m \in 1 .. Len(w) : w[m] = wire[m + 1]
  OBVIOUS
<1>2. \A m \in 2 .. Len(wire) : m - 1 \in 1 .. Len(w) /\ wire[m] = w[m - 1]
  BY <1>1
<1>3. Readies(w, ready2, open2, seq)
  OBVIOUS
<1> HIDE DEF w
<1>4. CASE ready2 /\ open2 = seq /\ \A m \in 1 .. Len(w) : ~Decides(w[m])
  <2>1. \A m \in 1 .. Len(wire) : m > 1 => ~Decides(wire[m])
    BY <1>1, <1>2, <1>4
  <2>2. CASE Opens(wire[1]) /\ open2 = wire[1].seq
    BY <1>1, <1>4, <2>1, <2>2 DEF Readies
  <2>3. CASE ready /\ open2 = open /\ ~Decides(wire[1])
    <3>1. \A m \in 1 .. Len(wire) : ~Decides(wire[m])
      BY <1>1, <2>1, <2>3
    <3>. QED  BY <1>4, <2>3, <3>1 DEF Readies
  <2>. QED  BY <1>1, <1>4, <2>2, <2>3
<1>5. ASSUME NEW n \in 1 .. Len(w), Opens(w[n]), w[n].seq = seq,
             \A m \in 1 .. Len(w) : m > n => ~Decides(w[m])
      PROVE  Readies(wire, ready, open, seq)
  <2>1. n + 1 \in 1 .. Len(wire) /\ wire[n + 1] = w[n]
    BY <1>1
  <2>2. \A m \in 1 .. Len(wire) : m > n + 1 => ~Decides(wire[m])
    BY <1>1, <1>2, <1>5
  <2>. QED  BY <1>5, <2>1, <2>2 DEF Readies
<1>. QED  BY <1>3, <1>4, <1>5 DEF Readies

(* What a step of the PC-98 transmits fits what it does to the session, or is
   a piece of a packet. *)
LEMMA TsrReadies ==
  ASSUME FlagsInv, Next
  PROVE  \/ /\ tx' = << >>
            /\ link_state' # "READY" \/ UNCHANGED <<link_state, ime_active, open_sequence>>
         \/ tx' = <<Broken>>
         \/ \E p : /\ tx' = <<p>> /\ p.type # "BROKEN"
                   /\ Decides(p) \/ link_state' # "READY"
                   /\ Opens(p) => ime_active' /\ open_sequence' = p.seq
<1> DEFINE Quiet ==
             /\ tx' = << >>
             /\ link_state' # "READY" \/ UNCHANGED <<link_state, ime_active, open_sequence>>
           Sound(p) ==
             /\ tx' = <<p>> /\ p.type # "BROKEN"
             /\ Decides(p) \/ link_state' # "READY"
             /\ Opens(p) => ime_active' /\ open_sequence' = p.seq
           Goal == Quiet \/ tx' = <<Broken>> \/ \E p : Sound(p)
<1> SUFFICES Goal
  OBVIOUS
<1> HIDE DEF Goal
<1>a. ASSUME Quiet PROVE Goal
  BY <1>a DEF Goal
<1>b. ASSUME NEW p, Sound(p) PROVE Goal
  BY <1>b, Zenon DEF Goal
<1>0. /\ serial_opened <=> link_state # "CLOSED"
      /\ link_state = "HELLO_WAIT" => open_pending
  BY DEF FlagsInv, SessionFlags, PortOwnership
<1> HIDE DEF Quiet, Sound
<1>ok. \A ok \in TxOutcomes : ok = TRUE \/ ok = FALSE
  BY WorkerAssumption
<1>z. ASSUME NEW p, Transmit(p, FALSE), serial_opened
      PROVE  Goal
  BY <1>z DEF Transmit, Goal
<1>c. ASSUME NEW ok \in TxOutcomes, SendOpenIme(ok)
      PROVE  Goal
  <2> DEFINE p == Packet("OPEN_IME", Inc(sequence), << >>)
  <2>1. CASE serial_opened /\ ok = TRUE
    <3>1. Sound(p)
      BY <1>c, <2>1 DEF SendOpenIme, Transmit, Sent, Packet, Decides, Opens, Sound
    <3>. QED  BY <1>b, <3>1, Zenon
  <2>3. CASE serial_opened /\ ok = FALSE
    BY <1>c, <1>z, <2>3 DEF SendOpenIme
  <2>2. CASE ~serial_opened
    <3>1. Quiet
      BY <1>c, <2>2 DEF SendOpenIme, Transmit, Sent, ResetLink, Quiet
    <3>. QED  BY <1>a, <3>1, Zenon
  <2>. QED  BY <1>ok, <2>1, <2>2, <2>3
<1>d. ASSUME NEW type \in {"CLOSE_IME", "TEXT_ACK", "KEY_ACK"}, NEW seq,
             NEW ok \in TxOutcomes, Transmit(Packet(type, seq, << >>), ok), serial_opened
      PROVE  Goal
  <2>1. CASE ok = TRUE
    <3>1. Sound(Packet(type, seq, << >>))
      BY <1>d, <2>1 DEF Transmit, Packet, Decides, Opens, Sound
    <3>. QED  BY <1>b, <3>1, Zenon
  <2>2. CASE ok = FALSE
    BY <1>d, <1>z, <2>2
  <2>. QED  BY <1>ok, <2>1, <2>2
<1>e. ASSUME NEW ok \in TxOutcomes, CloseIme(ok)
      PROVE  Goal
  <2>1. CASE link_state = "READY"
    BY <1>0, <1>d, <1>e, <2>1 DEF CloseIme
  <2>2. CASE link_state # "READY"
    <3>1. Quiet
      BY <1>e, <2>2 DEF CloseIme, Quiet
    <3>. QED  BY <1>a, <3>1, Zenon
  <2>. QED  BY <2>1, <2>2
<1>f. ASSUME NEW type \in {"TEXT_ACK", "KEY_ACK"}, NEW seq, NEW ok \in TxOutcomes,
             Transmit(Packet(type, seq, << >>), ok), UNCHANGED link_state
      PROVE  Goal
  <2>1. CASE serial_opened
    BY <1>d, <1>f, <2>1
  <2>2. CASE ~serial_opened
    <3>1. Quiet
      BY <1>0, <1>f, <2>2 DEF Transmit, Quiet
    <3>. QED  BY <1>a, <3>1, Zenon
  <2>. QED  BY <2>1, <2>2
<1>1. ASSUME NEW ok \in TxOutcomes, ServiceHotkey(ok) \/ ReturnedHotkey(ok)
      PROVE  Goal
  <2>1. ToggleIme(ok)
    BY <1>1, Zenon DEF ServiceHotkey, ReturnedHotkey
  <2>2. CASE CloseIme(ok)
    BY <1>e, <2>2
  <2>3. CASE ~CloseIme(ok)
    <3>1. Quiet
      BY <2>1, <2>3, Zenon DEF ToggleIme, Quiet
    <3>. QED  BY <1>a, <3>1, Zenon
  <2>. QED  BY <2>2, <2>3
<1>2. ASSUME NEW p, NEW ok \in TxOutcomes, PollPacket(p, ok)
      PROVE  Goal
  <2>1. CASE HandlePong(p, ok)
    BY <1>0, <1>c, <2>1, Zenon DEF HandlePong, IsPong
  <2>2. CASE HandleText(p) \/ HandleKey(p) \/ HandleOther(p)
    <3>1. Quiet
      BY <2>2, Zenon DEF HandleText, HandleKey, HandleOther, session, Quiet
    <3>. QED  BY <1>a, <3>1, Zenon
  <2>3. CASE HandleClose(p, ok)
    BY <1>e, <2>3, Zenon DEF HandleClose
  <2>. QED  BY <1>2, <2>1, <2>2, <2>3, Zenon DEF PollPacket
<1>3. ASSUME NEW ok \in TxOutcomes, InjectFinish(ok) \/ InjectKey(ok)
      PROVE  Goal
  <2>1. UNCHANGED link_state
    BY <1>3, Zenon DEF InjectFinish, InjectKey, Answered
  <2>2. \/ Transmit(Packet("TEXT_ACK", pending_sequence, << >>), ok)
        \/ Transmit(Packet("KEY_ACK", pending_sequence, << >>), ok)
    BY <1>3, Zenon DEF InjectFinish, InjectKey
  <2>. QED  BY <1>f, <2>1, <2>2
<1>4. ASSUME NEW ok \in TxOutcomes, OpenSession(ok)
      PROVE  Goal
  BY <1>c, <1>4, Zenon DEF OpenSession
<1>5. ASSUME NEW ok \in TxOutcomes, StartLink(ok)
      PROVE  Goal
  <2>1. CASE ok = TRUE
    <3>1. Sound(Packet("HELLO", Inc(sequence), << >>))
      BY <1>5, <2>1 DEF StartLink, Packet, Opens, Sound
    <3>. QED  BY <1>b, <3>1, Zenon
  <2>2. CASE ok = FALSE
    BY <1>5, <2>2 DEF StartLink, Goal
  <2>. QED  BY <1>ok, <2>1, <2>2
<1>6. CASE Tick \/ Timeout
  <2>1. Quiet
    BY <1>6 DEF Tick, Timeout, ResetLink, Quiet
  <2>. QED  BY <1>a, <2>1, Zenon
<1>7. CASE \/ ServiceQuiet \/ PollDone \/ InjectWord \/ InjectStall
           \/ InjectKeyFull \/ HotkeyPress \/ HotkeyRelease
           \/ AppRead \/ \E w \in UserWords : KeyPress(w)
  <2>1. Quiet
    BY <1>7, Zenon
       DEF ServiceQuiet, PollDone, InjectWord, InjectStall, InjectKeyFull,
           HotkeyPress, HotkeyRelease, AppRead, KeyPress, session, Quiet
  <2>. QED  BY <1>a, <2>1, Zenon
<1>. QED
  BY <1>1, <1>2, <1>3, <1>4, <1>5, <1>6, <1>7, Zenon
     DEF Next, Worker, Receive, User, App

(* A step of the PC-98 with what it transmits. *)
LEMMA ReadyUplink ==
  ASSUME TypeOK, FlagsInv, WireInv, ReadyInv, Next, Uplink, NothingCutOff',
         UNCHANGED <<stream, openSequence, imeReady, outstanding>>
  PROVE  ReadyInv'
<1>0. toHost \in Seq(Uplinks)
  BY DEF WireInv
<1>1. CASE stream # "up"
  <2>1. toHost' = toHost
    BY <1>1 DEF Uplink, Host!Carry
  <2>. QED  BY <1>1, <2>1 DEF ReadyInv, NothingCutOff
<1>2. CASE stream = "up" /\ tx' = << >>
  <2>1. toHost' = toHost
    BY <1>0, <1>2 DEF Uplink, Host!Carry
  <2>2. link_state' # "READY" \/ UNCHANGED <<link_state, ime_active, open_sequence>>
    BY <1>2, TsrReadies
  <2>3. \A seq : Awaits(seq) => Awaits(seq)'
    BY <2>2, Zenon DEF Awaits
  <2>. QED  BY <1>2, <2>1, <2>3 DEF ReadyInv, NothingCutOff
<1>3. ASSUME NEW p, tx' = <<p>>, p.type # "BROKEN", stream = "up",
             Decides(p) \/ link_state' # "READY",
             Opens(p) => ime_active' /\ open_sequence' = p.seq
      PROVE  ReadyInv'
  <2>1. p \in Uplinks
    <3>1. PICK q \in Uplinks : tx' = <<q>>
      BY <1>3, TsrSends
    <3>. QED  BY <1>3, <3>1
  <2>2. toHost' = Append(toHost, p)
    BY <1>0, <1>3, <2>1 DEF Uplink, Host!Carry
  <2>3. NothingCutOff'
    <3>1. \A n \in 1 .. Len(toHost') :
            toHost'[n] = p \/ (n \in 1 .. Len(toHost) /\ toHost'[n] = toHost[n])
      BY <1>0, <2>1, <2>2
    <3>. QED  BY <1>3, <3>1 DEF NothingCutOff, ReadyInv
  <2>4. ASSUME NEW seq \in SeqNums, Readies(toHost', imeReady, openSequence, seq)
        PROVE  Awaits(seq)'
    <3>1. (Opens(p) /\ p.seq = seq) \/ ~Decides(p)
      BY <1>0, <2>1, <2>2, <2>4, ReadiesAppend
    <3>. QED  BY <1>3, <3>1 DEF Awaits
  <2>. QED  BY <1>3, <2>3, <2>4 DEF ReadyInv
<1>4. CASE stream = "up" /\ tx' = <<Broken>>
  <2>1. Broken \in Uplinks
    <3>1. PICK q \in Uplinks : tx' = <<q>>
      BY <1>4, TsrSends
    <3>. QED  BY <1>4, <3>1
  <2>2. toHost' = Append(toHost, Broken)
    BY <1>0, <1>4, <2>1 DEF Uplink, Host!Carry
  <2>3. Len(toHost') \in 1 .. Len(toHost') /\ toHost'[Len(toHost')] = Broken
    BY <1>0, <2>1, <2>2
  <2>. QED  BY <2>3 DEF NothingCutOff, Broken, Packet
<1>. QED  BY <1>1, <1>2, <1>3, <1>4, TsrReadies

(* Reading a packet makes the bridge what it was going to be. *)
LEMMA ReadyServes ==
  ASSUME AutomaticText = << >>, WireInv, ReadyInv, HostReceives
  PROVE  ReadyInv'
<1> DEFINE p == Head(toHost)
<1>0. toHost \in Seq(Uplinks)
  BY DEF WireInv
<1>1. /\ toHost # << >> /\ toHost' = Tail(toHost)
      /\ imeReady' => \/ imeReady /\ openSequence' = openSequence /\ ~Decides(p)
                      \/ Opens(p) /\ openSequence' = p.seq
  BY HostServes, Zenon
<1>2. UNCHANGED <<vars, stream>> /\ stream = "up"
  BY DEF HostReceives, Host!Serves, Host!Receive, Host!ReceiveHello, Host!ReceivePing,
         Host!ReceiveOpen, Host!ReceiveClose, Host!ReceiveAck
<1>3. NothingCutOff'
  <2>1. \A n \in 1 .. Len(toHost') :
          n + 1 \in 1 .. Len(toHost) /\ toHost'[n] = toHost[n + 1]
    BY <1>0, <1>1
  <2>. QED  BY <2>1 DEF NothingCutOff, ReadyInv
<1>4. imeReady' => ~outstanding'
  <2>1. CASE Opens(p)
    <3>1. toDos' = toDos
      BY <2>1 DEF Opens, HostReceives, Host!Serves, Host!Receive, Host!ReceiveHello,
         Host!ReceivePing, Host!ReceiveOpen, Host!ReceiveClose, Host!ReceiveAck
    <3>. QED  BY <2>1, <3>1 DEF Opens, HostReceives
  <2>2. CASE imeReady /\ ~Decides(p)
    <3>1. UNCHANGED history
      BY <2>2 DEF Decides, HostReceives
    <3>. QED  BY <2>2, <3>1 DEF history, ReadyInv
  <2>. QED  BY <1>1, <2>1, <2>2
<1>5. ASSUME NEW seq \in SeqNums, Readies(toHost', imeReady', openSequence', seq)
      PROVE  Awaits(seq)'
  <2>1. Readies(toHost, imeReady, openSequence, seq)
    <3> DEFINE ready2 == imeReady'
               open2 == openSequence'
    <3>1. ready2 => \/ imeReady /\ open2 = openSequence /\ ~Decides(Head(toHost))
                    \/ Opens(Head(toHost)) /\ open2 = Head(toHost).seq
      BY <1>1
    <3>2. Readies(Tail(toHost), ready2, open2, seq)
      BY <1>1, <1>5
    <3> HIDE DEF ready2, open2
    <3>. QED  BY <1>0, <1>1, <3>1, <3>2, ReadiesTail
  <2>2. Awaits(seq)
    BY <1>2, <2>1 DEF ReadyInv
  <2>. QED  BY <1>2, <2>2, Zenon DEF Awaits, vars, session
<1>. QED  BY <1>2, <1>3, <1>4, <1>5 DEF ReadyInv

(* What the user sends ends the readiness. *)
LEMMA ReadySends ==
  ASSUME WireInv, ReadyInv, HostUser
  PROVE  ReadyInv'
<1>1. /\ UNCHANGED <<vars, toHost, openSequence>>
      /\ UNCHANGED <<toDos, imeReady>> \/ (imeReady /\ ~imeReady')
  BY HostSends, Zenon
<1>2. stream' = stream
  BY Zenon DEF HostUser, Host!TypeText, Host!SendText, Host!SendKey, Host!ClearInput,
               Host!SendCloseIme
<1>3. imeReady' => ~outstanding'
  <2>1. CASE UNCHANGED <<toDos, imeReady>>
    BY <2>1 DEF HostUser, NoteSend, history, ReadyInv
  <2>. QED  BY <1>1, <2>1
<1>4. NothingCutOff'
  BY <1>1 DEF NothingCutOff, ReadyInv
<1>5. \A seq : Readies(toHost', imeReady', openSequence', seq) =>
                 Readies(toHost, imeReady, openSequence, seq)
  BY <1>1, Zenon DEF Readies
<1>6. \A seq : Awaits(seq) => Awaits(seq)'
  BY <1>1, Zenon DEF Awaits, vars, session
<1>. QED  BY <1>1, <1>2, <1>3, <1>4, <1>5, <1>6 DEF ReadyInv

LEMMA ReadyInvStep ==
  ASSUME AutomaticText = << >>,
         TypeOK, FlagsInv, WireInv, ReadyInv, [SystemNext]_systemVars, NothingCutOff'
  PROVE  ReadyInv'
<1>1. CASE TsrStep \/ UserStroke \/ AppReads
  <2>1. Next /\ Uplink /\ UNCHANGED <<stream, openSequence, imeReady, outstanding>>
    BY <1>1, Zenon DEF TsrStep, UserStroke, AppReads, Next, User, App, history, hostState
  <2>. QED  BY <2>1, ReadyUplink
<1>2. CASE TsrReceives
  <2>1. Head(toDos) \in Packets
    BY <1>2 DEF TsrReceives, WireInv
  <2>2. Next /\ Uplink /\ UNCHANGED <<stream, openSequence, imeReady, outstanding>>
    BY <1>2, <2>1, Zenon DEF TsrReceives, Next, Receive, history
  <2>. QED  BY <2>2, ReadyUplink
<1>3. CASE ClosedPortLoses \/ KeyRelease \/ UNCHANGED systemVars
  <2>1. UNCHANGED <<session, stream, openSequence, imeReady, toHost, outstanding>>
    BY <1>3, Zenon
       DEF ClosedPortLoses, KeyRelease, HotkeyRelease, hostState, history, systemVars, vars
  <2>. QED  BY <2>1 DEF session, ReadyInv, NothingCutOff, Awaits
<1>4. CASE HostReceives
  BY <1>4, ReadyServes
<1>5. CASE HostSkipsFragment
  <2>1. toHost # << >> /\ Head(toHost) = Host!Broken
    BY <1>5, Zenon DEF HostSkipsFragment, Host!SkipsFragment
  <2>2. toHost \in Seq(Uplinks) /\ toHost[1].type # "BROKEN"
    <3>1. toHost \in Seq(Uplinks) /\ Len(toHost) \in Nat /\ Len(toHost) # 0
      BY <2>1 DEF WireInv
    <3>. QED  BY <3>1 DEF ReadyInv, NothingCutOff
  <2>. QED  BY <2>1, <2>2 DEF Host!Broken, Host!Message
<1>6. CASE HostRejectsFragment \/ LineBreaks
  <2>1. toHost' = << >> /\ stream' # "up" /\ (imeReady' => imeReady /\ UNCHANGED outstanding)
    BY <1>6
       DEF HostRejectsFragment, Host!RejectsFragment, Host!ServeEnd, Host!LineLoss,
           LineBreaks, Host!Breaks, history
  <2>. QED  BY <2>1 DEF ReadyInv, NothingCutOff
<1>7. CASE HostConnects \/ HostNoticesBreak
  <2>1. toHost' = << >> /\ imeReady' = FALSE
    BY <1>7
       DEF HostConnects, Host!Connects, Host!Connect, HostNoticesBreak,
           Host!NoticesBreak, Host!ServeEnd, ReadyInv
  <2>. QED  BY <2>1 DEF ReadyInv, NothingCutOff, Readies
<1>8. CASE HostUser
  BY <1>8, ReadySends
<1>. QED
  BY <1>1, <1>2, <1>3, <1>4, <1>5, <1>6, <1>7, <1>8, Zenon DEF SystemNext

(* When the bridge lets the user type and nothing is under way to it, the
   PC-98 waits for exactly that OPEN_IME or has given up: connections may
   break and transmits may time out, as long as no piece of a packet comes
   onto the line to the bridge (BridgeForm.cs:408-437, foreground.c:87-115,
   392-397). *)
THEOREM ReadyForOpenSession ==
  ASSUME AutomaticText = << >>
  PROVE  SystemSpec => ReadyMeansOpen
<1> DEFINE OpenWhenReady ==
             imeReady /\ stream = "up" /\ toHost = << >> =>
               \/ link_state # "READY"
               \/ ime_active /\ open_sequence = openSequence /\ ~outstanding
<1>1. SystemInit => ReadyInv
  <2> SUFFICES ASSUME SystemInit PROVE ReadyInv
    OBVIOUS
  <2>1. toHost = << >> /\ imeReady = FALSE /\ stream = "none"
    BY DEF SystemInit, Host!LineInit, Host!HostInit
  <2>. QED  BY <2>1 DEF ReadyInv, NothingCutOff
<1>2. /\ TypeOK /\ FlagsInv /\ WireInv /\ ReadyInv /\ [SystemNext]_systemVars
      /\ NothingCutOff'
      => ReadyInv'
  BY ReadyInvStep
<1>3. SystemSpec => []TypeOK /\ []FlagsInv /\ []WireInv
  BY WireInvariant, TypeCorrect, FlagsInvariant, PTL
<1>4. WireInv /\ ReadyInv => OpenWhenReady
  <2> SUFFICES ASSUME WireInv, ReadyInv, imeReady, stream = "up", toHost = << >>
               PROVE  link_state # "READY" \/ (ime_active /\ open_sequence = openSequence
                                                 /\ ~outstanding)
    OBVIOUS
  <2>1. Readies(toHost, imeReady, openSequence, openSequence) /\ openSequence \in SeqNums
    BY DEF Readies, WireInv
  <2>2. Awaits(openSequence) /\ ~outstanding
    BY <2>1 DEF ReadyInv
  <2>. QED  BY <2>2 DEF Awaits
<1>. QED  BY <1>1, <1>2, <1>3, <1>4, PTL DEF SystemSpec, ReadyMeansOpen

-----------------------------------------------------------------------------
(* An input enters the queue once at most                                  *)

(* The history tells inputs apart by their first words. *)
Distinct ==
  \A m, n \in InputNumbers : FirstWord(UserInputs[m]) = FirstWord(UserInputs[n]) => m = n

(* The words that are staged and would be the first of their input in the
   queue. *)
FreshText ==
  IF pending_text # << >> /\ pending_offset = 0 THEN {WordAt(pending_text, 1)} ELSE {}

FreshKey == IF pending_key # NoKey THEN {pending_key} ELSE {}

(* The input with this first word was sent, and is not in the queue. *)
Waiting(words, done, word) ==
  \E n \in DOMAIN words : words[n] = word /\ \A i \in DOMAIN done : done[i] # n

(* Every input on the line to the PC-98 and in its staging buffer was sent,
   did not enter the queue yet, and is there once. *)
Once(words, done, dos, text, key) ==
  /\ \A i \in DOMAIN done : done[i] \in DOMAIN words
  /\ \A i \in DOMAIN dos : Asks(dos[i]) =>
       /\ Waiting(words, done, FirstWord(dos[i]))
       /\ FirstWord(dos[i]) \notin text \cup key
       /\ \A j \in DOMAIN dos :
            i < j /\ Asks(dos[j]) => FirstWord(dos[i]) # FirstWord(dos[j])
  /\ \A word \in text \cup key : Waiting(words, done, word)
  /\ text \cap key = {}

(* The user's inputs were sent in their order; the text in the box is the
   next one. *)
SentInv ==
  /\ Len(sent) <= Len(UserInputs)
  /\ \A n \in DOMAIN sent : sent[n] = FirstWord(UserInputs[n])
  /\ input # << >> => NextIs("TEXT") /\ input = NextData
  /\ delivered \in Seq(Nat)

(* An injection runs on something staged. *)
InjectsStaged ==
  /\ pc = "text" => pending_text # << >>
  /\ pc = "key" => pending_key # NoKey

OnceInv ==
  /\ SentInv
  /\ InjectsStaged
  /\ Once(sent, delivered, toDos, FreshText, FreshKey)

(* Losing packets and staged input leaves each of the others once. *)
LEMMA OnceShrinks ==
  ASSUME NEW words, NEW done, NEW dos \in Seq(Packets), NEW dos2 \in Seq(Packets),
         NEW text, NEW text2, NEW key, NEW key2,
         Once(words, done, dos, text, key),
         Within(dos2, dos), text2 \subseteq text, key2 \subseteq key
  PROVE  Once(words, done, dos2, text2, key2)
<1>1. PICK d \in Nat : \A i \in DOMAIN dos2 : i + d \in DOMAIN dos /\ dos2[i] = dos[i + d]
  BY DEF Within
<1>2. \A i \in DOMAIN dos2 : i \in Nat
  OBVIOUS
<1>3. ASSUME NEW i \in DOMAIN dos2, Asks(dos2[i])
      PROVE  /\ Waiting(words, done, FirstWord(dos2[i]))
             /\ FirstWord(dos2[i]) \notin text2 \cup key2
             /\ \A j \in DOMAIN dos2 :
                  i < j /\ Asks(dos2[j]) => FirstWord(dos2[i]) # FirstWord(dos2[j])
  <2>1. i + d \in DOMAIN dos /\ dos2[i] = dos[i + d] /\ Asks(dos[i + d])
    BY <1>1, <1>3
  <2>2. /\ Waiting(words, done, FirstWord(dos[i + d]))
        /\ FirstWord(dos[i + d]) \notin text \cup key
        /\ \A j \in DOMAIN dos :
             i + d < j /\ Asks(dos[j]) => FirstWord(dos[i + d]) # FirstWord(dos[j])
    BY <2>1, Zenon DEF Once
  <2>3. ASSUME NEW j \in DOMAIN dos2, i < j, Asks(dos2[j])
        PROVE  FirstWord(dos2[i]) # FirstWord(dos2[j])
    <3>1. j + d \in DOMAIN dos /\ dos2[j] = dos[j + d] /\ i + d < j + d
      BY <1>1, <1>2, <2>3
    <3>. QED  BY <2>1, <2>2, <2>3, <3>1, Zenon
  <2>. QED  BY <2>1, <2>2, <2>3, Zenon
<1>4. \A word \in text2 \cup key2 : Waiting(words, done, word)
  BY Zenon DEF Once
<1>5. text2 \cap key2 = {} /\ \A i \in DOMAIN done : done[i] \in DOMAIN words
  BY Zenon DEF Once
<1>. QED  BY <1>3, <1>4, <1>5, Zenon DEF Once

(* An input moves from the line into the staging buffer. *)
LEMMA OnceTakes ==
  ASSUME NEW words, NEW done, NEW dos \in Seq(Packets),
         NEW text, NEW text2, NEW key, NEW key2,
         Once(words, done, dos, text, key), dos # << >>, Asks(Head(dos)),
         \/ text2 \subseteq {FirstWord(Head(dos))} /\ key2 \subseteq key
         \/ text2 \subseteq text /\ key2 \subseteq {FirstWord(Head(dos))}
  PROVE  Once(words, done, Tail(dos), text2, key2)
<1> DEFINE rest == Tail(dos)
           first == FirstWord(dos[1])
<1>1. /\ 1 \in DOMAIN dos /\ Head(dos) = dos[1]
      /\ rest \in Seq(Packets)
      /\ \A i \in DOMAIN rest : i + 1 \in DOMAIN dos /\ rest[i] = dos[i + 1]
  BY HeadTailProperties
<1>2. \A i \in DOMAIN rest : i \in Nat /\ i > 0
  BY <1>1
<1>3. /\ Waiting(words, done, first) /\ first \notin text \cup key
      /\ \A j \in DOMAIN dos : 1 < j /\ Asks(dos[j]) => first # FirstWord(dos[j])
  BY <1>1, Zenon DEF Once
<1>4. \/ text2 \subseteq {first} /\ key2 \subseteq key
      \/ text2 \subseteq text /\ key2 \subseteq {first}
  BY <1>1
<1> HIDE DEF rest, first
<1>5. ASSUME NEW i \in DOMAIN rest, Asks(rest[i])
      PROVE  /\ Waiting(words, done, FirstWord(rest[i]))
             /\ FirstWord(rest[i]) \notin text2 \cup key2
             /\ \A j \in DOMAIN rest :
                  i < j /\ Asks(rest[j]) => FirstWord(rest[i]) # FirstWord(rest[j])
  <2>1. i + 1 \in DOMAIN dos /\ 1 < i + 1 /\ Asks(dos[i + 1]) /\ rest[i] = dos[i + 1]
    BY <1>1, <1>2, <1>5
  <2>2. /\ Waiting(words, done, FirstWord(rest[i]))
        /\ FirstWord(rest[i]) \notin text \cup key
        /\ FirstWord(rest[i]) # first
    BY <1>3, <2>1, Zenon DEF Once
  <2>3. ASSUME NEW j \in DOMAIN rest, i < j, Asks(rest[j])
        PROVE  FirstWord(rest[i]) # FirstWord(rest[j])
    <3>1. j + 1 \in DOMAIN dos /\ rest[j] = dos[j + 1] /\ i + 1 < j + 1
      BY <1>1, <1>2, <2>3
    <3>. QED  BY <2>1, <2>3, <3>1, Zenon DEF Once
  <2>4. FirstWord(rest[i]) \notin text2 \cup key2
    BY <1>4, <2>2, Zenon
  <2>. QED  BY <2>2, <2>3, <2>4, Zenon
<1>6. \A word \in text2 \cup key2 : Waiting(words, done, word)
  BY <1>3, <1>4, Zenon DEF Once
<1>7. text2 \cap key2 = {}
  <2>1. text \cap key = {}
    BY Zenon DEF Once
  <2>. QED  BY <1>3, <1>4, <2>1
<1>8. \A i \in DOMAIN done : done[i] \in DOMAIN words
  BY Zenon DEF Once
<1>9. Once(words, done, rest, text2, key2)
  BY <1>5, <1>6, <1>7, <1>8, Zenon DEF Once
<1>. QED  BY <1>9 DEF rest

(* The number of the only input with this first word. *)
Numbers(words, n, word) ==
  n \in DOMAIN words /\ \A m \in DOMAIN words : words[m] = word <=> m = n

(* Staged input whose first word enters the queue was waiting, and nothing
   of it is left. *)
LEMMA OnceDelivers ==
  ASSUME NEW words, NEW done \in Seq(Nat), NEW dos \in Seq(Packets),
         NEW text, NEW key, Once(words, done, dos, text, key),
         NEW word, word \in text \cup key, NEW n, Numbers(words, n, word)
  PROVE  /\ \A i \in DOMAIN done : done[i] # n
         /\ Once(words, Append(done, n), dos, text \ {word}, key \ {word})
<1> DEFINE more == Append(done, n)
           text2 == text \ {word}
           key2 == key \ {word}
<1>1. \A i \in DOMAIN more : (i \in DOMAIN done /\ more[i] = done[i]) \/ more[i] = n
  OBVIOUS
<1> HIDE DEF more
<1>2. \A i \in DOMAIN done : done[i] # n
  <2>1. Waiting(words, done, word)
    BY Zenon DEF Once
  <2>. QED  BY <2>1, Zenon DEF Waiting, Numbers
<1>3. ASSUME NEW other, other # word, Waiting(words, done, other)
      PROVE  Waiting(words, more, other)
  <2>1. PICK m \in DOMAIN words : words[m] = other /\ \A i \in DOMAIN done : done[i] # m
    BY <1>3, Zenon DEF Waiting
  <2>2. m # n
    BY <1>3, <2>1, Zenon DEF Numbers
  <2>3. \A i \in DOMAIN more : more[i] # m
    BY <1>1, <2>1, <2>2, Zenon
  <2>. QED  BY <2>1, <2>3, Zenon DEF Waiting
<1>4. ASSUME NEW i \in DOMAIN dos, Asks(dos[i])
      PROVE  /\ Waiting(words, more, FirstWord(dos[i]))
             /\ FirstWord(dos[i]) \notin text2 \cup key2
             /\ \A j \in DOMAIN dos :
                  i < j /\ Asks(dos[j]) => FirstWord(dos[i]) # FirstWord(dos[j])
  <2>1. /\ Waiting(words, done, FirstWord(dos[i]))
        /\ FirstWord(dos[i]) \notin text \cup key
        /\ \A j \in DOMAIN dos :
             i < j /\ Asks(dos[j]) => FirstWord(dos[i]) # FirstWord(dos[j])
    BY <1>4, Zenon DEF Once
  <2>2. FirstWord(dos[i]) # word
    BY <2>1, Zenon
  <2>. QED  BY <1>3, <2>1, <2>2, Zenon
<1>5. \A other \in text2 \cup key2 : Waiting(words, more, other)
  <2> SUFFICES ASSUME NEW other \in text2 \cup key2
               PROVE  Waiting(words, more, other)
    OBVIOUS
  <2>1. other \in text \cup key /\ other # word
    OBVIOUS
  <2>2. Waiting(words, done, other)
    BY <2>1, Zenon DEF Once
  <2>. QED  BY <1>3, <2>1, <2>2, Zenon
<1>6. text2 \cap key2 = {}
  <2>1. text \cap key = {}
    BY Zenon DEF Once
  <2>. QED  BY <2>1
<1>7. \A i \in DOMAIN more : more[i] \in DOMAIN words
  <2>1. \A i \in DOMAIN done : done[i] \in DOMAIN words
    BY Zenon DEF Once
  <2>. QED  BY <1>1, <2>1, Zenon DEF Numbers
<1>8. Once(words, more, dos, text2, key2)
  <2> HIDE DEF text2, key2
  <2>. QED  BY <1>4, <1>5, <1>6, <1>7, Zenon DEF Once
<1>. QED  BY <1>2, <1>8 DEF more

(* A packet that is no input changes nothing; an input the user sends is a
   new one. *)
LEMMA OncePasses ==
  ASSUME NEW words, NEW done, NEW dos \in Seq(Packets), NEW q \in Packets,
         NEW text, NEW key, Once(words, done, dos, text, key), ~Asks(q)
  PROVE  Once(words, done, Append(dos, q), text, key)
<1> DEFINE more == Append(dos, q)
<1>1. \A i \in DOMAIN more : (i \in DOMAIN dos /\ more[i] = dos[i]) \/ more[i] = q
  OBVIOUS
<1> HIDE DEF more
<1>2. ASSUME NEW i \in DOMAIN more, Asks(more[i])
      PROVE  /\ Waiting(words, done, FirstWord(more[i]))
             /\ FirstWord(more[i]) \notin text \cup key
             /\ \A j \in DOMAIN more :
                  i < j /\ Asks(more[j]) => FirstWord(more[i]) # FirstWord(more[j])
  <2>1. i \in DOMAIN dos /\ more[i] = dos[i]
    BY <1>1, <1>2, Zenon
  <2>2. \A j \in DOMAIN more : Asks(more[j]) => j \in DOMAIN dos /\ more[j] = dos[j]
    BY <1>1, Zenon
  <2>. QED  BY <1>2, <2>1, <2>2, Zenon DEF Once
<1>3. Once(words, done, more, text, key)
  BY <1>2, Zenon DEF Once
<1>. QED  BY <1>3 DEF more

LEMMA OnceSends ==
  ASSUME NEW S, NEW words \in Seq(S), NEW word \in S, NEW done,
         NEW dos \in Seq(Packets), NEW q \in Packets, NEW text, NEW key,
         Once(words, done, dos, text, key),
         word = FirstWord(q), \A n \in DOMAIN words : words[n] # word
  PROVE  Once(Append(words, word), done, Append(dos, q), text, key)
<1> DEFINE more == Append(dos, q)
           longer == Append(words, word)
           last == Len(words) + 1
<1>1. /\ \A i \in DOMAIN more : \/ i \in DOMAIN dos /\ more[i] = dos[i] /\ i < Len(dos) + 1
                                \/ i = Len(dos) + 1 /\ more[i] = q
      /\ \A j \in DOMAIN more : ~(Len(dos) + 1 < j)
  OBVIOUS
<1>2. /\ \A n \in DOMAIN words : n \in DOMAIN longer /\ longer[n] = words[n]
      /\ last \in DOMAIN longer /\ longer[last] = word /\ last \notin DOMAIN words
  OBVIOUS
<1> HIDE DEF more, longer, last
<1>3. \A i \in DOMAIN done : done[i] \in DOMAIN words
  BY Zenon DEF Once
<1>4. ASSUME NEW other, Waiting(words, done, other)
      PROVE  Waiting(longer, done, other) /\ other # word
  BY <1>2, <1>4, Zenon DEF Waiting
<1>5. Waiting(longer, done, word)
  <2>1. \A i \in DOMAIN done : done[i] # last
    BY <1>2, <1>3, Zenon
  <2>. QED  BY <1>2, <2>1, Zenon DEF Waiting
<1>6. word \notin text \cup key
  BY <1>4, Zenon DEF Once
<1>7. ASSUME NEW i \in DOMAIN more, Asks(more[i])
      PROVE  /\ Waiting(longer, done, FirstWord(more[i]))
             /\ FirstWord(more[i]) \notin text \cup key
             /\ \A j \in DOMAIN more :
                  i < j /\ Asks(more[j]) => FirstWord(more[i]) # FirstWord(more[j])
  <2>1. CASE i \in DOMAIN dos /\ more[i] = dos[i]
    <3>1. /\ Waiting(words, done, FirstWord(dos[i]))
          /\ FirstWord(dos[i]) \notin text \cup key
          /\ \A j \in DOMAIN dos :
               i < j /\ Asks(dos[j]) => FirstWord(dos[i]) # FirstWord(dos[j])
      BY <1>7, <2>1, Zenon DEF Once
    <3>2. Waiting(longer, done, FirstWord(dos[i])) /\ FirstWord(dos[i]) # FirstWord(q)
      BY <1>4, <3>1, Zenon
    <3>. QED  BY <1>1, <2>1, <3>1, <3>2, Zenon
  <2>2. CASE i = Len(dos) + 1 /\ more[i] = q
    BY <1>1, <1>5, <1>6, <2>2, Zenon
  <2>. QED  BY <1>1, <2>1, <2>2, Zenon
<1>8. \A other \in text \cup key : Waiting(longer, done, other)
  BY <1>4, Zenon DEF Once
<1>9. text \cap key = {} /\ \A i \in DOMAIN done : done[i] \in DOMAIN longer
  BY <1>2, <1>3, Zenon DEF Once
<1>10. Once(longer, done, more, text, key)
  BY <1>7, <1>8, <1>9, Zenon DEF Once
<1>. QED  BY <1>10 DEF more, longer

(* Only the phases of an injection put an input into the queue. *)
LEMMA PutInjects ==
  ASSUME kbd \in Seq(Nat), NEW word, Kb!Put(word),
         pc = "key" \/ (pc = "text" /\ pending_offset = 0)
  PROVE  Injects = <<word>>
<1>1. kbd' = Append(kbd, word)
  BY DEF Kb!Put
<1>2. Len(kbd') > Len(kbd) /\ kbd'[Len(kbd')] = word
  BY <1>1
<1>. QED  BY <1>2 DEF Injects

LEMMA KeptInjects ==
  ASSUME kbd \in Seq(Nat), UNCHANGED kbd \/ pc \notin {"key", "text"}
  PROVE  Injects = << >>
<1>1. CASE UNCHANGED kbd
  <2>1. ~(Len(kbd') > Len(kbd))
    BY <1>1
  <2>. QED  BY <2>1, Zenon DEF Injects
<1>2. CASE pc \notin {"key", "text"}
  BY <1>2 DEF Injects
<1>. QED  BY <1>1, <1>2

(* Closing the session, or not: nothing new is staged. *)
LEMMA ToggleCarries ==
  ASSUME NEW ok, ToggleIme(ok)
  PROVE  FreshText' \subseteq FreshText /\ FreshKey' \subseteq FreshKey
<1>1. CASE CloseIme(ok)
  BY <1>1 DEF CloseIme, FreshText, FreshKey
<1>2. CASE UNCHANGED staged
  BY <1>2 DEF staged, FreshText, FreshKey
<1>. QED  BY <1>1, <1>2, Zenon DEF ToggleIme

(* A step of the worker leaves the staged input, drops it, or puts the first
   word of one input into the queue. *)
LEMMA WorkerCarries ==
  ASSUME TypeOK, InjectsStaged, FreshText \cap FreshKey = {}, Worker
  PROVE  \/ /\ Injects = << >>
            /\ FreshText' \subseteq FreshText /\ FreshKey' \subseteq FreshKey
         \/ \E word \in FreshText \cup FreshKey :
              /\ Injects = <<word>>
              /\ FreshText' \subseteq FreshText \ {word}
              /\ FreshKey' \subseteq FreshKey \ {word}
<1> DEFINE Goal ==
      \/ /\ Injects = << >>
         /\ FreshText' \subseteq FreshText /\ FreshKey' \subseteq FreshKey
      \/ \E word \in FreshText \cup FreshKey :
           /\ Injects = <<word>>
           /\ FreshText' \subseteq FreshText \ {word}
           /\ FreshKey' \subseteq FreshKey \ {word}
<1> SUFFICES Goal
  OBVIOUS
<1> HIDE DEF Goal
<1>0. kbd \in Seq(Nat) /\ pending_text \in Seq(Nat)
      /\ pending_offset \in 0 .. Len(pending_text)
  BY DEF TypeOK
<1>a. ASSUME UNCHANGED kbd \/ pc \notin {"key", "text"},
             FreshText' \subseteq FreshText, FreshKey' \subseteq FreshKey
      PROVE  Goal
  BY <1>0, <1>a, KeptInjects DEF Goal
<1>1. CASE \/ ServiceQuiet \/ PollDone \/ InjectStall \/ InjectKeyFull \/ Tick \/ Timeout
           \/ \E ok \in TxOutcomes : OpenSession(ok) \/ StartLink(ok)
  <2>1. UNCHANGED <<kbd, pending_text, pending_offset, pending_key>>
    BY <1>1, Zenon
       DEF ServiceQuiet, PollDone, InjectStall, InjectKeyFull, Tick, Timeout,
           OpenSession, StartLink, staged, keyboard
  <2>2. FreshText' = FreshText /\ FreshKey' = FreshKey
    BY <2>1, Zenon DEF FreshText, FreshKey
  <2>. QED  BY <1>a, <2>1, <2>2
<1>2. ASSUME NEW ok, ServiceHotkey(ok)
      PROVE  Goal
  <2>1. pc = "idle" /\ ToggleIme(ok)
    BY <1>2, Zenon DEF ServiceHotkey
  <2>. QED  BY <1>a, <2>1, ToggleCarries
<1>3. CASE InjectWord
  <2>1. /\ pc = "text" /\ pending_offset < Len(pending_text)
        /\ Kb!Put(WordAt(pending_text, pending_offset + 1))
        /\ pending_offset' = UnitEnd(pending_text, pending_offset + 1)
        /\ UNCHANGED <<pending_text, pending_key>>
    BY <1>3, Zenon DEF InjectWord
  <2>2. pending_offset' # 0
    BY <1>0, <2>1 DEF UnitEnd
  <2>3. FreshText' = {} /\ FreshKey' = FreshKey
    BY <2>1, <2>2 DEF FreshText, FreshKey
  <2>4. CASE pending_offset = 0
    <3> DEFINE word == WordAt(pending_text, 1)
    <3>1. Injects = <<word>>
      <4>1. pending_offset + 1 = 1
        BY <2>4
      <4>2. Kb!Put(word)
        BY <2>1, <4>1, Zenon
      <4>. QED  BY <1>0, <2>1, <2>4, <4>2, PutInjects
    <3>2. pending_text # << >>
      BY <1>0, <2>1, <2>4
    <3> HIDE DEF word
    <3>3. FreshText = {word}
      BY <2>4, <3>2 DEF FreshText, word
    <3>4. FreshKey' \subseteq FreshKey \ {word}
      BY <2>3, <3>3
    <3>5. word \in FreshText \cup FreshKey /\ FreshText' \subseteq FreshText \ {word}
      BY <2>3, <3>3
    <3>. QED  BY <3>1, <3>4, <3>5 DEF Goal
  <2>5. CASE pending_offset # 0
    <3>1. Injects = << >>
      BY <2>1, <2>5 DEF Injects
    <3>2. FreshText' \subseteq FreshText /\ FreshKey' \subseteq FreshKey
      BY <2>3
    <3>. QED  BY <3>1, <3>2, Zenon DEF Goal
  <2>. QED  BY <2>4, <2>5
<1>4. ASSUME NEW ok, InjectFinish(ok)
      PROVE  Goal
  <2>1. UNCHANGED <<kbd, pending_key>> /\ pending_text' = << >>
    BY <1>4, Zenon DEF InjectFinish, keyboard
  <2>2. FreshText' = {} /\ FreshKey' = FreshKey
    BY <2>1 DEF FreshText, FreshKey
  <2>. QED  BY <1>a, <2>1, <2>2
<1>5. ASSUME NEW ok, InjectKey(ok)
      PROVE  Goal
  <2>1. /\ pc = "key" /\ Kb!Put(pending_key) /\ pending_key' = NoKey
        /\ UNCHANGED <<pending_text, pending_offset>>
    BY <1>5, Zenon DEF InjectKey
  <2>2. Injects = <<pending_key>>
    BY <1>0, <2>1, PutInjects
  <2>3. FreshKey' = {} /\ FreshText' = FreshText /\ FreshKey = {pending_key}
    BY <2>1 DEF FreshText, FreshKey, InjectsStaged
  <2>4. FreshText' \subseteq FreshText \ {pending_key}
    BY <2>3
  <2>5. pending_key \in FreshText \cup FreshKey /\ FreshKey' \subseteq FreshKey \ {pending_key}
    BY <2>3
  <2>. QED  BY <2>2, <2>4, <2>5 DEF Goal
<1>. QED  BY <1>1, <1>2, <1>3, <1>4, <1>5, Zenon DEF Worker

(* The user and the applications stage nothing. *)
LEMMA OthersCarry ==
  ASSUME User \/ App
  PROVE  FreshText' \subseteq FreshText /\ FreshKey' \subseteq FreshKey
<1>1. ASSUME NEW ok, ReturnedHotkey(ok)
      PROVE  FreshText' \subseteq FreshText /\ FreshKey' \subseteq FreshKey
  BY <1>1, ToggleCarries DEF ReturnedHotkey
<1>2. ASSUME UNCHANGED staged
      PROVE  FreshText' \subseteq FreshText /\ FreshKey' \subseteq FreshKey
  BY <1>2 DEF staged, FreshText, FreshKey
<1>. QED
  BY <1>1, <1>2, Zenon
     DEF User, App, KeyPress, HotkeyPress, HotkeyRelease, AppRead

(* Receiving stages the first word of the packet, if it is an input. *)
LEMMA PollCarries ==
  ASSUME NEW p, NEW ok, PollPacket(p, ok)
  PROVE  \/ FreshText' \subseteq FreshText /\ FreshKey' \subseteq FreshKey
         \/ /\ Asks(p)
            /\ FreshText' \subseteq {FirstWord(p)} /\ FreshKey' \subseteq FreshKey
         \/ /\ Asks(p)
            /\ FreshText' \subseteq FreshText /\ FreshKey' \subseteq {FirstWord(p)}
<1>1. CASE HandleText(p)
  <2>1. /\ p.type = "TEXT" /\ pending_text' = p.data
        /\ pending_offset' = 0 /\ pending_key' = pending_key
    BY <1>1, Zenon DEF HandleText, IsText
  <2>2. Asks(p) /\ FirstWord(p) = WordAt(p.data, 1)
    BY <2>1 DEF Asks, FirstWord
  <2>3. FreshText' \subseteq {WordAt(p.data, 1)} /\ FreshKey' = FreshKey
    <3>1. FreshKey' = FreshKey
      BY <2>1, Zenon DEF FreshKey
    <3>2. WordAt(pending_text, 1)' = WordAt(p.data, 1)
      BY <2>1, Zenon DEF WordAt
    <3>. QED  BY <3>1, <3>2, Zenon DEF FreshText
  <2>. QED  BY <2>2, <2>3
<1>2. CASE HandleKey(p)
  <2>1. /\ p.type = "KEY" /\ pending_key' = KeyWordOf[p.data[1]]
        /\ UNCHANGED <<pending_text, pending_offset>>
    BY <1>2, Zenon DEF HandleKey, IsKey
  <2>2. Asks(p) /\ FirstWord(p) = KeyWordOf[p.data[1]]
    BY <2>1 DEF Asks, FirstWord
  <2>3. FreshKey' \subseteq {FirstWord(p)} /\ FreshText' = FreshText
    BY <2>1, <2>2, Zenon DEF FreshKey, FreshText
  <2>. QED  BY <2>2, <2>3
<1>3. CASE HandlePong(p, ok) \/ HandleOther(p)
  BY <1>3, Zenon DEF HandlePong, HandleOther, staged, FreshText, FreshKey
<1>4. CASE HandleClose(p, ok)
  BY <1>4 DEF HandleClose, CloseIme, FreshText, FreshKey
<1>. QED  BY <1>1, <1>2, <1>3, <1>4, Zenon DEF PollPacket

(* An injection phase is entered with its input, and left with it. *)
LEMMA InjectsStagedStep == InjectsStaged /\ [Next]_vars => InjectsStaged'
<1> SUFFICES ASSUME InjectsStaged, [Next]_vars
             PROVE  InjectsStaged'
  OBVIOUS
<1> USE DEF InjectsStaged
<1>1. CASE ServiceQuiet \/ PollDone \/ InjectStall \/ InjectKeyFull
  <2>1. /\ UNCHANGED <<pending_text, pending_key>>
        /\ Enter(FromPoll) \/ Enter(FromText) \/ Enter(FromKey) \/ Enter(FromOpen)
    BY <1>1, Zenon DEF ServiceQuiet, PollDone, InjectStall, InjectKeyFull, staged
  <2>2. (pc' = "text" => pending_text # << >>) /\ (pc' = "key" => pending_key # NoKey)
    BY <2>1, EnterHasInput
  <2>. QED  BY <2>1, <2>2
<1>2. ASSUME NEW ok, \/ ServiceHotkey(ok) \/ InjectFinish(ok) \/ InjectKey(ok)
      PROVE  InjectsStaged'
  <2>1. Enter(FromPoll') \/ Enter(FromKey') \/ Enter(FromOpen')
    BY <1>2, Zenon DEF ServiceHotkey, InjectFinish, InjectKey
  <2>. QED  BY <2>1, EnterHasInputPrimed
<1>3. ASSUME NEW ok, OpenSession(ok) \/ StartLink(ok)
      PROVE  InjectsStaged'
  <2>1. Enter(FromTick')
    BY <1>3, Zenon DEF OpenSession, StartLink
  <2>. QED  BY <2>1, EnterHasInputPrimed
<1>4. CASE Tick \/ Timeout
  BY <1>4 DEF Tick, Timeout, Enter
<1>5. ASSUME NEW p, NEW ok, PollPacket(p, ok)
      PROVE  InjectsStaged'
  <2>1. Enter(FromText') \/ pc' = "poll"
    BY <1>5, Zenon DEF PollPacket
  <2>. QED  BY <2>1, EnterHasInputPrimed
<1>6. CASE InjectWord
  BY <1>6 DEF InjectWord
<1>7. CASE User \/ App
  <2>1. pc' = pc /\ pc = "idle"
    BY <1>7, Zenon DEF User, App, KeyPress, HotkeyPress, HotkeyRelease, AppRead,
                       ReturnedHotkey
  <2>. QED  BY <2>1
<1>8. CASE UNCHANGED vars
  BY <1>8 DEF vars, staged
<1>. QED
  BY <1>1, <1>2, <1>3, <1>4, <1>5, <1>6, <1>7, <1>8, Zenon DEF Next, Worker, Receive

(* What the user's steps put on the line: nothing, the end of the session,
   or the next of his inputs. *)
LEMMA UserSends ==
  ASSUME WireInv, SentInv, HostUser
  PROVE  \/ /\ UNCHANGED <<toDos, history>>
            /\ input' # << >> => NextIs("TEXT") /\ input' = NextData
         \/ \E q \in Packets :
              /\ ~Asks(q) /\ toDos' = Append(toDos, q)
              /\ UNCHANGED <<input, history>>
         \/ \E q \in Packets :
              /\ Asks(q) /\ toDos' = Append(toDos, q)
              /\ Len(sent) < Len(UserInputs)
              /\ q.type = UserInputs[Len(sent) + 1].type
              /\ FirstWord(q) = FirstWord(UserInputs[Len(sent) + 1])
              /\ stream = "up" /\ imeReady /\ q.seq = openSequence
              /\ sent' = Append(sent, FirstWord(q))
              /\ input' = << >> /\ UNCHANGED delivered
<1>0. openSequence \in SeqNums /\ toDos \in Seq(Packets) /\ NoteSend
  BY Zenon DEF WireInv, HostUser
<1>a. ASSUME toDos' = toDos
      PROVE  UNCHANGED <<toDos, history>>
  BY <1>0, <1>a, Zenon DEF NoteSend
<1>b. ASSUME NEW q \in Packets, toDos' = Append(toDos, q)
      PROVE  /\ Asks(q) => sent' = Append(sent, FirstWord(q)) /\ UNCHANGED delivered
             /\ ~Asks(q) => UNCHANGED history
  <2>1. toDos' # toDos /\ toDos'[Len(toDos')] = q
    BY <1>0, <1>b
  <2>. QED  BY <1>0, <2>1, Zenon DEF NoteSend, Asks
<1>c. ASSUME NEW type, NextIs(type), NEW q \in Packets, q.type = type, q.data = NextData,
             toDos' = Append(toDos, q), input' = << >>
      PROVE  /\ Asks(q) /\ toDos' = Append(toDos, q)
             /\ Len(sent) < Len(UserInputs)
             /\ q.type = UserInputs[Len(sent) + 1].type
             /\ FirstWord(q) = FirstWord(UserInputs[Len(sent) + 1])
             /\ sent' = Append(sent, FirstWord(q))
             /\ input' = << >> /\ UNCHANGED delivered
  <2>1. /\ Len(sent) < Len(UserInputs)
        /\ UserInputs[Len(sent) + 1].type = type
        /\ UserInputs[Len(sent) + 1].data = q.data
    BY <1>c, Zenon DEF NextIs, NextData
  <2>2. FirstWord(q) = FirstWord(UserInputs[Len(sent) + 1])
    BY <1>c, <2>1, Zenon DEF FirstWord
  <2>3. Asks(q)
    <3>1. 0 \in SeqNums
      BY WorkerAssumption DEF SeqNums
    <3>. QED  BY <1>c, <3>1, NextInput DEF Asks
  <2>. QED  BY <1>b, <1>c, <2>1, <2>2, <2>3
<1>1. CASE NextIs("TEXT") /\ Host!TypeText(NextData)
  BY <1>1, <1>a, Zenon DEF Host!TypeText
<1>2. CASE NextIs("TEXT") /\ Host!SendText
  <2> DEFINE q == Packet("TEXT", openSequence, input)
  <2>1. /\ input # << >> /\ input = NextData /\ input' = << >>
        /\ stream = "up" /\ imeReady /\ q.seq = openSequence
    BY <1>2 DEF Host!SendText, Host!MaySend, SentInv, Packet
  <2>2. q \in Packets
    BY <1>0, <2>1, Zenon DEF WireInv
  <2>3. toDos' = Append(toDos, q) /\ q.type = "TEXT" /\ q.data = NextData
    BY <1>2, <2>1 DEF Host!SendText, Host!Send, Host!Message, Packet
  <2> HIDE DEF q
  <2>. QED  BY <1>2, <1>c, <2>1, <2>2, <2>3
<1>3. CASE NextIs("KEY") /\ Host!SendKey(NextData[1])
  <2> DEFINE q == Packet("KEY", openSequence, NextData)
  <2>1. q \in Packets /\ <<NextData[1]>> = NextData
    BY <1>0, <1>3, NextInput
  <2>2. /\ toDos' = Append(toDos, q) /\ q.type = "KEY" /\ q.data = NextData
        /\ input' = << >>
        /\ stream = "up" /\ imeReady /\ q.seq = openSequence
    BY <1>3, <2>1 DEF Host!SendKey, Host!MaySend, Host!Send, Host!Message, Packet
  <2> HIDE DEF q
  <2>. QED  BY <1>3, <1>c, <2>1, <2>2
<1>4. CASE Host!ClearInput
  BY <1>4, <1>a, Zenon DEF Host!ClearInput
<1>5. CASE Host!SendCloseIme
  <2> DEFINE q == Packet("CLOSE_IME", openSequence, << >>)
  <2>1. q \in Packets /\ ~Asks(q)
    BY <1>0, CarriedAssumption DEF Packet, Asks
  <2>2. toDos' = Append(toDos, q) /\ input' = input
    BY <1>5 DEF Host!SendCloseIme, Host!Send, Host!Message, Packet
  <2> HIDE DEF q
  <2>. QED  BY <1>b, <2>1, <2>2, Zenon
<1>. QED  BY <1>1, <1>2, <1>3, <1>4, <1>5, Zenon DEF HostUser

(* Inputs that were sent have different words. *)
LEMMA SentApart ==
  ASSUME Distinct, WireInv, SentInv
  PROVE  /\ \A m, n \in DOMAIN sent : sent[m] = sent[n] => m = n
         /\ Len(sent) < Len(UserInputs) =>
              \A n \in DOMAIN sent : sent[n] # FirstWord(UserInputs[Len(sent) + 1])
         /\ Len(sent) \in Nat /\ Len(UserInputs) \in Nat
         /\ DOMAIN sent = 1 .. Len(sent)
<1>1. Len(sent) \in Nat /\ Len(UserInputs) \in Nat /\ DOMAIN sent = 1 .. Len(sent)
  <2>1. Len(UserInputs) \in Nat
    BY CarriedAssumption
  <2>. QED  BY <2>1 DEF WireInv
<1>2. /\ \A n \in DOMAIN sent : n \in InputNumbers /\ sent[n] = FirstWord(UserInputs[n])
      /\ Len(sent) < Len(UserInputs) =>
           /\ Len(sent) + 1 \in InputNumbers
           /\ \A n \in DOMAIN sent : n # Len(sent) + 1
  BY <1>1 DEF SentInv, InputNumbers
<1>. QED  BY <1>1, <1>2, Zenon DEF Distinct

LEMMA OnceInvStep ==
  ASSUME AutomaticText = << >>, Distinct, TypeOK, WireInv, OnceInv,
         [SystemNext]_systemVars
  PROVE  OnceInv' /\ [Delivery!Next]_<<sent, delivered>>
<1> DEFINE Goal == OnceInv' /\ [Delivery!Next]_<<sent, delivered>>
<1> SUFFICES Goal
  OBVIOUS
<1> HIDE DEF Goal
<1>0. /\ toDos \in Seq(Packets) /\ toDos' \in Seq(Packets) /\ toHost \in Seq(Uplinks)
      /\ Within(toDos, toDos) /\ InjectsStaged'
      /\ Once(sent, delivered, toDos, FreshText, FreshKey) /\ SentInv
  <2>1. WireInv' /\ InjectsStaged'
    BY WireInvStep, InjectsStagedStep, SystemStep DEF OnceInv
  <2>2. toDos \in Seq(Packets)
    BY DEF WireInv
  <2>. QED  BY <2>1, <2>2, WithinSelf, Zenon DEF WireInv, OnceInv
<1>a. ASSUME UNCHANGED <<sent, delivered>>,
             input' # << >> => NextIs("TEXT") /\ input' = NextData
      PROVE  SentInv'
  BY <1>0, <1>a, Zenon DEF SentInv, NextIs, NextData
<1>b. ASSUME UNCHANGED <<sent, delivered>>, input' \in {input, << >>},
             Once(sent, delivered, toDos', FreshText', FreshKey')
      PROVE  Goal
  <2>1. SentInv'
    BY <1>0, <1>a, <1>b, Zenon DEF SentInv
  <2>2. Once(sent, delivered, toDos, FreshText, FreshKey)'
    BY <1>b, Zenon
  <2>. QED  BY <1>0, <1>b, <2>1, <2>2, Zenon DEF OnceInv, Goal
<1>c. ASSUME UNCHANGED <<sent, delivered>>, input' \in {input, << >>},
             Within(toDos', toDos), FreshText' \subseteq FreshText,
             FreshKey' \subseteq FreshKey
      PROVE  Goal
  <2>1. Once(sent, delivered, toDos', FreshText', FreshKey')
    BY <1>0, <1>c, OnceShrinks, Zenon
  <2>. QED  BY <1>b, <1>c, <2>1
<1>d. ASSUME UNCHANGED vars
      PROVE  FreshText' = FreshText /\ FreshKey' = FreshKey
  BY <1>d, Zenon DEF vars, staged, FreshText, FreshKey
<1>e. ASSUME Host!LineLoss
      PROVE  Within(toDos', toDos)
  <2>1. PICK n \in 0 .. Len(toDos) : toDos' = SubSeq(toDos, 1, n)
    BY <1>e DEF Host!LineLoss
  <2>. QED  BY <1>0, <2>1, WithinPrefix
<1>1. CASE TsrStep
  <2>1. /\ Worker /\ NoteDelivery
        /\ UNCHANGED <<toDos, input, sent>>
    BY <1>1, Zenon DEF TsrStep, hostState
  <2>2. CASE /\ Injects = << >>
             /\ FreshText' \subseteq FreshText /\ FreshKey' \subseteq FreshKey
    <3>1. UNCHANGED delivered
      BY <2>1, <2>2, Zenon DEF NoteDelivery
    <3>. QED  BY <1>0, <1>c, <2>1, <2>2, <3>1, Zenon
  <2>3. ASSUME NEW word \in FreshText \cup FreshKey, Injects = <<word>>,
               FreshText' \subseteq FreshText \ {word},
               FreshKey' \subseteq FreshKey \ {word}
        PROVE  Goal
    <3>1. PICK n \in DOMAIN sent : sent[n] = word
      BY <1>0, Zenon DEF Once, Waiting
    <3>2. \A m \in DOMAIN sent : sent[m] = word => m = n
      BY <1>0, <3>1, SentApart
    <3>3. NumberOf(word) = n
      BY <3>1, <3>2 DEF NumberOf
    <3>4. delivered' = Append(delivered, n)
      BY <2>1, <2>3, <3>3 DEF NoteDelivery
    <3>5. delivered \in Seq(Nat) /\ n \in Nat
      <4>1. n \in Nat
        BY <1>0, SentApart
      <4>. QED  BY <1>0, <4>1, Zenon DEF SentInv
    <3>6. /\ \A i \in DOMAIN delivered : delivered[i] # n
          /\ Once(sent, Append(delivered, n), toDos, FreshText', FreshKey')
      <4>1. /\ delivered \in Seq(Nat) /\ toDos \in Seq(Packets)
            /\ Once(sent, delivered, toDos, FreshText, FreshKey)
        BY <1>0, <3>5
      <4>2. /\ \A i \in DOMAIN delivered : delivered[i] # n
            /\ Once(sent, Append(delivered, n), toDos, FreshText \ {word}, FreshKey \ {word})
        <5>1. Numbers(sent, n, word)
          BY <3>1, <3>2 DEF Numbers
        <5>. QED  BY <4>1, <5>1, OnceDelivers
      <4>3. Once(sent, Append(delivered, n), toDos, FreshText', FreshKey')
        <5> DEFINE done == Append(delivered, n)
                   text == FreshText \ {word}
                   key == FreshKey \ {word}
        <5>1. /\ Once(sent, done, toDos, text, key) /\ Within(toDos, toDos)
              /\ FreshText' \subseteq text /\ FreshKey' \subseteq key
          BY <1>0, <2>3, <4>2
        <5> HIDE DEF done, text, key
        <5>2. Once(sent, done, toDos, FreshText', FreshKey')
          BY <4>1, <5>1, OnceShrinks, Zenon
        <5>. QED  BY <5>2 DEF done
      <4>. QED  BY <4>2, <4>3
    <3>7. Once(sent, delivered, toDos, FreshText, FreshKey)'
      BY <2>1, <3>4, <3>6, Zenon
    <3>8. delivered' \in Seq(Nat)
      BY <3>4, <3>5
    <3>9. SentInv'
      BY <1>0, <2>1, <3>8, Zenon DEF SentInv, NextIs, NextData
    <3>10. Delivery!Next
      <4>1. n \in DOMAIN sent \ Delivery!Entered
        BY <3>6 DEF Delivery!Entered
      <4>. QED  BY <2>1, <3>4, <4>1, Zenon DEF Delivery!Next, Delivery!DeliverInput
    <3>. QED  BY <1>0, <3>7, <3>9, <3>10, Zenon DEF OnceInv, Goal
  <2>4. FreshText \cap FreshKey = {}
    BY <1>0, Zenon DEF Once
  <2>5. InjectsStaged
    BY DEF OnceInv
  <2>. QED  BY <2>1, <2>2, <2>3, <2>4, <2>5, WorkerCarries
<1>2. CASE UserStroke \/ AppReads \/ KeyRelease
  <2>1. User \/ App
    BY <1>2, Zenon DEF UserStroke, AppReads, KeyRelease, User, App
  <2>2. UNCHANGED <<toDos, input, sent, delivered>>
    BY <1>2, Zenon DEF UserStroke, AppReads, KeyRelease, hostState, history
  <2>. QED  BY <1>0, <1>c, <2>1, <2>2, OthersCarry, Zenon
<1>3. CASE TsrReceives
  <2>1. PICK ok \in TxOutcomes : PollPacket(Head(toDos), ok)
    BY <1>3, Zenon DEF TsrReceives
  <2>2. /\ toDos # << >> /\ toDos' = Tail(toDos)
        /\ UNCHANGED <<input, sent, delivered>>
    BY <1>3, Zenon DEF TsrReceives, history
  <2>3. CASE FreshText' \subseteq FreshText /\ FreshKey' \subseteq FreshKey
    BY <1>0, <1>c, <2>2, <2>3, WithinTail
  <2>4. CASE /\ Asks(Head(toDos))
             /\ \/ FreshText' \subseteq {FirstWord(Head(toDos))} /\ FreshKey' \subseteq FreshKey
                \/ FreshText' \subseteq FreshText /\ FreshKey' \subseteq {FirstWord(Head(toDos))}
    <3>1. Once(sent, delivered, Tail(toDos), FreshText', FreshKey')
      BY <1>0, <2>2, <2>4, OnceTakes
    <3>. QED  BY <1>b, <2>2, <3>1
  <2>. QED  BY <2>1, <2>3, <2>4, PollCarries
<1>4. CASE ClosedPortLoses
  <2>1. /\ toDos # << >> /\ toDos' = Tail(toDos)
        /\ UNCHANGED <<vars, input, sent, delivered>>
    BY <1>4, Zenon DEF ClosedPortLoses, history
  <2>. QED  BY <1>0, <1>c, <1>d, <2>1, WithinTail
<1>5. CASE HostReceives
  <2>1. /\ UNCHANGED vars /\ input' \in {input, << >>}
        /\ toDos' = toDos \/ \E q \in Packets : toDos' = Append(toDos, q) /\ ~Asks(q)
    BY <1>5, HostServes, Zenon DEF HostReceives
  <2>2. UNCHANGED <<sent, delivered>> \/ (toDos' # toDos /\ NoteSend)
    BY <1>5, Zenon DEF HostReceives, history
  <2>3. CASE toDos' = toDos
    BY <1>0, <1>c, <1>d, <2>1, <2>2, <2>3
  <2>4. ASSUME NEW q \in Packets, toDos' = Append(toDos, q), ~Asks(q)
        PROVE  Goal
    <3>1. toDos'[Len(toDos')] = q
      BY <1>0, <2>4
    <3>2. UNCHANGED <<sent, delivered>>
      BY <2>2, <2>4, <3>1, Zenon DEF NoteSend, Asks, history
    <3>3. Once(sent, delivered, Append(toDos, q), FreshText, FreshKey)
      BY <1>0, <2>4, OncePasses
    <3>. QED  BY <1>b, <1>d, <2>1, <2>4, <3>2, <3>3
  <2>. QED  BY <2>1, <2>3, <2>4
<1>6. CASE HostSkipsFragment \/ HostConnects \/ HostNoticesBreak
  <2>1. UNCHANGED <<vars, toDos, input, sent, delivered>>
    BY <1>6, Zenon
       DEF HostSkipsFragment, Host!SkipsFragment, Host!hostVars, HostConnects,
           Host!Connects, Host!Connect, HostNoticesBreak, Host!NoticesBreak,
           Host!ServeEnd, history
  <2>. QED  BY <1>0, <1>c, <1>d, <2>1
<1>7. CASE HostRejectsFragment \/ LineBreaks
  <2>1. UNCHANGED <<vars, input, sent, delivered>> /\ Host!LineLoss
    BY <1>7, Zenon
       DEF HostRejectsFragment, Host!RejectsFragment, Host!ServeEnd, LineBreaks,
           Host!Breaks, history
  <2>. QED  BY <1>c, <1>d, <1>e, <2>1
<1>8. CASE HostUser
  <2>0. FreshText' = FreshText /\ FreshKey' = FreshKey
    BY <1>8, <1>d, Zenon DEF HostUser
  <2>1. CASE /\ UNCHANGED <<toDos, history>>
             /\ input' # << >> => NextIs("TEXT") /\ input' = NextData
    <3>0. UNCHANGED <<sent, delivered>>
      BY <2>1, Zenon DEF history
    <3>1. SentInv'
      BY <1>a, <2>1, <3>0
    <3>2. Once(sent, delivered, toDos, FreshText, FreshKey)'
      BY <1>0, <2>0, <2>1, <3>0, Zenon
    <3>. QED  BY <1>0, <3>0, <3>1, <3>2, Zenon DEF OnceInv, Goal
  <2>2. ASSUME NEW q \in Packets, ~Asks(q), toDos' = Append(toDos, q),
               UNCHANGED <<input, history>>
        PROVE  Goal
    <3>0. UNCHANGED <<sent, delivered>>
      BY <2>2, Zenon DEF history
    <3>1. Once(sent, delivered, Append(toDos, q), FreshText, FreshKey)
      BY <1>0, <2>2, OncePasses
    <3>. QED  BY <1>b, <2>0, <2>2, <3>0, <3>1
  <2>3. ASSUME NEW q \in Packets, Asks(q), toDos' = Append(toDos, q),
               Len(sent) < Len(UserInputs),
               FirstWord(q) = FirstWord(UserInputs[Len(sent) + 1]),
               sent' = Append(sent, FirstWord(q)), input' = << >>, UNCHANGED delivered
        PROVE  Goal
    <3> DEFINE Words == {FirstWord(p) : p \in {r \in Packets : Asks(r)}}
               word == FirstWord(q)
               n == Len(sent) + 1
    <3>1. sent \in Seq(Words) /\ word \in Words
      BY <2>3 DEF WireInv
    <3>2. /\ \A m \in DOMAIN sent : sent[m] # word
          /\ Len(UserInputs) \in Nat /\ n \in InputNumbers
      BY <1>0, <2>3, SentApart DEF InputNumbers
    <3>3. word = FirstWord(q) /\ sent' = Append(sent, word)
          /\ word = FirstWord(UserInputs[n])
      BY <2>3
    <3> HIDE DEF Words, word
    <3>4. Once(Append(sent, word), delivered, Append(toDos, q), FreshText, FreshKey)
      BY <1>0, <3>1, <3>2, <3>3, OnceSends
    <3>5. Once(sent, delivered, toDos, FreshText, FreshKey)'
      BY <2>0, <2>3, <3>3, <3>4, Zenon
    <3>6. /\ Len(sent') = n
          /\ \A m \in DOMAIN sent' : \/ m \in DOMAIN sent /\ sent'[m] = sent[m]
                                     \/ m = n /\ sent'[m] = word
      BY <3>1, <3>3
    <3>7. SentInv'
      <4>1. Len(sent') <= Len(UserInputs)
        BY <3>2, <3>6 DEF InputNumbers
      <4>2. \A m \in DOMAIN sent' : sent'[m] = FirstWord(UserInputs[m])
        BY <1>0, <3>3, <3>6, Zenon DEF SentInv
      <4>. QED  BY <1>0, <2>3, <4>1, <4>2, Zenon DEF SentInv
    <3>8. Delivery!Next
      BY <2>3, <3>2, <3>3, Zenon DEF Delivery!Next, Delivery!SendInput
    <3>. QED  BY <1>0, <3>5, <3>7, <3>8, Zenon DEF OnceInv, Goal
  <2>. QED  BY <1>0, <1>8, <2>1, <2>2, <2>3, UserSends, Zenon
<1>9. CASE UNCHANGED systemVars
  <2>1. UNCHANGED <<vars, toDos, input, sent, delivered>>
    BY <1>9, Zenon DEF systemVars, hostState, history
  <2>. QED  BY <1>0, <1>c, <1>d, <2>1
<1>. QED
  BY <1>1, <1>2, <1>3, <1>4, <1>5, <1>6, <1>7, <1>8, <1>9, Zenon DEF SystemNext

LEMMA OnceInvInit == SystemInit => OnceInv /\ Delivery!Init
<1> SUFFICES ASSUME SystemInit PROVE OnceInv /\ Delivery!Init
  OBVIOUS
<1>1. /\ toDos = << >> /\ input = << >> /\ sent = << >> /\ delivered = << >>
      /\ pending_text = << >> /\ pending_key = NoKey /\ pc = "idle"
  BY DEF SystemInit, Init, Host!LineInit, Host!HostInit
<1>2. FreshText = {} /\ FreshKey = {}
  BY <1>1 DEF FreshText, FreshKey
<1>3. Once(sent, delivered, toDos, FreshText, FreshKey)
  BY <1>1, <1>2 DEF Once
<1>4. SentInv /\ InjectsStaged
  <2>1. Len(UserInputs) \in Nat
    BY CarriedAssumption
  <2>. QED  BY <1>1, <2>1 DEF SentInv, InjectsStaged
<1>. QED  BY <1>1, <1>3, <1>4, Zenon DEF OnceInv, Delivery!Init

(* Stale sessions, lost packets, broken connections and numbers that come
   round included, an input sent from Windows enters the keyboard queue once
   at most, and nothing else comes in this way (BridgeForm.cs:439-508,
   foreground.c:143-180, 276-308). *)
THEOREM DeliveredOnce ==
  ASSUME AutomaticText = << >>, Distinct
  PROVE  SystemSpec => DeliversAtMostOnce
<1>1. /\ TypeOK /\ WireInv /\ OnceInv /\ [SystemNext]_systemVars
      => OnceInv' /\ [Delivery!Next]_<<sent, delivered>>
  BY OnceInvStep
<1>2. SystemSpec => []TypeOK /\ []WireInv
  BY WireInvariant, TypeCorrect, PTL
<1>. QED
  BY <1>1, <1>2, OnceInvInit, PTL DEF SystemSpec, DeliversAtMostOnce, Delivery!Spec

-----------------------------------------------------------------------------
(* What the matching ACK says                                              *)

Answers(p) == p.type \in {"TEXT_ACK", "KEY_ACK"}

(* The ACK that answers the input sent last. *)
LastAck == IF IsKeyInput(Len(sent)) THEN "KEY_ACK" ELSE "TEXT_ACK"

(* ACKs under way carry a number that was staged. *)
AcksBehind ==
  \A k \in DOMAIN toHost : Answers(toHost[k]) => toHost[k].seq <= pending_sequence

(* On the line to the PC-98, only the input sent last has the number of the
   bridge's session. *)
AskedLast ==
  \A i \in DOMAIN toDos : Asks(toDos[i]) /\ toDos[i].seq = openSequence =>
    toDos[i].type = UserInputs[Len(sent)].type /\ FirstWord(toDos[i]) = sent[Len(sent)]

(* What is staged under that number, and of the kind of that input, is the
   whole input. *)
StillStaged ==
  pending_sequence = openSequence =>
    IF IsKeyInput(Len(sent))
    THEN pending_key # NoKey => pending_key = sent[Len(sent)]
    ELSE pending_text # << >> =>
           pending_offset = 0 /\ WordAt(pending_text, 1) = sent[Len(sent)]

Unanswered ==
  \A k \in DOMAIN toHost : toHost[k].seq = openSequence => toHost[k].type # LastAck

LastEntered == \E i \in DOMAIN delivered : delivered[i] = Len(sent)

(* While the user waits, the input sent last is in the queue, or staged whole
   at best, and then nothing under way looks like its answer. *)
HonestInv ==
  /\ AcksBehind
  /\ outstanding =>
       /\ stream # "none" /\ sent # << >>
       /\ AskedLast
       /\ LastEntered \/ (StillStaged /\ Unanswered)

(* Every input, every ACK on the second wire was on the first. *)
NoNewAsks(dos2, dos) ==
  \A i \in DOMAIN dos2 : Asks(dos2[i]) => \E j \in DOMAIN dos : dos[j] = dos2[i]

NoNewAcks(host2, host) ==
  \A k \in DOMAIN host2 : Answers(host2[k]) => \E l \in DOMAIN host : host[l] = host2[k]

LEMMA WithinIsOld ==
  ASSUME NEW part, NEW wire, Within(part, wire)
  PROVE  NoNewAsks(part, wire) /\ NoNewAcks(part, wire)
BY Zenon DEF Within, NoNewAsks, NoNewAcks

LEMMA AppendIsOld ==
  ASSUME NEW S, NEW wire \in Seq(S), NEW p
  PROVE  /\ ~Asks(p) => NoNewAsks(Append(wire, p), wire)
         /\ ~Answers(p) => NoNewAcks(Append(wire, p), wire)
<1> DEFINE more == Append(wire, p)
<1>1. \A i \in DOMAIN more : (i \in DOMAIN wire /\ more[i] = wire[i]) \/ more[i] = p
  OBVIOUS
<1> HIDE DEF more
<1>2. /\ ~Asks(p) => NoNewAsks(more, wire)
      /\ ~Answers(p) => NoNewAcks(more, wire)
  BY <1>1, Zenon DEF NoNewAsks, NoNewAcks
<1>. QED  BY <1>2 DEF more

(* A step without a new input, a new session and a new ACK. *)
LEMMA HonestKept ==
  ASSUME HonestInv, toHost \in Seq(Uplinks), toHost' \in Seq(Uplinks),
         pending_sequence \in Nat, pending_sequence' \in Nat,
         pending_sequence <= pending_sequence',
         outstanding' => /\ outstanding /\ stream' # "none"
                         /\ UNCHANGED <<openSequence, sent, delivered>>
                         /\ StillStaged => StillStaged',
         NoNewAsks(toDos', toDos), NoNewAcks(toHost', toHost)
  PROVE  HonestInv'
<1>1. AcksBehind'
  <2> SUFFICES ASSUME NEW k \in DOMAIN toHost', Answers(toHost'[k])
               PROVE  toHost'[k].seq <= pending_sequence'
    BY DEF AcksBehind
  <2>1. PICK l \in DOMAIN toHost : toHost[l] = toHost'[k]
    BY Zenon DEF NoNewAcks
  <2>2. toHost[l].seq <= pending_sequence /\ toHost[l].seq \in Nat
    <3>1. toHost[l] \in Uplinks
      OBVIOUS
    <3>2. toHost[l].seq \in Nat
      BY <3>1, WorkerAssumption DEF Uplinks, SeqNums
    <3>. QED  BY <2>1, <3>2, Zenon DEF HonestInv, AcksBehind
  <2>. QED  BY <2>1, <2>2
<1>2. ASSUME outstanding'
      PROVE  /\ stream' # "none" /\ sent' # << >>
             /\ AskedLast'
             /\ LastEntered' \/ (StillStaged' /\ Unanswered')
  <2>1. /\ outstanding /\ stream' # "none" /\ sent # << >>
        /\ sent' = sent /\ delivered' = delivered /\ openSequence' = openSequence
        /\ AskedLast
        /\ LastEntered \/ (StillStaged' /\ Unanswered)
    BY <1>2, Zenon DEF HonestInv
  <2>2. AskedLast'
    BY <2>1, Zenon DEF AskedLast, NoNewAsks
  <2>3. Unanswered => Unanswered'
    <3>1. LastAck' = LastAck
      BY <2>1, Zenon DEF LastAck, IsKeyInput
    <3>2. \A p : p.type = LastAck => Answers(p)
      BY DEF LastAck, Answers
    <3>. QED  BY <2>1, <3>1, <3>2, Zenon DEF Unanswered, NoNewAcks
  <2>4. LastEntered => LastEntered'
    BY <2>1, Zenon DEF LastEntered
  <2>. QED  BY <2>1, <2>2, <2>3, <2>4, Zenon
<1>. QED  BY <1>1, <1>2, Zenon DEF HonestInv

(* Dropping what is staged leaves no part of an input. *)
LEMMA StagedKept ==
  ASSUME UNCHANGED <<pending_sequence, openSequence, sent>>,
         pending_text' = << >> \/ UNCHANGED <<pending_text, pending_offset>>,
         pending_key' = NoKey \/ UNCHANGED pending_key
  PROVE  StillStaged => StillStaged'
<1>1. IsKeyInput(Len(sent))' <=> IsKeyInput(Len(sent))
  BY Zenon DEF IsKeyInput
<1>2. UNCHANGED <<pending_text, pending_offset>> =>
        WordAt(pending_text, 1)' = WordAt(pending_text, 1)
  BY Zenon DEF WordAt
<1>. QED  BY <1>1, <1>2, Zenon DEF StillStaged

LEMMA ToggleStaged ==
  ASSUME NEW ok, ToggleIme(ok)
  PROVE  /\ UNCHANGED pending_sequence
         /\ pending_text' = << >> \/ UNCHANGED <<pending_text, pending_offset>>
         /\ pending_key' = NoKey \/ UNCHANGED pending_key
BY Zenon DEF ToggleIme, CloseIme, staged

(* What a step of the PC-98 adds to the line to the bridge. *)
LEMMA UplinkAnswers ==
  ASSUME TypeOK, WireInv, Next, Uplink
  PROVE  \/ NoNewAcks(toHost', toHost)
         \/ \E type \in {"TEXT_ACK", "KEY_ACK"} :
              /\ Sends(type) /\ tx'[1].seq = pending_sequence
              /\ toHost' = Append(toHost, tx'[1]) /\ tx'[1].type = type
<1>0. toHost \in Seq(Uplinks)
  BY DEF WireInv
<1>1. toHost' = toHost \/ toHost' = toHost \o tx'
  BY DEF Uplink, Host!Carry
<1>2. CASE toHost' = toHost
  BY <1>0, <1>2, WithinSelf, WithinIsOld
<1>3. ASSUME NEW p \in Uplinks, tx' = <<p>>, toHost' = toHost \o tx'
      PROVE  \/ NoNewAcks(toHost', toHost)
             \/ \E type \in {"TEXT_ACK", "KEY_ACK"} :
                  /\ Sends(type) /\ tx'[1].seq = pending_sequence
                  /\ toHost' = Append(toHost, tx'[1]) /\ tx'[1].type = type
  <2>1. toHost' = Append(toHost, p) /\ tx'[1] = p /\ tx' # << >>
    BY <1>0, <1>3
  <2>2. CASE ~Answers(p)
    BY <1>0, <2>1, <2>2, AppendIsOld
  <2>3. CASE Answers(p)
    <3>1. Sends(p.type) /\ p.type \in {"TEXT_ACK", "KEY_ACK"}
      BY <2>1, <2>3, Zenon DEF Sends, Answers
    <3>2. PICK ok : InjectFinish(ok) \/ InjectKey(ok)
      BY <3>1, SenderOf, Zenon
    <3>3. \E type : Transmit(Packet(type, pending_sequence, << >>), ok)
      BY <3>2, Zenon DEF InjectFinish, InjectKey
    <3>4. p.seq = pending_sequence
      BY <2>1, <3>1, <3>3 DEF Transmit, Packet, Broken
    <3>. QED  BY <2>1, <3>1, <3>4, Zenon
  <2>. QED  BY <2>2, <2>3
<1>4. CASE tx' = << >>
  BY <1>0, <1>1, <1>2, <1>4
<1>. QED  BY <1>1, <1>2, <1>3, <1>4, TsrSends

(* The word that enters the queue is that of the input sent last. *)
LEMMA LastDelivered ==
  ASSUME Distinct, WireInv, SentInv, sent # << >>, NoteDelivery,
         Injects = <<sent[Len(sent)]>>, UNCHANGED sent
  PROVE  LastEntered'
<1>1. Len(sent) \in DOMAIN sent
  <2>1. Len(sent) # 0
    BY DEF WireInv
  <2>. QED  BY <2>1, SentApart
<1>2. NumberOf(sent[Len(sent)]) = Len(sent)
  BY <1>1, SentApart DEF NumberOf
<1>3. delivered' = Append(delivered, Len(sent))
  BY <1>2 DEF NoteDelivery
<1>4. Len(delivered) + 1 \in DOMAIN delivered' /\ delivered'[Len(delivered) + 1] = Len(sent)
  BY <1>3 DEF SentInv
<1>. QED  BY <1>4 DEF LastEntered

(* The worker injects the input sent last before it sends an ACK that looks
   like its answer. *)
LEMMA HonestWorker ==
  ASSUME Distinct, TypeOK, WireInv, OnceInv, Worker, NoteDelivery, Uplink,
         UNCHANGED <<openSequence, sent>>, sent # << >>, StillStaged, Unanswered
  PROVE  LastEntered' \/ (StillStaged' /\ Unanswered')
<1> DEFINE word == sent[Len(sent)]
           Goal == LastEntered' \/ (StillStaged' /\ Unanswered')
<1> SUFFICES Goal
  OBVIOUS
<1> HIDE DEF Goal, word
<1>0. /\ kbd \in Seq(Nat) /\ pending_text \in Seq(Nat) /\ toHost \in Seq(Uplinks)
      /\ pending_offset \in 0 .. Len(pending_text)
      /\ SentInv /\ InjectsStaged /\ Next /\ UNCHANGED pending_sequence
      /\ LastAck' = LastAck
  <2>1. Next
    BY DEF Next
  <2>2. LastAck' = LastAck
    BY Zenon DEF LastAck, IsKeyInput
  <2>. QED  BY <2>1, <2>2, TsrNumbers DEF TypeOK, WireInv, OnceInv
<1>a. ASSUME \A type \in {"TEXT_ACK", "KEY_ACK"} :
               Sends(type) => pending_sequence # openSequence \/ type # LastAck
      PROVE  Unanswered'
  <2>1. CASE NoNewAcks(toHost', toHost)
    <3>1. \A p : p.type = LastAck => Answers(p)
      BY DEF LastAck, Answers
    <3>. QED  BY <1>0, <2>1, <3>1, Zenon DEF Unanswered, NoNewAcks
  <2>2. ASSUME NEW type \in {"TEXT_ACK", "KEY_ACK"}, Sends(type),
               tx'[1].seq = pending_sequence, toHost' = Append(toHost, tx'[1]),
               tx'[1].type = type
        PROVE  Unanswered'
    <3>1. \A k \in DOMAIN toHost' : \/ k \in DOMAIN toHost /\ toHost'[k] = toHost[k]
                                    \/ toHost'[k] = tx'[1]
      BY <1>0, <2>2
    <3>. QED  BY <1>0, <1>a, <2>2, <3>1, Zenon DEF Unanswered
  <2>. QED  BY <1>0, <2>1, <2>2, UplinkAnswers
<1>b. ASSUME pending_text' = << >> \/ UNCHANGED <<pending_text, pending_offset>>,
             pending_key' = NoKey \/ UNCHANGED pending_key,
             ~Sends("TEXT_ACK"), ~Sends("KEY_ACK")
      PROVE  Goal
  <2>1. StillStaged'
    BY <1>0, <1>b, StagedKept, Zenon
  <2>. QED  BY <1>a, <1>b, <2>1, Zenon DEF Goal
<1>c. ASSUME pending_sequence # openSequence
      PROVE  Goal
  <2>1. StillStaged'
    BY <1>0, <1>c, Zenon DEF StillStaged
  <2>. QED  BY <1>a, <1>c, <2>1, Zenon DEF Goal
<1>d. ASSUME pending_sequence = openSequence
      PROVE  /\ IsKeyInput(Len(sent)) => (pending_key # NoKey => pending_key = word)
             /\ ~IsKeyInput(Len(sent)) =>
                  (pending_text # << >> =>
                     pending_offset = 0 /\ WordAt(pending_text, 1) = word)
  BY <1>d, Zenon DEF StillStaged, word
<1>e. ASSUME Injects = <<word>>
      PROVE  Goal
  BY <1>0, <1>e, LastDelivered DEF Goal, word
<1>1. CASE InjectWord
  <2>1. /\ pc = "text" /\ pending_offset < Len(pending_text)
        /\ Kb!Put(WordAt(pending_text, pending_offset + 1))
        /\ UNCHANGED <<pending_text, pending_key>> /\ tx' = << >>
    BY <1>1, Zenon DEF InjectWord
  <2>2. Unanswered'
    BY <1>a, <2>1 DEF Sends
  <2>3. CASE IsKeyInput(Len(sent))
    <3>1. StillStaged'
      BY <1>0, <2>1, <2>3, Zenon DEF StillStaged, IsKeyInput
    <3>. QED  BY <2>2, <3>1, Zenon DEF Goal
  <2>4. CASE ~IsKeyInput(Len(sent)) /\ pending_sequence = openSequence
    <3>1. pending_text # << >>
      BY <1>0, <2>1 DEF InjectsStaged
    <3>2. pending_offset = 0 /\ WordAt(pending_text, 1) = word
      BY <1>d, <2>4, <3>1
    <3>3. pending_offset + 1 = 1
      BY <3>2
    <3>4. Kb!Put(word)
      BY <2>1, <3>2, <3>3, Zenon
    <3>5. Injects = <<word>>
      BY <1>0, <2>1, <3>2, <3>4, PutInjects
    <3>. QED  BY <1>e, <3>5
  <2>. QED  BY <1>c, <2>3, <2>4
<1>2. ASSUME NEW ok, InjectFinish(ok)
      PROVE  Goal
  <2>1. /\ pc = "text" /\ pending_offset >= Len(pending_text)
        /\ pending_text' = << >> /\ UNCHANGED pending_key
        /\ Transmit(Packet("TEXT_ACK", pending_sequence, << >>), ok)
    BY <1>2, Zenon DEF InjectFinish
  <2>2. ~Sends("KEY_ACK") /\ StillStaged'
    BY <1>0, <2>1, StagedKept, TransmitType
  <2>3. CASE IsKeyInput(Len(sent))
    <3>1. LastAck # "TEXT_ACK"
      BY <2>3 DEF LastAck
    <3>. QED  BY <1>a, <2>2, <3>1 DEF Goal
  <2>4. CASE ~IsKeyInput(Len(sent)) /\ pending_sequence = openSequence
    <3>1. pending_text # << >>
      BY <1>0, <2>1 DEF InjectsStaged
    <3>2. pending_offset = 0
      BY <1>d, <2>4, <3>1
    <3>. QED  BY <1>0, <2>1, <3>1, <3>2
  <2>. QED  BY <1>c, <2>3, <2>4
<1>3. ASSUME NEW ok, InjectKey(ok)
      PROVE  Goal
  <2>1. /\ pc = "key" /\ Kb!Put(pending_key) /\ pending_key' = NoKey
        /\ UNCHANGED <<pending_text, pending_offset>>
        /\ Transmit(Packet("KEY_ACK", pending_sequence, << >>), ok)
    BY <1>3, Zenon DEF InjectKey
  <2>2. ~Sends("TEXT_ACK") /\ StillStaged'
    BY <1>0, <2>1, StagedKept, TransmitType
  <2>3. CASE ~IsKeyInput(Len(sent))
    <3>1. LastAck # "KEY_ACK"
      BY <2>3 DEF LastAck
    <3>. QED  BY <1>a, <2>2, <3>1 DEF Goal
  <2>4. CASE IsKeyInput(Len(sent)) /\ pending_sequence = openSequence
    <3>1. pending_key # NoKey
      BY <1>0, <2>1 DEF InjectsStaged
    <3>2. pending_key = word
      BY <1>d, <2>4, <3>1
    <3>3. Injects = <<word>>
      BY <1>0, <2>1, <3>2, PutInjects
    <3>. QED  BY <1>e, <3>3
  <2>. QED  BY <1>c, <2>3, <2>4
<1>4. ASSUME NEW ok, ServiceHotkey(ok)
      PROVE  Goal
  <2>1. ToggleIme(ok) /\ pc = "idle"
    BY <1>4, Zenon DEF ServiceHotkey
  <2>2. ~Sends("TEXT_ACK") /\ ~Sends("KEY_ACK")
    BY <1>0, <2>1, SenderOf DEF InjectFinish, InjectKey
  <2>. QED  BY <1>b, <2>1, <2>2, ToggleStaged
<1>5. CASE \/ ServiceQuiet \/ PollDone \/ InjectStall \/ InjectKeyFull \/ Tick \/ Timeout
           \/ \E ok \in TxOutcomes : OpenSession(ok) \/ StartLink(ok)
  <2>1. UNCHANGED <<pending_text, pending_offset, pending_key>>
    BY <1>5, Zenon
       DEF ServiceQuiet, PollDone, InjectStall, InjectKeyFull, Tick, Timeout,
           OpenSession, StartLink, staged
  <2>2. tx' = << >> \/ pc = "open"
    BY <1>5, Zenon
       DEF ServiceQuiet, PollDone, InjectStall, InjectKeyFull, Tick, Timeout,
           OpenSession, StartLink
  <2>3. ~Sends("TEXT_ACK") /\ ~Sends("KEY_ACK")
    BY <1>0, <2>2, SenderOf DEF InjectFinish, InjectKey, Sends
  <2>. QED  BY <1>b, <2>1, <2>3
<1>. QED  BY <1>1, <1>2, <1>3, <1>4, <1>5, Zenon DEF Worker

(* What the PC-98 takes for the input sent last is the whole of it. *)
LEMMA HonestPoll ==
  ASSUME toDos \in Seq(Packets), toDos # << >>, NEW ok, PollPacket(Head(toDos), ok),
         UNCHANGED <<openSequence, sent>>, AskedLast, StillStaged
  PROVE  StillStaged'
<1> DEFINE p == Head(toDos)
           word == sent[Len(sent)]
<1>0. /\ PollPacket(p, ok)
      /\ IsKeyInput(Len(sent))' <=> IsKeyInput(Len(sent))
      /\ word' = word
  BY Zenon DEF IsKeyInput
<1>1. Asks(p) /\ p.seq = openSequence =>
        /\ p.type = UserInputs[Len(sent)].type
        /\ FirstWord(p) = word
  <2>1. 1 \in DOMAIN toDos /\ p = toDos[1]
    OBVIOUS
  <2>. QED  BY <2>1, Zenon DEF AskedLast
<1> HIDE DEF p
<1>2. CASE HandleText(p)
  <2>1. /\ p.type = "TEXT" /\ pending_text' = p.data /\ pending_offset' = 0
        /\ pending_sequence' = p.seq
    BY <1>2, Zenon DEF HandleText, IsText
  <2>2. Asks(p) /\ FirstWord(p) = WordAt(p.data, 1)
    BY <2>1 DEF Asks, FirstWord
  <2>3. CASE p.seq # openSequence
    BY <2>1, <2>3, Zenon DEF StillStaged
  <2>4. CASE p.seq = openSequence
    <3>1. ~IsKeyInput(Len(sent)) /\ WordAt(p.data, 1) = word
      BY <1>1, <2>1, <2>2, <2>4 DEF IsKeyInput
    <3>2. WordAt(pending_text, 1)' = WordAt(p.data, 1)
      BY <2>1, Zenon DEF WordAt
    <3>. QED  BY <1>0, <2>1, <3>1, <3>2, Zenon DEF StillStaged
  <2>. QED  BY <2>3, <2>4
<1>3. CASE HandleKey(p)
  <2>1. /\ p.type = "KEY" /\ pending_key' = KeyWordOf[p.data[1]]
        /\ pending_sequence' = p.seq
    BY <1>3, Zenon DEF HandleKey, IsKey
  <2>2. Asks(p) /\ FirstWord(p) = KeyWordOf[p.data[1]]
    BY <2>1 DEF Asks, FirstWord
  <2>3. CASE p.seq # openSequence
    BY <2>1, <2>3, Zenon DEF StillStaged
  <2>4. CASE p.seq = openSequence
    <3>1. IsKeyInput(Len(sent)) /\ pending_key' = word
      BY <1>1, <2>1, <2>2, <2>4 DEF IsKeyInput
    <3>. QED  BY <1>0, <3>1, Zenon DEF StillStaged
  <2>. QED  BY <2>3, <2>4
<1>4. CASE HandlePong(p, ok) \/ HandleOther(p)
  <2>1. UNCHANGED <<pending_sequence, pending_text, pending_offset, pending_key>>
    BY <1>4, Zenon DEF HandlePong, HandleOther, staged
  <2>. QED  BY <2>1, StagedKept
<1>5. CASE HandleClose(p, ok)
  <2>1. UNCHANGED pending_sequence /\ pending_text' = << >> /\ pending_key' = NoKey
    BY <1>5, Zenon DEF HandleClose, CloseIme
  <2>. QED  BY <2>1, StagedKept
<1>. QED  BY <1>0, <1>2, <1>3, <1>4, <1>5, Zenon DEF PollPacket

(* The bridge waits on only past a HELLO. *)
LEMMA WaitsOn ==
  ASSUME AutomaticText = << >>, WireInv, HostReceives, outstanding'
  PROVE  /\ outstanding
         /\ UNCHANGED <<openSequence, sent, delivered, stream>>
<1> DEFINE p == Head(toHost)
<1>1. Host!Receive(p) /\ p \in Uplinks
  BY HostServes, Zenon DEF HostReceives, Host!Serves
<1> HIDE DEF p
<1>2. CASE Host!ReceiveHello(p)
  <2>1. p.type = "HELLO" /\ UNCHANGED <<openSequence, stream>>
    BY <1>2, Zenon DEF Host!ReceiveHello
  <2>2. UNCHANGED history
    BY <2>1 DEF HostReceives, p
  <2>. QED  BY <2>1, <2>2, Zenon DEF history
<1>3. CASE Host!ReceiveOpen(p) \/ Host!ReceiveClose(p) \/ Host!ReceiveAck(p)
  <2>1. toDos' = toDos /\ p.type \in {"TEXT_ACK", "KEY_ACK", "OPEN_IME", "CLOSE_IME"}
    BY <1>3 DEF Host!ReceiveOpen, Host!ReceiveClose, Host!ReceiveAck
  <2>2. outstanding' = FALSE
    BY <2>1, Zenon DEF HostReceives, p
  <2>. QED  BY <2>2
<1>. QED  BY <1>1, <1>2, <1>3 DEF Host!Receive, Host!ReceivePing, Uplinks

LEMMA AppendKeeps ==
  ASSUME NEW S, NEW s \in Seq(S), NEW x
  PROVE  \A i \in DOMAIN s : i \in DOMAIN Append(s, x) /\ Append(s, x)[i] = s[i]
<1>1. s \in Seq(S \cup {x})
  OBVIOUS
<1>. QED  BY <1>1

(* A new input: the number of its session is new to everything under way. *)
LEMMA HonestSends ==
  ASSUME WireInv, TypeOK, RisingInv, HonestInv, UNCHANGED <<vars, toHost, openSequence>>,
         NEW q \in Packets, Asks(q), toDos' = Append(toDos, q),
         q.type = UserInputs[Len(sent) + 1].type, imeReady, q.seq = openSequence,
         sent' = Append(sent, FirstWord(q)), stream' = "up"
  PROVE  HonestInv'
<1> DEFINE Words == {FirstWord(p) : p \in {r \in Packets : Asks(r)}}
           word == FirstWord(q)
<1>0. /\ sent \in Seq(Words) /\ word \in Words /\ sent' = Append(sent, word)
      /\ toDos \in Seq(Packets) /\ toHost \in Seq(Uplinks) /\ word = FirstWord(q)
  BY DEF WireInv
<1> HIDE DEF Words, word
<1>1. Len(sent') = Len(sent) + 1 /\ sent' # << >> /\ sent'[Len(sent')] = word
  <2>1. sent \in Seq(Words) /\ word \in Words /\ sent' = Append(sent, word)
    BY <1>0
  <2>2. /\ Len(Append(sent, word)) = Len(sent) + 1
        /\ Append(sent, word)[Len(sent) + 1] = word
        /\ Append(sent, word) # << >>
    BY <2>1, AppendProperties
  <2>. QED  BY <2>1, <2>2, Zenon
<1>2. pending_sequence < openSequence /\ pending_sequence \in Nat /\ openSequence \in Nat
  BY WorkerAssumption DEF RisingInv, Rising, TypeOK, WireInv, SeqNums
<1>3. UNCHANGED <<pending_sequence, pending_text, pending_offset, pending_key>>
  BY DEF vars, staged
<1>4. AcksBehind'
  BY <1>3, Zenon DEF HonestInv, AcksBehind
<1>5. AskedLast'
  <2> SUFFICES ASSUME NEW i \in DOMAIN toDos', Asks(toDos'[i]),
                      toDos'[i].seq = openSequence
               PROVE  /\ toDos'[i].type = UserInputs[Len(sent')].type
                      /\ FirstWord(toDos'[i]) = sent'[Len(sent')]
    BY DEF AskedLast
  <2>1. (i \in DOMAIN toDos /\ toDos'[i] = toDos[i]) \/ toDos'[i] = q
    BY <1>0
  <2>2. CASE i \in DOMAIN toDos /\ toDos'[i] = toDos[i]
    <3>1. toDos[i].seq < openSequence
      BY <2>2, Zenon DEF RisingInv, Rising
    <3>. QED  BY <1>2, <2>2, <3>1
  <2>3. CASE toDos'[i] = q
    BY <1>0, <1>1, <2>3, Zenon
  <2>. QED  BY <2>1, <2>2, <2>3
<1>6. StillStaged'
  <2>1. pending_sequence' # openSequence'
    BY <1>2, <1>3
  <2>. QED  BY <2>1, Zenon DEF StillStaged
<1>7. Unanswered'
  <2> SUFFICES ASSUME NEW k \in DOMAIN toHost, toHost[k].seq = openSequence,
                      toHost[k].type = LastAck'
               PROVE  FALSE
    BY Zenon DEF Unanswered
  <2>1. Answers(toHost[k])
    BY DEF Answers, LastAck
  <2>2. toHost[k].seq <= pending_sequence
    BY <2>1, Zenon DEF HonestInv, AcksBehind
  <2>. QED  BY <1>2, <2>2
<1>. QED  BY <1>1, <1>4, <1>5, <1>6, <1>7 DEF HonestInv

LEMMA HonestInvStep ==
  ASSUME AutomaticText = << >>, Distinct, TypeOK, WireInv, RisingInv, OnceInv,
         HonestInv, [SystemNext]_systemVars
  PROVE  HonestInv'
<1>0. /\ toDos \in Seq(Packets) /\ toHost \in Seq(Uplinks) /\ toHost' \in Seq(Uplinks)
      /\ pending_sequence \in Nat /\ pending_sequence' \in Nat
      /\ NoNewAsks(toDos, toDos) /\ NoNewAcks(toHost, toHost)
      /\ NoNewAsks(<< >>, toDos) /\ NoNewAcks(<< >>, toHost)
      /\ pending_sequence <= pending_sequence /\ SentInv
  <2>1. WireInv' /\ TypeOK'
    BY WireInvStep, TypeStep, SystemStep
  <2>2. pending_sequence \in Nat /\ pending_sequence' \in Nat
        /\ pending_sequence <= pending_sequence
    BY <2>1, WorkerAssumption DEF TypeOK, SeqNums
  <2>3. toDos \in Seq(Packets) /\ toHost \in Seq(Uplinks) /\ toHost' \in Seq(Uplinks)
    BY <2>1, Zenon DEF WireInv
  <2>4. NoNewAsks(toDos, toDos) /\ NoNewAcks(toHost, toHost)
    BY Zenon DEF NoNewAsks, NoNewAcks
  <2>5. NoNewAsks(<< >>, toDos) /\ NoNewAcks(<< >>, toHost)
    BY DEF NoNewAsks, NoNewAcks
  <2>. QED  BY <2>2, <2>3, <2>4, <2>5, Zenon DEF OnceInv
<1>a. ASSUME UNCHANGED vars,
             outstanding' => /\ outstanding /\ stream' # "none"
                             /\ UNCHANGED <<openSequence, sent, delivered>>,
             NoNewAsks(toDos', toDos), NoNewAcks(toHost', toHost)
      PROVE  HonestInv'
  <2>1. UNCHANGED <<pending_sequence, pending_text, pending_offset, pending_key>>
    BY <1>a, Zenon DEF vars, staged
  <2>2. outstanding' => (StillStaged => StillStaged')
    BY <1>a, <2>1, StagedKept, Zenon
  <2>. QED  BY <1>0, <1>a, <2>1, <2>2, HonestKept
<1>b. ASSUME Host!LineLoss
      PROVE  NoNewAsks(toDos', toDos) /\ NoNewAcks(toHost', toHost)
  <2>1. PICK n \in 0 .. Len(toDos) : toDos' = SubSeq(toDos, 1, n)
    BY <1>b DEF Host!LineLoss
  <2>2. NoNewAsks(toDos', toDos)
    BY <1>0, <2>1, WithinPrefix, WithinIsOld
  <2>. QED  BY <1>0, <1>b, <2>2, Zenon DEF Host!LineLoss
<1>c. outstanding => stream # "none"
  BY Zenon DEF HonestInv
<1>1. CASE TsrStep
  <2>1. /\ Worker /\ Uplink /\ NoteDelivery
        /\ UNCHANGED <<stream, openSequence, toDos, sent, outstanding>>
    BY <1>1, Zenon DEF TsrStep, hostState
  <2>2. Next /\ UNCHANGED pending_sequence
    BY <2>1, TsrNumbers DEF Next
  <2>3. AcksBehind'
    <3>1. CASE NoNewAcks(toHost', toHost)
      BY <2>2, <3>1, Zenon DEF NoNewAcks, HonestInv, AcksBehind
    <3>2. ASSUME tx'[1].seq = pending_sequence, toHost' = Append(toHost, tx'[1])
          PROVE  AcksBehind'
      <4>1. \A k \in DOMAIN toHost' : \/ k \in DOMAIN toHost /\ toHost'[k] = toHost[k]
                                      \/ toHost'[k] = tx'[1]
        BY <1>0, <3>2
      <4>. QED  BY <1>0, <2>2, <3>2, <4>1, Zenon DEF HonestInv, AcksBehind
    <3>. QED  BY <2>1, <2>2, <3>1, <3>2, UplinkAnswers, Zenon
  <2>4. ASSUME outstanding
        PROVE  /\ stream # "none" /\ sent # << >>
               /\ AskedLast'
               /\ LastEntered' \/ (StillStaged' /\ Unanswered')
    <3>1. /\ stream # "none" /\ sent # << >> /\ AskedLast
          /\ LastEntered \/ (StillStaged /\ Unanswered)
      BY <2>4, Zenon DEF HonestInv
    <3>2. AskedLast'
      BY <2>1, <3>1, Zenon DEF AskedLast
    <3>3. CASE LastEntered
      <4>1. delivered' = delivered \/ \E n : delivered' = Append(delivered, n)
        BY <2>1, Zenon DEF NoteDelivery
      <4>2. delivered \in Seq(Nat)
        BY <1>0, Zenon DEF SentInv
      <4>3. \A i \in DOMAIN delivered : i \in DOMAIN delivered' /\ delivered'[i] = delivered[i]
        <5>1. CASE delivered' = delivered
          BY <5>1, Zenon
        <5>2. ASSUME NEW n, delivered' = Append(delivered, n)
              PROVE  \A i \in DOMAIN delivered : i \in DOMAIN Append(delivered, n)
                                              /\ Append(delivered, n)[i] = delivered[i]
          BY <4>2, AppendKeeps
        <5>. QED  BY <4>1, <5>1, <5>2, Zenon
      <4>4. LastEntered'
        BY <2>1, <3>3, <4>3, Zenon DEF LastEntered
      <4>. QED  BY <3>1, <3>2, <4>4
    <3>4. CASE StillStaged /\ Unanswered
      BY <2>1, <3>1, <3>2, <3>4, HonestWorker
    <3>. QED  BY <3>1, <3>3, <3>4
  <2>. QED  BY <2>1, <2>3, <2>4, Zenon DEF HonestInv
<1>2. CASE UserStroke \/ AppReads \/ KeyRelease
  <2>1. /\ User \/ App
        /\ UNCHANGED <<stream, openSequence, toDos, sent, delivered, outstanding>>
    BY <1>2, Zenon DEF UserStroke, AppReads, KeyRelease, hostState, history, User, App
  <2>2. /\ UNCHANGED pending_sequence
        /\ pending_text' = << >> \/ UNCHANGED <<pending_text, pending_offset>>
        /\ pending_key' = NoKey \/ UNCHANGED pending_key
        /\ pc = "idle"
    BY <2>1, ToggleStaged, Zenon
       DEF User, App, KeyPress, HotkeyPress, HotkeyRelease, AppRead, ReturnedHotkey,
           staged
  <2>3. NoNewAcks(toHost', toHost)
    <3>1. CASE KeyRelease
      BY <1>0, <3>1, Zenon DEF KeyRelease
    <3>2. CASE UserStroke \/ AppReads
      <4>1. Next /\ Uplink
        BY <3>2, <2>1, Zenon DEF UserStroke, AppReads, Next
      <4>2. ~Sends("TEXT_ACK") /\ ~Sends("KEY_ACK")
        BY <2>2, <4>1, SenderOf DEF InjectFinish, InjectKey
      <4>. QED  BY <4>1, <4>2, UplinkAnswers
    <3>. QED  BY <1>2, <3>1, <3>2
  <2>4. StillStaged => StillStaged'
    BY <2>1, <2>2, StagedKept
  <2>. QED  BY <1>0, <1>c, <2>1, <2>2, <2>3, <2>4, HonestKept
<1>3. CASE TsrReceives
  <2>1. PICK ok \in TxOutcomes : PollPacket(Head(toDos), ok)
    BY <1>3, Zenon DEF TsrReceives
  <2>2. /\ toDos # << >> /\ toDos' = Tail(toDos) /\ Uplink
        /\ UNCHANGED <<stream, openSequence, sent, delivered, outstanding>>
    BY <1>3, Zenon DEF TsrReceives, history
  <2>3. Head(toDos) \in Packets
    BY <1>0, <2>2
  <2>4. Next
    BY <2>1, <2>3, Zenon DEF Next, Receive
  <2>5. NoNewAcks(toHost', toHost)
    <3>1. pc = "poll"
      BY <2>1, Zenon DEF PollPacket
    <3>2. ~Sends("TEXT_ACK") /\ ~Sends("KEY_ACK")
      BY <2>4, <3>1, SenderOf DEF InjectFinish, InjectKey
    <3>. QED  BY <2>2, <2>4, <3>2, UplinkAnswers
  <2>6. pending_sequence <= pending_sequence'
    <3>1. CASE Asks(Head(toDos)) /\ pending_sequence' = Head(toDos).seq
      <4>1. 1 \in DOMAIN toDos /\ Head(toDos) = toDos[1]
        BY <1>0, <2>2
      <4>2. pending_sequence < Head(toDos).seq
        BY <3>1, <4>1, Zenon DEF RisingInv, Rising
      <4>. QED  BY <1>0, <3>1, <4>2
    <3>. QED  BY <1>0, <2>1, <3>1, TsrTakes
  <2>7. NoNewAsks(toDos', toDos)
    BY <1>0, <2>2, WithinTail, WithinIsOld
  <2>8. outstanding => (StillStaged => StillStaged')
    BY <1>0, <2>1, <2>2, HonestPoll DEF HonestInv
  <2>. QED  BY <1>0, <1>c, <2>2, <2>5, <2>6, <2>7, <2>8, HonestKept
<1>4. CASE ClosedPortLoses
  <2>1. /\ toDos # << >> /\ toDos' = Tail(toDos)
        /\ UNCHANGED <<vars, stream, openSequence, toHost, sent, delivered, outstanding>>
    BY <1>4, Zenon DEF ClosedPortLoses, history
  <2>2. NoNewAsks(toDos', toDos)
    BY <1>0, <2>1, WithinTail, WithinIsOld
  <2>. QED  BY <1>0, <1>a, <1>c, <2>1, <2>2
<1>5. CASE HostReceives
  <2>1. /\ UNCHANGED vars /\ toHost # << >> /\ toHost' = Tail(toHost)
        /\ toDos' = toDos \/ \E q \in Packets : toDos' = Append(toDos, q) /\ ~Asks(q)
    BY <1>5, HostServes, Zenon DEF HostReceives
  <2>2. NoNewAcks(toHost', toHost)
    BY <1>0, <2>1, WithinTail, WithinIsOld
  <2>3. NoNewAsks(toDos', toDos)
    <3>1. ASSUME NEW q \in Packets, toDos' = Append(toDos, q), ~Asks(q)
          PROVE  NoNewAsks(toDos', toDos)
      BY <1>0, <3>1, AppendIsOld
    <3>. QED  BY <1>0, <2>1, <3>1
  <2>4. outstanding' => /\ outstanding /\ stream' # "none"
                        /\ UNCHANGED <<openSequence, sent, delivered>>
    BY <1>5, <1>c, WaitsOn
  <2>. QED  BY <1>a, <2>1, <2>2, <2>3, <2>4
<1>6. CASE HostSkipsFragment
  <2>1. /\ UNCHANGED <<vars, stream, openSequence, toDos, sent, delivered, outstanding>>
        /\ \E n \in 1 .. Len(toHost) : toHost' = SubSeq(toHost, n + 1, Len(toHost))
    BY <1>6, Zenon DEF HostSkipsFragment, Host!SkipsFragment, Host!hostVars, history
  <2>2. NoNewAcks(toHost', toHost)
    BY <1>0, <2>1, WithinRest, WithinIsOld
  <2>. QED  BY <1>0, <1>a, <1>c, <2>1, <2>2
<1>7. CASE HostRejectsFragment
  <2>1. UNCHANGED vars /\ Host!LineLoss /\ outstanding' = FALSE
    BY <1>7, Zenon DEF HostRejectsFragment, Host!RejectsFragment
  <2>. QED  BY <1>a, <1>b, <2>1
<1>8. CASE HostConnects
  <2>1. UNCHANGED <<vars, toDos, toHost, outstanding>> /\ stream = "none"
    BY <1>8, Zenon DEF HostConnects, Host!Connects, Host!Connect, history
  <2>. QED  BY <1>0, <1>a, <1>c, <2>1
<1>9. CASE HostNoticesBreak
  <2>1. UNCHANGED <<vars, toDos, toHost>> /\ outstanding' = FALSE
    BY <1>9, Zenon DEF HostNoticesBreak, Host!NoticesBreak
  <2>. QED  BY <1>0, <1>a, <2>1
<1>10. CASE LineBreaks
  <2>1. /\ UNCHANGED <<vars, openSequence, sent, delivered, outstanding>>
        /\ Host!LineLoss /\ stream' = "broken"
    BY <1>10, Zenon DEF LineBreaks, Host!Breaks, history
  <2>. QED  BY <1>a, <1>b, <2>1
<1>11. CASE HostUser
  <2>0. UNCHANGED <<vars, toHost, openSequence>> /\ stream' = stream
    BY <1>11, Zenon
       DEF HostUser, Host!TypeText, Host!SendText, Host!SendKey, Host!ClearInput,
           Host!SendCloseIme
  <2>1. CASE UNCHANGED <<toDos, history>>
    BY <1>0, <1>a, <1>c, <2>0, <2>1 DEF history
  <2>2. ASSUME NEW q \in Packets, ~Asks(q), toDos' = Append(toDos, q), UNCHANGED history
        PROVE  HonestInv'
    <3>1. NoNewAsks(toDos', toDos)
      BY <1>0, <2>2, AppendIsOld
    <3>. QED  BY <1>0, <1>a, <1>c, <2>0, <2>2, <3>1 DEF history
  <2>3. ASSUME NEW q \in Packets, Asks(q), toDos' = Append(toDos, q),
               q.type = UserInputs[Len(sent) + 1].type, stream = "up", imeReady,
               q.seq = openSequence, sent' = Append(sent, FirstWord(q))
        PROVE  HonestInv'
    BY <2>0, <2>3, HonestSends
  <2>. QED  BY <1>0, <1>11, <2>1, <2>2, <2>3, UserSends, Zenon
<1>12. CASE UNCHANGED systemVars
  <2>1. UNCHANGED <<vars, stream, openSequence, toDos, toHost, sent, delivered, outstanding>>
    BY <1>12, Zenon DEF systemVars, hostState, history
  <2>. QED  BY <1>0, <1>a, <1>c, <2>1
<1>. QED
  BY <1>1, <1>2, <1>3, <1>4, <1>5, <1>6, <1>7, <1>8, <1>9, <1>10, <1>11, <1>12, Zenon
     DEF SystemNext

(* When the bridge takes an ACK with the number and of the kind of the input
   the user waits for, that input is in the keyboard queue, leftovers of
   timeouts and broken connections notwithstanding, as long as no number is
   used twice (BridgeForm.cs:439-450, foreground.c:276-308). *)
THEOREM MatchingAckMeansEntered ==
  ASSUME AutomaticText = << >>, Distinct
  PROVE  SystemSpec /\ []NoWrap => MatchingAckIsHonest
<1> DEFINE Honest ==
             HostTakesAck /\ outstanding /\ toHost[1].seq = openSequence
             /\ (toHost[1].type = "KEY_ACK" <=> IsKeyInput(Len(sent))) =>
               Len(sent) \in {delivered[i] : i \in DOMAIN delivered}
<1>1. SystemInit => HonestInv /\ OnceInv
  <2> SUFFICES ASSUME SystemInit PROVE HonestInv
    BY OnceInvInit
  <2>1. toHost = << >> /\ outstanding = FALSE
    BY DEF SystemInit, Host!LineInit
  <2>. QED  BY <2>1 DEF HonestInv, AcksBehind
<1>2. /\ TypeOK /\ WireInv /\ RisingInv /\ OnceInv /\ HonestInv /\ [SystemNext]_systemVars
      => HonestInv' /\ OnceInv'
  BY HonestInvStep, OnceInvStep
<1>3. WireInv /\ HonestInv => Honest
  <2> SUFFICES ASSUME WireInv, HonestInv, HostTakesAck, outstanding,
                      toHost[1].seq = openSequence,
                      toHost[1].type = "KEY_ACK" <=> IsKeyInput(Len(sent))
               PROVE  LastEntered
    BY DEF LastEntered
  <2>1. 1 \in DOMAIN toHost
    BY DEF HostTakesAck, WireInv
  <2>2. toHost[1].type = LastAck
    BY DEF HostTakesAck, LastAck
  <2>3. ~Unanswered
    BY <2>1, <2>2, Zenon DEF Unanswered
  <2>. QED  BY <2>3, Zenon DEF HonestInv
<1>4. SystemSpec => []TypeOK /\ []WireInv
  BY WireInvariant, TypeCorrect, PTL
<1>5. MatchingAckIsHonest <=> [][Honest]_systemVars
  BY DEF MatchingAckIsHonest
<1> HIDE DEF Honest
<1>. QED
  BY <1>1, <1>2, <1>3, <1>4, <1>5, RisingInvariant, PTL DEF SystemSpec

-----------------------------------------------------------------------------
(* A forgotten session is never revived                                    *)

(* Everything the PC-98 does by itself in an open session with nothing
   staged leaves it as it is, or closes it. *)
LEMMA ForgottenWorker ==
  ASSUME FlagsInv, InjectsStaged, ime_active, ~Staged, Worker \/ User \/ App
  PROVE  (ime_active' /\ ~Staged' /\ tx' = << >>) \/ Off'
<1>0. /\ pending_text = << >> /\ pending_key = NoKey
      /\ ime_enabled /\ pc \notin {"text", "key", "open"}
  BY DEF FlagsInv, SessionFlags, PhaseHasWork, InjectsStaged, Staged
<1>1. CASE \/ ServiceQuiet \/ PollDone \/ Tick \/ HotkeyPress \/ HotkeyRelease
           \/ AppRead \/ \E w \in UserWords : KeyPress(w)
  <2>1. UNCHANGED <<ime_active, pending_text, pending_key>> /\ tx' = << >>
    BY <1>1, Zenon
       DEF ServiceQuiet, PollDone, Tick, HotkeyPress, HotkeyRelease, AppRead, KeyPress,
           session, staged
  <2>. QED  BY <2>1, Zenon DEF Staged
<1>2. CASE Timeout
  BY <1>2, Zenon DEF Timeout, ResetLink, Off
<1>3. CASE \E ok \in TxOutcomes : ServiceHotkey(ok) \/ ReturnedHotkey(ok)
  <2>1. PICK ok \in TxOutcomes : ToggleIme(ok)
    BY <1>3, Zenon DEF ServiceHotkey, ReturnedHotkey
  <2>. QED  BY <1>0, <2>1, Zenon DEF ToggleIme, CloseIme, Off
<1>4. CASE \/ InjectWord \/ InjectStall \/ InjectKeyFull
           \/ \E ok \in TxOutcomes :
                InjectFinish(ok) \/ InjectKey(ok) \/ OpenSession(ok) \/ StartLink(ok)
  BY <1>0, <1>4, Zenon
     DEF InjectWord, InjectStall, InjectKeyFull, InjectFinish, InjectKey, OpenSession,
         StartLink
<1>. QED  BY <1>1, <1>2, <1>3, <1>4, Zenon DEF Worker, User, App

LEMMA ForgottenStep ==
  ASSUME FlagsInv, InjectsStaged, Forgotten, [SystemNext]_systemVars
  PROVE  Forgotten' \/ Off'
<1>0. /\ ime_active /\ ~Staged /\ toHost = << >> /\ toDos = << >>
      /\ stream # "up" \/ ~imeReady
  BY Zenon DEF Forgotten
<1>1. CASE TsrStep \/ UserStroke \/ AppReads
  <2>1. (Worker \/ User \/ App) /\ Uplink /\ UNCHANGED <<stream, imeReady, toDos>>
    BY <1>1, Zenon DEF TsrStep, UserStroke, AppReads, User, hostState
  <2>2. CASE ime_active' /\ ~Staged' /\ tx' = << >>
    <3>1. toHost' = << >>
      BY <1>0, <2>1, <2>2 DEF Uplink, Host!Carry
    <3>. QED  BY <1>0, <2>1, <2>2, <3>1, Zenon DEF Forgotten
  <2>. QED  BY <1>0, <2>1, <2>2, ForgottenWorker, Zenon
<1>2. CASE TsrReceives \/ ClosedPortLoses
  BY <1>0, <1>2, Zenon DEF TsrReceives, ClosedPortLoses
<1>3. CASE KeyRelease \/ UNCHANGED systemVars
  <2>1. UNCHANGED <<session, staged, stream, imeReady, toHost, toDos>>
    BY <1>3, Zenon DEF KeyRelease, HotkeyRelease, hostState, systemVars, vars
  <2>. QED  BY <1>0, <2>1, Zenon DEF Forgotten, Staged, session, staged
<1>4. CASE HostReceives \/ HostSkipsFragment
  BY <1>0, <1>4, Zenon
     DEF HostReceives, Host!Serves, HostSkipsFragment, Host!SkipsFragment
<1>5. CASE HostRejectsFragment
  BY <1>0, <1>5 DEF HostRejectsFragment, Host!RejectsFragment
<1>6. CASE HostConnects \/ HostNoticesBreak
  <2>1. imeReady' = FALSE /\ UNCHANGED <<session, staged, toHost, toDos>>
    BY <1>6, Zenon
       DEF HostConnects, Host!Connects, Host!Connect, HostNoticesBreak,
           Host!NoticesBreak, Host!ServeEnd, vars
  <2>. QED  BY <1>0, <2>1, Zenon DEF Forgotten, Staged, session, staged
<1>7. CASE LineBreaks
  <2>1. stream' # "up" /\ toHost' = << >> /\ UNCHANGED <<session, staged>>
    BY <1>7 DEF LineBreaks, Host!Breaks, Host!LineLoss, vars
  <2>2. toDos' = << >>
    BY <1>0, <1>7 DEF LineBreaks, Host!Breaks, Host!LineLoss
  <2>. QED  BY <1>0, <2>1, <2>2, Zenon DEF Forgotten, Staged, session, staged
<1>8. CASE HostUser
  <2>1. UNCHANGED <<session, staged, stream, imeReady, toHost, toDos>>
    BY <1>0, <1>8, Zenon
       DEF HostUser, Host!TypeText, Host!SendText, Host!SendKey, Host!ClearInput,
           Host!SendCloseIme, Host!MaySend, vars
  <2>. QED  BY <1>0, <2>1, Zenon DEF Forgotten, Staged, session, staged
<1>. QED
  BY <1>1, <1>2, <1>3, <1>4, <1>5, <1>6, <1>7, <1>8, Zenon DEF SystemNext

(* A session whose input was lost, or whose connection broke, is revived by
   nothing: neither a reconnection nor a stroke at either end makes the
   PC-98 do anything with it but wait or go OFF, whatever is lost or cut off
   on the line (foreground.c:385-398, BridgeForm.cs:453-464). *)
THEOREM ForgottenIsNotRevived == SystemSpec => ForgottenStays
<1>1. Init => InjectsStaged
  BY DEF Init, InjectsStaged
<1>2. FlagsInv /\ InjectsStaged /\ [SystemNext]_systemVars
      => [Forgotten => Forgotten' \/ Off']_systemVars
  BY ForgottenStep
<1>3. Spec => []InjectsStaged
  BY <1>1, InjectsStagedStep, PTL DEF Spec
<1>4. SystemSpec => []FlagsInv /\ []InjectsStaged
  BY <1>3, SystemImplementsWorker, FlagsInvariant, PTL
<1>. QED  BY <1>2, <1>4, PTL DEF SystemSpec, ForgottenStays

=============================================================================
