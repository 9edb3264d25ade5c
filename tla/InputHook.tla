----------------------------- MODULE InputHook ------------------------------
(***************************************************************************)
(* How the worker of TsrWorker.tla gets to run: the INT 18h hook and the   *)
(* COM1 interrupt of dos/pc98/tsr_hook.S, the BIOS call between them, and  *)
(* the wait loop that takes over a blocking read whose key was the hotkey. *)
(*                                                                         *)
(* One application calls INT 18h; AH=00h waits for a key, 01h looks at the *)
(* queue, 05h reads without waiting.  The BIOS removes a word and returns  *)
(* to the hook in one step, and waits with interrupts on.                  *)
(***************************************************************************)
EXTENDS TsrWorker

CONSTANT AppCalls   \* the AH values the application uses

VARIABLES
  fg,           \* where the application's call is
  original_ah,  \* pc98_input_original_ah
  job           \* the worker on the private stack: "none", "todo", "run"

hookVars == <<vars, fg, original_ah, job>>

(* fg: "app" between calls, "pre" in front of the BIOS, "bios" inside it, in
   the wait loop "wait" before the check, "drowsy" between an empty check
   and HLT, "halt" asleep.  *)
Places == {"app", "pre", "bios", "wait", "drowsy", "halt"}

(* Fault for the checks: the check of the wait loop without its CLI. *)
InterruptibleInCheck == job = "none" /\ fg # "pre"

(* INT and CLI keep interrupts off in the hooks, from the check of the wait
   loop to its STI; HLT, and through the whole worker. *)
Interruptible == job = "none" /\ fg \in {"app", "bios", "wait", "halt"}

(* Fault for the checks: nothing wakes the sleeper. *)
AwakeNever == fg

(* Any interrupt ends HLT. *)
Awake == IF fg = "halt" THEN "wait" ELSE fg

-----------------------------------------------------------------------------
(* The worker *)

StartWorker ==
  /\ job = "todo"
  /\ ServiceQuiet \/ \E ok \in TxOutcomes : ServiceHotkey(ok)
  /\ job' = "run"
  /\ UNCHANGED <<fg, original_ah>>

RunWorker ==
  /\ job = "run"
  /\ pc # "idle"
  /\ Worker \/ Receive
  /\ UNCHANGED <<fg, original_ah, job>>

EndWorker ==
  /\ job = "run"
  /\ pc = "idle"
  /\ job' = "none"
  /\ fg' = (IF fg = "pre" THEN "bios" ELSE fg)
  /\ UNCHANGED <<vars, original_ah>>

-----------------------------------------------------------------------------
(* pc98_input_hook *)

(* The application calls INT 18h: the worker runs first. *)
Int18(ah) ==
  /\ fg = "app"
  /\ Interruptible
  /\ fg' = "pre"
  /\ original_ah' = ah
  /\ job' = "todo"
  /\ UNCHANGED vars

InBios == fg = "bios" /\ job = "none"

(* A word that is not the hotkey goes back to the application. *)
BiosReadsKey ==
  /\ InBios
  /\ original_ah \in {0, 5}
  /\ AppRead
  /\ fg' = "app"
  /\ UNCHANGED <<original_ah, job>>

(* The hotkey Space is swallowed: AH=05h reports no key, AH=00h goes on
   waiting in the loop of the hook. *)
BiosReadsHotkey ==
  /\ InBios
  /\ original_ah \in {0, 5}
  /\ \E ok \in TxOutcomes : ReturnedHotkey(ok)
  /\ Kb!Take
  /\ fg' = (IF original_ah = 0 THEN "wait" ELSE "app")
  /\ UNCHANGED <<original_ah, job>>

(* AH=01h on a hotkey Space, which stays in the queue. *)
BiosSensesHotkey ==
  /\ InBios
  /\ original_ah = 1
  /\ \E ok \in TxOutcomes : ReturnedHotkey(ok)
  /\ UNCHANGED kbd
  /\ fg' = "app"
  /\ UNCHANGED <<original_ah, job>>

(* AH=01h otherwise, and AH=05h on an empty queue. *)
BiosReturns ==
  /\ InBios
  /\ original_ah = 1 \/ (original_ah = 5 /\ kbd = << >>)
  /\ ~ReturnsHotkey
  /\ fg' = "app"
  /\ UNCHANGED <<vars, original_ah, job>>

-----------------------------------------------------------------------------
(* pc98_input_wait_queue *)

LoopFindsNothing ==
  /\ fg = "wait" /\ job = "none"
  /\ kbd = << >>
  /\ fg' = "drowsy"
  /\ UNCHANGED <<vars, original_ah, job>>

LoopHalts ==
  /\ fg = "drowsy" /\ job = "none"
  /\ fg' = "halt"
  /\ UNCHANGED <<vars, original_ah, job>>

(* The dequeued word passes the same filter as one the BIOS returns. *)
LoopDequeues ==
  /\ fg = "wait" /\ job = "none"
  /\ \/ AppRead /\ fg' = "app"
     \/ /\ \E ok \in TxOutcomes : ReturnedHotkey(ok)
        /\ Kb!Take
        /\ UNCHANGED fg
  /\ UNCHANGED <<original_ah, job>>

-----------------------------------------------------------------------------
(* Interrupts *)

(* pc98_serial_irq_hook takes a received byte only while the capture is on;
   otherwise the interrupt goes to the previous owner. *)
Com1Irq ==
  /\ Interruptible
  /\ irq_capture
  /\ "com1" \notin pic_mask
  /\ job' = "todo"
  /\ fg' = Awake
  /\ UNCHANGED <<vars, original_ah>>

KeyboardIrq ==
  /\ Interruptible
  /\ User
  /\ fg' = Awake
  /\ UNCHANGED <<original_ah, job>>

-----------------------------------------------------------------------------

HookInit == Init /\ fg = "app" /\ original_ah = 0 /\ job = "none"

WorkerSteps == StartWorker \/ RunWorker \/ EndWorker

CallSteps ==
  \/ BiosReadsKey \/ BiosReadsHotkey \/ BiosSensesHotkey \/ BiosReturns
  \/ LoopFindsNothing \/ LoopHalts \/ LoopDequeues

HookNext ==
  \/ WorkerSteps
  \/ CallSteps
  \/ \E ah \in AppCalls : Int18(ah)
  \/ Com1Irq
  \/ KeyboardIrq

HookSpec == HookInit /\ [][HookNext]_hookVars

(* The worker returns; a byte takes longer to arrive than to be served, so
   interrupts leave the call its turn; and the application comes back to its
   keyboard.  Interrupts may never come. *)
FairHook ==
  /\ HookSpec
  /\ WF_hookVars(WorkerSteps)
  /\ SF_hookVars(CallSteps)
  /\ SF_hookVars(\E ah \in AppCalls : Int18(ah))

-----------------------------------------------------------------------------
(* Properties *)

(* The processor never sleeps on a key: neither one that came between the
   check and HLT nor one injected by the COM1 interrupt nor one that waits
   in the staging buffer, leftovers of a timeout apart (tsr_hook.S:193-211,
   "so injected text is returned immediately"). *)
NoSleepOnInput ==
  fg = "halt" => kbd = << >> /\ (Staged => abandoned)

(* A word in the queue ends the application's wait, whoever put it there:
   it is returned, or it was the hotkey, which no user strikes for ever
   (tsr_hook.S:193-222). *)
WaiterIsServed ==
  <>[][~User]_vars =>
    (fg \in {"wait", "drowsy", "halt"} /\ kbd # << >>
       ~> fg = "app" \/ kbd = << >>)

(* Input staged while the application stays inside one blocking read does not
   lie in front of an empty queue for good: the receive interrupt that staged
   it puts a word of it into the queue, or drops it.  Nothing is said of the
   words after the first, which wait for the application to read
   (foreground.c:373-376, tsr_hook.S:193-211). *)
StagedMovesWhileBlocked ==
  fg = "bios" /\ Staged /\ kbd = << >> ~> ~Staged \/ kbd # << >>

(* "ON opens COM1, sends HELLO, waits for PONG, and sends OPEN_IME"
   (SPECIFICATION.md:76).  Refuted for an application blocked in AH=00h: its
   call sleeps in the wait loop, no receive interrupt is armed yet, and the
   worker that would start the link runs at the next key only. *)
OnOpensLink == ime_enabled ~> link_state # "CLOSED" \/ ~ime_enabled

=============================================================================
