------------------------------ MODULE KeyQueue ------------------------------
(***************************************************************************)
(* The keyboard ring of the PC-98 BIOS work area (0000:0502h-0521h, head   *)
(* 0524h, tail 0526h, count 0528h) and everybody who writes to it: the     *)
(* BIOS itself (keyboard interrupt, INT 18h reads), the TSR's injection    *)
(* and hotkey suppression (inject_bios_pc98.c) and the TSR's own dequeue   *)
(* in the INT 18h wait loop (tsr_hook.S).  All of them run with interrupts *)
(* disabled, so each is one action.                                        *)
(***************************************************************************)
EXTENDS Integers, Sequences

CONSTANTS
  Words,        \* 16-bit key words
  SpaceWords,   \* the words with code 3420h
  BufferStart,  \* PC98_KB_BUFFER_START
  Capacity      \* PC98_KB_CAPACITY

ASSUME QueueAssumption ==
  /\ SpaceWords \subseteq Words
  /\ BufferStart \in Nat
  /\ Capacity \in Nat \ {0}

VARIABLES
  buffer,  \* the words of the ring, by address
  head,    \* address of the oldest word
  tail,    \* address the next word is written to
  count    \* words in the ring

vars == <<buffer, head, tail, count>>

BufferEnd == BufferStart + 2 * Capacity

(* The legal positions: in range and even, as both C functions test. *)
Slots == {BufferStart + 2 * i : i \in 0 .. Capacity - 1}

Succ(position) ==
  IF position + 2 >= BufferEnd THEN BufferStart ELSE position + 2

(* Fault for the checks: the withdrawal forgets to wrap. *)
PredNoWrap(position) ==
  IF position = BufferStart THEN position ELSE position - 2

Pred(position) ==
  IF position = BufferStart THEN BufferEnd - 2 ELSE position - 2

-----------------------------------------------------------------------------

Init ==
  /\ buffer \in [Slots -> Words]
  /\ head \in Slots
  /\ tail = head
  /\ count = 0

(* Fault for the checks: writing although the slots are taken. *)
EnqueueOverwrite(key) ==
  /\ tail \in Slots
  /\ buffer' = [buffer EXCEPT ![tail] = key]
  /\ tail' = Succ(tail)
  /\ count' = (IF count < Capacity THEN count + 1 ELSE count)
  /\ UNCHANGED head

(* pc98_bios_enqueue_word: refused when full or when the tail is no slot. *)
EnqueueWord(key) ==
  /\ count < Capacity
  /\ tail \in Slots
  /\ buffer' = [buffer EXCEPT ![tail] = key]
  /\ tail' = Succ(tail)
  /\ count' = count + 1
  /\ UNCHANGED head

(* Fault for the checks: withdrawing without asking for a word first. *)
DiscardFromEmpty ==
  /\ tail \in Slots
  /\ buffer[Pred(tail)] \in SpaceWords
  /\ tail' = Pred(tail)
  /\ count' = count - 1
  /\ UNCHANGED <<buffer, head>>

(* pc98_bios_discard_hotkey_space: withdraw the newest word if it is the
   Space key; head and all earlier input stay. *)
DiscardHotkeySpace ==
  /\ count # 0
  /\ tail \in Slots
  /\ buffer[Pred(tail)] \in SpaceWords
  /\ tail' = Pred(tail)
  /\ count' = count - 1
  /\ UNCHANGED <<buffer, head>>

(* pc98_input_dequeue: the wait loop of the INT 18h hook removes the word
   itself instead of re-entering the BIOS. *)
DequeueWord ==
  /\ count # 0
  /\ count' = count - 1
  /\ head' = (IF head + 2 < BufferEnd THEN head + 2 ELSE BufferStart)
  /\ UNCHANGED <<buffer, tail>>

(* The BIOS keyboard interrupt stores a typed key behind the others. *)
BiosKey(key) == EnqueueWord(key)

(* BIOS INT 18h AH=00h and AH=05h return and remove the oldest word. *)
BiosRead ==
  /\ count # 0
  /\ count' = count - 1
  /\ head' = Succ(head)
  /\ UNCHANGED <<buffer, tail>>

Next ==
  \/ \E key \in Words : EnqueueWord(key)
  \/ DiscardHotkeySpace
  \/ DequeueWord
  \/ \E key \in Words : BiosKey(key)
  \/ BiosRead

Spec == Init /\ [][Next]_vars

-----------------------------------------------------------------------------

(* The slot n slots behind a position, n at most Capacity. *)
Advance(position, n) ==
  IF position + 2 * n >= BufferEnd
  THEN position + 2 * n - 2 * Capacity
  ELSE position + 2 * n

(* Address of the i-th word counted from the head. *)
SlotOf(i) == Advance(head, i - 1)

(* The words in reading order: the abstraction the ring stands for. *)
Contents == [i \in 1 .. count |-> buffer[SlotOf(i)]]

TypeOK ==
  /\ buffer \in [Slots -> Words]
  /\ head \in Slots
  /\ tail \in Slots
  /\ count \in 0 .. Capacity

(* head, tail and count are three views of one queue kept by five writers
   that never look at all three: the tail is always count slots behind the
   head, so a word written at the tail or read at the head is the right
   one (inject_bios_pc98.c:70-124, tsr_hook.S:213-222). *)
RingConsistent == tail = SlotOf(count + 1)

(* The ring implements the bounded FIFO: no writer overwrites, loses,
   duplicates or reorders a word another one put there ("existing keys are
   never overwritten", inject_bios_pc98.c:70). *)
Deque == INSTANCE KeyDeque WITH queue <- Contents

ImplementsDeque == Deque!Spec

=============================================================================
