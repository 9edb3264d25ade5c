------------------------------ MODULE KeyDeque ------------------------------
(***************************************************************************)
(* What the PC-98 BIOS keyboard queue promises its users: a bounded FIFO   *)
(* of key words, of which the newest may be withdrawn again when it is the *)
(* Space of the hotkey.  KeyQueue.tla is the ring in BIOS memory that      *)
(* implements it; TsrWorker.tla uses this abstraction.                     *)
(***************************************************************************)
EXTENDS Integers, Sequences

CONSTANTS
  Words,       \* the 16-bit BIOS key words in play
  SpaceWords,  \* those among them whose code is 3420h
  Capacity     \* words the queue holds (PC98_KB_CAPACITY, 16)

VARIABLE queue

Room == Len(queue) < Capacity

(* A key word enters at the back; a full queue accepts nothing. *)
Put(w) ==
  /\ Room
  /\ queue' = Append(queue, w)

(* The oldest word is handed to a reader. *)
Take ==
  /\ queue # << >>
  /\ queue' = Tail(queue)

NewestIsSpace == queue # << >> /\ queue[Len(queue)] \in SpaceWords

(* The newest word is withdrawn; every earlier word stays. *)
Withdraw ==
  /\ NewestIsSpace
  /\ queue' = SubSeq(queue, 1, Len(queue) - 1)

Init == queue = << >>

Next == Take \/ Withdraw \/ \E w \in Words : Put(w)

Spec == Init /\ [][Next]_queue

=============================================================================
