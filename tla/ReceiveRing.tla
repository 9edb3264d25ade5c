----------------------------- MODULE ReceiveRing -----------------------------
(***************************************************************************)
(* How received bytes reach accept_byte while the TSR owns COM1: the       *)
(* receive interrupt puts one byte into a ring (tsr_hook.S) and runs the   *)
(* worker, which polls the ring first and the 8251 behind it               *)
(* (foreground.c, serial_irq_buffer_pc98.c).  The worker also runs from    *)
(* INT 18h, at any time; while it runs, interrupts are off.                *)
(***************************************************************************)
EXTENDS Integers, Sequences

CONSTANTS
  Streams,      \* the byte sequences that may come over the line
  RingSize,     \* slots of pc98_serial_irq_buffer, 128; one stays unused
  ByteBudget,   \* bytes one call of poll_transport takes, 32
  MaxWaiting    \* bound on the bytes the emulator holds back

ASSUME RingAssumption ==
  /\ \A s \in Streams : s \in Seq(Nat)
  /\ RingSize \in Nat /\ RingSize > 1
  /\ ByteBudget \in Nat \ {0}
  /\ MaxWaiting \in Nat \ {0}

VARIABLES
  stream,      \* what the other end sends
  arrived,     \* bytes that have reached the emulator
  taken,       \* bytes read out of the 8251
  accepted,    \* bytes handed to accept_byte
  buffer, read_pos, write_pos,  \* the ring
  polling,     \* the worker is in poll_transport
  budget       \* what is left of its loop bound

lineVars == <<stream, arrived>>
ringVars == <<buffer, read_pos, write_pos>>
receiveVars == <<lineVars, taken, accepted, ringVars, polling, budget>>

(* Fault for the checks: the positions do not wrap. *)
AfterNoWrap(slot) == slot + 1

After(slot) == (slot + 1) % RingSize

RingInit ==
  /\ stream \in Streams
  /\ arrived = 0 /\ taken = 0 /\ accepted = 0
  /\ buffer = [i \in 0 .. RingSize - 1 |-> 0]
  /\ read_pos = 0 /\ write_pos = 0
  /\ polling = FALSE /\ budget = 0

Arrive ==
  /\ arrived < Len(stream)
  /\ arrived - taken < MaxWaiting
  /\ arrived' = arrived + 1
  /\ UNCHANGED <<stream, taken, accepted, ringVars, polling, budget>>

StartPoll == polling' = TRUE /\ budget' = ByteBudget

(* INT 0Ch with a byte in the 8251: it is dropped when the ring is full. *)
ReceiveIrq ==
  /\ ~polling
  /\ taken < arrived
  /\ taken' = taken + 1
  /\ IF After(write_pos) # read_pos
       THEN /\ buffer' = [buffer EXCEPT ![write_pos] = stream[taken + 1]]
            /\ write_pos' = After(write_pos)
       ELSE UNCHANGED <<buffer, write_pos>>
  /\ StartPoll
  /\ UNCHANGED <<lineVars, accepted, read_pos>>

(* The worker called from the INT 18h hook. *)
WorkerCall ==
  /\ ~polling
  /\ StartPoll
  /\ UNCHANGED <<lineVars, taken, accepted, ringVars>>

RingEmpty == read_pos = write_pos

Poll ==
  /\ polling /\ budget > 0
  /\ budget' = budget - 1
  /\ accepted' = accepted + 1
  /\ UNCHANGED <<lineVars, buffer, write_pos, polling>>

(* pc98_tsr_serial_try_read_byte *)
PollRing ==
  /\ ~RingEmpty
  /\ Poll
  /\ read_pos' = After(read_pos)
  /\ UNCHANGED taken

(* Fault for the checks: the 8251 is asked before the ring. *)
PollDirectFirst ==
  /\ taken < arrived
  /\ Poll
  /\ taken' = taken + 1
  /\ UNCHANGED read_pos

(* The ring is empty: pc98_serial_try_read_byte. *)
PollDirect ==
  /\ RingEmpty
  /\ taken < arrived
  /\ Poll
  /\ taken' = taken + 1
  /\ UNCHANGED read_pos

PollEnd ==
  /\ polling
  /\ budget = 0 \/ (RingEmpty /\ taken = arrived)
  /\ polling' = FALSE /\ budget' = 0
  /\ UNCHANGED <<lineVars, taken, accepted, ringVars>>

(* The byte a poll hands to accept_byte. *)
PolledByte == IF RingEmpty THEN stream[taken + 1] ELSE buffer[read_pos]

RingNext == Arrive \/ ReceiveIrq \/ WorkerCall \/ PollRing \/ PollDirect \/ PollEnd

RingSpec == RingInit /\ [][RingNext]_receiveVars

-----------------------------------------------------------------------------
(* Properties *)

Occupancy == (write_pos - read_pos + RingSize) % RingSize

RingTypeOK ==
  /\ stream \in Streams
  /\ arrived \in 0 .. Len(stream)
  /\ taken \in 0 .. arrived
  /\ accepted \in Nat
  /\ buffer \in [0 .. RingSize - 1 -> Nat]
  /\ read_pos \in 0 .. RingSize - 1 /\ write_pos \in 0 .. RingSize - 1
  /\ polling \in BOOLEAN /\ budget \in 0 .. ByteBudget

(* No byte is dropped, doubled or overtaken between the 8251 and
   accept_byte: the ring holds exactly the bytes read and not yet handed
   on, in the order of the line, whatever interrupts and calls do
   (tsr_hook.S:327-338, foreground.c:217-232). *)
BytesInOrder ==
  /\ accepted + Occupancy = taken
  /\ \A i \in 1 .. Occupancy :
       buffer[(read_pos + i - 1) % RingSize] = stream[accepted + i]

=============================================================================
