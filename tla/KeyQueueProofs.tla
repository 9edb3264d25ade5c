--------------------------- MODULE KeyQueueProofs ---------------------------
(***************************************************************************)
(* The BIOS keyboard ring for every capacity, position and set of words:   *)
(* the pointers stay legal, the tail stays count slots behind the head,    *)
(* and the ring implements the bounded FIFO of KeyDeque.                   *)
(***************************************************************************)
EXTENDS KeyQueue, SequenceTheorems, TLAPS

IInv == TypeOK /\ RingConsistent

-----------------------------------------------------------------------------
(* Arithmetic of the ring *)

(* Slots in terms of their index. *)
LEMMA SlotIndex ==
  ASSUME NEW p \in Slots
  PROVE  \E i \in 0 .. Capacity - 1 : p = BufferStart + 2 * i
BY DEF Slots

(* Walking at most once around from a slot ends on a slot. *)
LEMMA AdvanceInRing ==
  ASSUME NEW p \in Slots, NEW n \in 0 .. Capacity
  PROVE  Advance(p, n) \in Slots
<1>1. PICK i \in 0 .. Capacity - 1 : p = BufferStart + 2 * i
  BY SlotIndex
<1>2. CASE i + n >= Capacity
  <2>1. /\ Advance(p, n) = BufferStart + 2 * (i + n - Capacity)
        /\ i + n - Capacity \in 0 .. Capacity - 1
    BY <1>1, <1>2, QueueAssumption DEF Advance, BufferEnd
  <2> QED BY <2>1 DEF Slots
<1>3. CASE i + n < Capacity
  <2>1. /\ Advance(p, n) = BufferStart + 2 * (i + n)
        /\ i + n \in 0 .. Capacity - 1
    BY <1>1, <1>3, QueueAssumption DEF Advance, BufferEnd
  <2> QED BY <2>1 DEF Slots
<1> QED BY <1>1, <1>2, <1>3, QueueAssumption

(* Fewer than Capacity steps apart, two slots differ. *)
LEMMA AdvanceInjective ==
  ASSUME NEW p \in Slots, NEW m \in 0 .. Capacity - 1,
         NEW n \in 0 .. Capacity - 1, Advance(p, m) = Advance(p, n)
  PROVE  m = n
<1>1. PICK i \in 0 .. Capacity - 1 : p = BufferStart + 2 * i
  BY SlotIndex
<1> QED BY <1>1, QueueAssumption DEF Advance, BufferEnd

(* One step forward is Succ, and it composes with Advance on both sides. *)
LEMMA SuccIsAdvance ==
  ASSUME NEW p \in Slots
  PROVE  /\ Advance(p, 0) = p
         /\ Succ(p) \in Slots
         /\ \A n \in 0 .. Capacity - 1 :
              /\ Succ(Advance(p, n)) = Advance(p, n + 1)
              /\ Advance(Succ(p), n) = Advance(p, n + 1)
<1>1. PICK i \in 0 .. Capacity - 1 : p = BufferStart + 2 * i
  BY SlotIndex
<1>2. Advance(p, 0) = p
  BY <1>1, QueueAssumption DEF Advance, BufferEnd
<1>3. Succ(p) = Advance(p, 1)
  BY <1>1, QueueAssumption DEF Advance, BufferEnd, Succ
<1>4. Succ(p) \in Slots
  BY <1>3, AdvanceInRing, QueueAssumption
<1>5. ASSUME NEW n \in 0 .. Capacity - 1
      PROVE  /\ Succ(Advance(p, n)) = Advance(p, n + 1)
             /\ Advance(Succ(p), n) = Advance(p, n + 1)
  BY <1>1, <1>5, QueueAssumption DEF Advance, BufferEnd, Succ
<1> QED BY <1>2, <1>4, <1>5

(* Pred undoes a step. *)
LEMMA PredOfAdvance ==
  ASSUME NEW p \in Slots, NEW n \in 1 .. Capacity
  PROVE  Pred(Advance(p, n)) = Advance(p, n - 1)
<1>1. PICK i \in 0 .. Capacity - 1 : p = BufferStart + 2 * i
  BY SlotIndex
<1> QED BY <1>1, QueueAssumption DEF Advance, BufferEnd, Pred

-----------------------------------------------------------------------------
(* The invariant *)

LEMMA InitInv == Init => IInv
<1> SUFFICES ASSUME Init PROVE IInv
  OBVIOUS
<1>1. TypeOK
  BY QueueAssumption DEF Init, TypeOK
<1>2. SlotOf(count + 1) = Advance(head, 0)
  BY DEF Init, SlotOf
<1>3. RingConsistent
  BY <1>2, SuccIsAdvance DEF Init, RingConsistent
<1> QED BY <1>1, <1>3 DEF IInv

(* A word written at the tail. *)
LEMMA EnqueueInv ==
  ASSUME IInv, NEW key \in Words, EnqueueWord(key)
  PROVE  IInv'
<1>1. TypeOK'
  BY SuccIsAdvance, QueueAssumption DEF IInv, TypeOK, EnqueueWord
<1>2. tail = Advance(head, count) /\ count \in 0 .. Capacity - 1
  BY QueueAssumption DEF IInv, TypeOK, RingConsistent, SlotOf, EnqueueWord
<1>3. tail' = Advance(head, count + 1)
  BY <1>2, SuccIsAdvance DEF IInv, TypeOK, EnqueueWord
<1>4. RingConsistent'
  BY <1>2, <1>3 DEF EnqueueWord, RingConsistent, SlotOf, Advance, BufferEnd
<1> QED BY <1>1, <1>4 DEF IInv

(* The newest word withdrawn. *)
LEMMA DiscardInv ==
  ASSUME IInv, DiscardHotkeySpace
  PROVE  IInv'
<1>1. count \in 1 .. Capacity /\ tail = Advance(head, count)
  BY QueueAssumption DEF IInv, TypeOK, RingConsistent, SlotOf, DiscardHotkeySpace
<1>2. tail' = Advance(head, count - 1)
  BY <1>1, PredOfAdvance DEF IInv, TypeOK, DiscardHotkeySpace
<1>3. tail' \in Slots
  <2>1. count - 1 \in 0 .. Capacity
    BY <1>1, QueueAssumption
  <2> QED BY <2>1, <1>2, AdvanceInRing DEF IInv, TypeOK
<1>4. TypeOK'
  BY <1>1, <1>3, QueueAssumption DEF IInv, TypeOK, DiscardHotkeySpace
<1>5. RingConsistent'
  BY <1>1, <1>2 DEF DiscardHotkeySpace, RingConsistent, SlotOf, Advance, BufferEnd
<1> QED BY <1>4, <1>5 DEF IInv

(* Both readers move the head the same way. *)
LEMMA ReadersAgree ==
  ASSUME IInv, DequeueWord \/ BiosRead
  PROVE  /\ count \in 1 .. Capacity
         /\ count' = count - 1
         /\ head' = Succ(head)
         /\ UNCHANGED <<buffer, tail>>
<1>1. head \in Slots /\ head \in Int
  BY QueueAssumption DEF IInv, TypeOK, Slots
<1> QED BY <1>1, QueueAssumption
           DEF IInv, TypeOK, DequeueWord, BiosRead, Succ, BufferEnd

(* The oldest word removed. *)
LEMMA ReadInv ==
  ASSUME IInv, DequeueWord \/ BiosRead
  PROVE  IInv'
<1>1. /\ count \in 1 .. Capacity
      /\ count' = count - 1
      /\ head' = Succ(head)
      /\ UNCHANGED <<buffer, tail>>
  BY ReadersAgree
<1>2. TypeOK'
  BY <1>1, SuccIsAdvance, QueueAssumption DEF IInv, TypeOK
<1>3. tail = Advance(head, count)
  BY <1>1 DEF IInv, RingConsistent, SlotOf
<1>4. count - 1 \in 0 .. Capacity - 1 /\ count - 1 + 1 = count
  BY <1>1, QueueAssumption
<1>5. Advance(Succ(head), count - 1) = Advance(head, count)
  BY <1>4, SuccIsAdvance DEF IInv, TypeOK
<1>6. RingConsistent'
  BY <1>1, <1>3, <1>5 DEF RingConsistent, SlotOf, Advance, BufferEnd
<1> QED BY <1>2, <1>6 DEF IInv

LEMMA StepInv == IInv /\ [Next]_vars => IInv'
<1> SUFFICES ASSUME IInv, [Next]_vars PROVE IInv'
  OBVIOUS
<1>1. ASSUME NEW key \in Words, EnqueueWord(key) \/ BiosKey(key)
      PROVE  IInv'
  BY <1>1, EnqueueInv DEF BiosKey
<1>2. CASE DiscardHotkeySpace
  BY <1>2, DiscardInv
<1>3. CASE DequeueWord \/ BiosRead
  BY <1>3, ReadInv
<1>4. CASE UNCHANGED vars
  BY <1>4 DEF vars, IInv, TypeOK, RingConsistent, SlotOf, Advance, BufferEnd
<1> QED BY <1>1, <1>2, <1>3, <1>4 DEF Next

(* Every writer of the ring leaves legal pointers and a legal count
   (inject_bios_pc98.c:70-124, tsr_hook.S:213-222). *)
THEOREM TypeCorrect == Spec => []TypeOK
<1>1. IInv => TypeOK
  BY DEF IInv
<1> QED BY InitInv, StepInv, <1>1, PTL DEF Spec

(* The tail is always count slots behind the head, whoever wrote last. *)
THEOREM RingStaysConsistent == Spec => []RingConsistent
<1>1. IInv => RingConsistent
  BY DEF IInv
<1> QED BY InitInv, StepInv, <1>1, PTL DEF Spec

-----------------------------------------------------------------------------
(* The ring implements the bounded FIFO *)

LEMMA ContentsType ==
  ASSUME IInv
  PROVE  /\ Contents \in Seq(Words)
         /\ Len(Contents) = count
         /\ \A i \in 1 .. count : Contents[i] = buffer[SlotOf(i)]
<1>1. \A i \in 1 .. count : SlotOf(i) \in Slots
  <2>1. \A i \in 1 .. count : i - 1 \in 0 .. Capacity
    BY QueueAssumption DEF IInv, TypeOK
  <2> QED BY <2>1, AdvanceInRing DEF IInv, TypeOK, SlotOf
<1>2. \A i \in 1 .. count : buffer[SlotOf(i)] \in Words
  BY <1>1 DEF IInv, TypeOK
<1> QED BY <1>2 DEF Contents, IInv, TypeOK

LEMMA EnqueueIsPut ==
  ASSUME IInv, NEW key \in Words, EnqueueWord(key)
  PROVE  Deque!Put(key)
<1>1. IInv'
  BY EnqueueInv
<1>2. count \in 0 .. Capacity - 1 /\ tail = SlotOf(count + 1)
  BY QueueAssumption DEF IInv, TypeOK, RingConsistent, EnqueueWord
<1>3. ASSUME NEW i \in 1 .. count PROVE SlotOf(i) # tail
  <2>1. i - 1 \in 0 .. Capacity - 1 /\ count \in 0 .. Capacity - 1 /\ i - 1 # count
    BY <1>2, <1>3, QueueAssumption
  <2>2. tail = Advance(head, count)
    BY <1>2 DEF SlotOf
  <2> QED BY <2>1, <2>2, AdvanceInjective DEF SlotOf, IInv, TypeOK
<1>4. \A i \in 1 .. count + 1 : SlotOf(i) \in Slots
  BY <1>2, AdvanceInRing, QueueAssumption DEF IInv, TypeOK, SlotOf
<1>5. \A i \in 1 .. count + 1 : SlotOf(i)' = SlotOf(i)
  BY DEF EnqueueWord, SlotOf, Advance, BufferEnd
<1>6. /\ Len(Contents') = count + 1
      /\ Contents' \in Seq(Words)
      /\ \A i \in 1 .. count + 1 : Contents'[i] = buffer'[SlotOf(i)]
  <2>1. count' = count + 1
    BY DEF EnqueueWord
  <2>2. \A i \in 1 .. count' : Contents'[i] = buffer'[SlotOf(i)']
    BY <2>1 DEF Contents
  <2>3. Contents' = [i \in 1 .. count + 1 |-> buffer'[SlotOf(i)]]
    BY <2>1, <1>5 DEF Contents
  <2>4. \A i \in 1 .. count + 1 : buffer'[SlotOf(i)] \in Words
    BY <1>1, <1>4 DEF IInv, TypeOK
  <2> QED BY <2>3, <2>4, <1>2
<1>7. \A i \in 1 .. count : Contents'[i] = Contents[i]
  BY <1>2, <1>3, <1>4, <1>6, ContentsType DEF EnqueueWord, IInv, TypeOK
<1>8. Contents'[count + 1] = key
  BY <1>2, <1>4, <1>6 DEF EnqueueWord, IInv, TypeOK
<1>9. Contents' = Append(Contents, key)
  BY <1>2, <1>6, <1>7, <1>8, ContentsType
<1>10. Len(Contents) < Capacity
  BY <1>2, ContentsType, QueueAssumption
<1> QED BY <1>9, <1>10 DEF Deque!Put, Deque!Room

LEMMA DiscardIsWithdraw ==
  ASSUME IInv, DiscardHotkeySpace
  PROVE  Deque!Withdraw
<1>1. count \in 1 .. Capacity /\ tail = Advance(head, count)
  BY QueueAssumption DEF IInv, TypeOK, RingConsistent, SlotOf, DiscardHotkeySpace
<1>2. Pred(tail) = SlotOf(count)
  BY <1>1, PredOfAdvance DEF IInv, TypeOK, SlotOf
<1>3. Deque!NewestIsSpace
  <2>1. Contents[Len(Contents)] \in SpaceWords
    BY <1>1, <1>2, ContentsType DEF DiscardHotkeySpace
  <2>2. Contents # << >>
    BY <1>1, ContentsType
  <2> QED BY <2>1, <2>2 DEF Deque!NewestIsSpace
<1>4. Contents' = [i \in 1 .. count - 1 |-> buffer[SlotOf(i)]]
  BY <1>1 DEF DiscardHotkeySpace, Contents, SlotOf, Advance, BufferEnd
<1>5. Contents' = SubSeq(Contents, 1, Len(Contents) - 1)
  <2> DEFINE front == SubSeq(Contents, 1, Len(Contents) - 1)
  <2>1. /\ count \in Nat
        /\ Len(Contents) = count
        /\ Contents \in Seq(Words)
        /\ \A i \in 1 .. count : Contents[i] = buffer[SlotOf(i)]
    BY <1>1, ContentsType, QueueAssumption
  <2>2. front = [i \in 1 .. count - 1 |-> Contents[i]]
    BY <1>1, <2>1
  <2> QED BY <1>1, <1>4, <2>1, <2>2
<1> QED BY <1>3, <1>5 DEF Deque!Withdraw

LEMMA ReadIsTake ==
  ASSUME IInv, DequeueWord \/ BiosRead
  PROVE  Deque!Take
<1>1. /\ count \in 1 .. Capacity
      /\ count' = count - 1
      /\ head' = Succ(head)
      /\ UNCHANGED <<buffer, tail>>
  BY ReadersAgree
<1>2. ASSUME NEW i \in 1 .. count - 1 PROVE SlotOf(i)' = SlotOf(i + 1)
  <2>1. i - 1 \in 0 .. Capacity - 1 /\ i - 1 + 1 = i + 1 - 1
    BY <1>1, <1>2, QueueAssumption
  <2>2. SlotOf(i)' = Advance(Succ(head), i - 1)
    BY <1>1 DEF SlotOf, Advance, BufferEnd
  <2> QED BY <2>1, <2>2, SuccIsAdvance DEF SlotOf, IInv, TypeOK
<1>3. Contents' = [i \in 1 .. count - 1 |-> buffer[SlotOf(i + 1)]]
  BY <1>1, <1>2 DEF Contents
<1>4. Contents # << >>
  BY <1>1, ContentsType
<1>5. Contents' = Tail(Contents)
  <2>1. /\ count \in Nat \ {0}
        /\ Len(Contents) = count
        /\ Contents \in Seq(Words)
        /\ \A i \in 1 .. count : Contents[i] = buffer[SlotOf(i)]
    BY <1>1, ContentsType, QueueAssumption
  <2>2. /\ Tail(Contents) \in Seq(Words)
        /\ Len(Tail(Contents)) = count - 1
        /\ \A i \in 1 .. count - 1 : Tail(Contents)[i] = Contents[i + 1]
    BY <2>1, <1>4, HeadTailProperties
  <2>3. \A i \in 1 .. count - 1 : buffer[SlotOf(i + 1)] = Contents[i + 1]
    BY <2>1
  <2>4. \A i \in 1 .. count - 1 : Contents[i + 1] \in Words
    BY <2>1
  <2>5. /\ Contents' \in Seq(Words)
        /\ Len(Contents') = count - 1
        /\ \A i \in 1 .. count - 1 : Contents'[i] = Contents[i + 1]
    BY <1>3, <2>1, <2>3, <2>4
  <2> QED BY <2>2, <2>5, SeqEqual
<1> QED BY <1>4, <1>5 DEF Deque!Take

LEMMA StepIsDeque ==
  IInv /\ [Next]_vars => [Deque!Next]_Contents
<1> SUFFICES ASSUME IInv, [Next]_vars PROVE [Deque!Next]_Contents
  OBVIOUS
<1>1. ASSUME NEW key \in Words, EnqueueWord(key) \/ BiosKey(key)
      PROVE  [Deque!Next]_Contents
  BY <1>1, EnqueueIsPut DEF BiosKey, Deque!Next
<1>2. CASE DiscardHotkeySpace
  BY <1>2, DiscardIsWithdraw DEF Deque!Next
<1>3. CASE DequeueWord \/ BiosRead
  BY <1>3, ReadIsTake DEF Deque!Next
<1>4. CASE UNCHANGED vars
  BY <1>4 DEF vars, Contents, SlotOf, Advance, BufferEnd
<1> QED BY <1>1, <1>2, <1>3, <1>4 DEF Next

(* For every capacity and starting position, the five writers of the BIOS
   ring together behave as the bounded FIFO of KeyDeque: no word is
   overwritten, lost, duplicated or reordered. *)
THEOREM RingImplementsDeque == Spec => ImplementsDeque
<1>1. Init => Deque!Init
  BY DEF Init, Deque!Init, Contents
<1> QED BY <1>1, InitInv, StepInv, StepIsDeque, PTL
           DEF Spec, ImplementsDeque, Deque!Spec

=============================================================================
