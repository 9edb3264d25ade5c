---------------------------- MODULE FramingProofs ----------------------------
(***************************************************************************)
(* What the receive ring and the three readers of Framing.tla do with any  *)
(* stream.                                                                 *)
(*                                                                         *)
(* The ring loses nothing, for every size of it from two slots on and      *)
(* every budget of a poll: the interrupt that stores a byte runs the       *)
(* worker at once, which polls the ring first, so that outside of a poll   *)
(* the ring is empty, and inside of one it holds a single byte with budget *)
(* left to take it.                                                        *)
(*                                                                         *)
(* A reader that reads certain packets has, after n bytes, those of them   *)
(* that have ended, the first bytes of the one that has not, and between   *)
(* packets at most a stray Magic0 (ReaderAt).  Which packets these are is  *)
(* what the readers differ in: all of them for the TSR, those not behind   *)
(* an odd number of stray Magic0 for the client and the bridge, those in   *)
(* front of a packet that was cut off for a bridge that meets one.         *)
(***************************************************************************)
EXTENDS Framing, FiniteSetTheorems, SequenceTheorems, TLAPS

Drained == write_pos = read_pos /\ accepted = taken

OneByteHeld ==
  /\ polling /\ budget > 0
  /\ write_pos = After(read_pos)
  /\ taken = accepted + 1
  /\ buffer[read_pos] = stream[taken]

RingInv == RingTypeOK /\ (Drained \/ OneByteHeld)

-----------------------------------------------------------------------------
(* Positions *)

(* The next slot is the next number, and the first slot behind the last. *)
LEMMA NextSlot ==
  ASSUME NEW slot \in 0 .. RingSize - 1
  PROVE  /\ After(slot) = IF slot + 1 = RingSize THEN 0 ELSE slot + 1
         /\ After(slot) \in 0 .. RingSize - 1
         /\ After(slot) # slot
<1>1. RingSize \in Nat /\ RingSize > 1
  BY RingAssumption
<1>2. CASE slot + 1 = RingSize
  <2>1. RingSize % RingSize = 0
    BY <1>1, SMTT(30)
  <2>. QED  BY <1>1, <1>2, <2>1 DEF After
<1>3. CASE slot + 1 # RingSize
  <2>1. slot + 1 \in 0 .. RingSize - 1
    BY <1>1, <1>3
  <2>2. (slot + 1) % RingSize = slot + 1
    BY <1>1, <2>1, SMTT(30)
  <2>. QED  BY <1>1, <1>3, <2>1, <2>2 DEF After
<1>. QED  BY <1>2, <1>3

(* How many bytes lie between two positions that are equal or one apart. *)
LEMMA NearPositions ==
  ASSUME RingTypeOK
  PROVE  /\ write_pos = read_pos => Occupancy = 0
         /\ write_pos = After(read_pos) => Occupancy = 1
<1>1. /\ RingSize \in Nat /\ RingSize > 1
      /\ read_pos \in 0 .. RingSize - 1 /\ write_pos \in 0 .. RingSize - 1
  BY RingAssumption DEF RingTypeOK
<1>2. RingSize % RingSize = 0 /\ 1 % RingSize = 1
  BY <1>1, SMTT(30)
<1>3. (RingSize + 1) % RingSize = 1
  BY <1>1, SMTT(30)
<1>4. ASSUME write_pos = read_pos  PROVE Occupancy = 0
  <2>1. write_pos - read_pos + RingSize = RingSize
    BY <1>1, <1>4
  <2>. QED  BY <1>2, <2>1 DEF Occupancy
<1>5. ASSUME write_pos = After(read_pos)  PROVE Occupancy = 1
  <2>1. \/ write_pos - read_pos + RingSize = 1
        \/ write_pos - read_pos + RingSize = RingSize + 1
    BY <1>1, <1>5, NextSlot
  <2>. QED  BY <1>2, <1>3, <2>1 DEF Occupancy
<1>. QED  BY <1>4, <1>5

-----------------------------------------------------------------------------
(* The invariant *)

LEMMA RingStarts == RingInit => RingInv
<1> SUFFICES ASSUME RingInit  PROVE RingInv
  OBVIOUS
<1>1. /\ RingSize \in Nat /\ RingSize > 1 /\ ByteBudget \in Nat
      /\ stream \in Streams /\ Len(stream) \in Nat
  <2>1. stream \in Streams /\ stream \in Seq(Nat)
    BY RingAssumption DEF RingInit
  <2>. QED  BY <2>1, RingAssumption
<1>2. buffer \in [0 .. RingSize - 1 -> Nat]
  BY DEF RingInit
<1>3. /\ arrived = 0 /\ taken = 0 /\ accepted = 0
      /\ read_pos = 0 /\ write_pos = 0
      /\ polling = FALSE /\ budget = 0
  BY DEF RingInit
<1>4. polling \in BOOLEAN
  BY <1>3
<1>5. RingTypeOK
  BY <1>1, <1>2, <1>3, <1>4 DEF RingTypeOK
<1>. QED  BY <1>3, <1>5 DEF RingInv, Drained

LEMMA RingSteps == RingInv /\ [RingNext]_receiveVars => RingInv'
<1> SUFFICES ASSUME RingInv, [RingNext]_receiveVars  PROVE RingInv'
  OBVIOUS
<1>1. /\ stream \in Streams /\ stream \in Seq(Nat)
      /\ arrived \in 0 .. Len(stream)
      /\ taken \in 0 .. arrived
      /\ accepted \in Nat
      /\ buffer \in [0 .. RingSize - 1 -> Nat]
      /\ read_pos \in 0 .. RingSize - 1 /\ write_pos \in 0 .. RingSize - 1
      /\ polling \in BOOLEAN /\ budget \in 0 .. ByteBudget
      /\ ByteBudget \in Nat \ {0} /\ RingSize \in Nat /\ RingSize > 1
      /\ Len(stream) \in Nat
  BY RingAssumption DEF RingInv, RingTypeOK
<1>2. Drained \/ OneByteHeld
  BY DEF RingInv
<1>3. /\ After(read_pos) \in 0 .. RingSize - 1
      /\ After(write_pos) \in 0 .. RingSize - 1
      /\ After(write_pos) # write_pos
  BY <1>1, NextSlot
<1>4. CASE Arrive
  BY <1>1, <1>2, <1>4
     DEF Arrive, ringVars, RingInv, RingTypeOK, Drained, OneByteHeld, After
<1>5. CASE ReceiveIrq
  <2>1. Drained
    BY <1>2, <1>5 DEF ReceiveIrq, OneByteHeld
  <2>2. /\ buffer' = [buffer EXCEPT ![write_pos] = stream[taken + 1]]
        /\ write_pos' = After(write_pos)
    BY <1>3, <1>5, <2>1 DEF ReceiveIrq, Drained
  <2>3. /\ taken' = taken + 1 /\ taken < arrived
        /\ polling' = TRUE /\ budget' = ByteBudget
        /\ UNCHANGED <<stream, arrived, accepted, read_pos>>
    BY <1>5 DEF ReceiveIrq, StartPoll, lineVars
  <2>4. stream[taken + 1] \in Nat
    BY <1>1, <2>3
  <2>5. RingTypeOK'
    <3>1. buffer' \in [0 .. RingSize - 1 -> Nat]
      BY <1>1, <2>2, <2>4
    <3>2. write_pos' \in 0 .. RingSize - 1
      BY <1>3, <2>2
    <3>3. taken' \in 0 .. arrived' /\ budget' \in 0 .. ByteBudget
      BY <1>1, <2>3
    <3>. QED  BY <1>1, <2>3, <3>1, <3>2, <3>3 DEF RingTypeOK
  <2>6. buffer'[read_pos'] = stream'[taken']
    BY <1>1, <2>1, <2>2, <2>3 DEF Drained
  <2>7. OneByteHeld'
    BY <1>1, <2>1, <2>2, <2>3, <2>6 DEF Drained, OneByteHeld, After
  <2>. QED  BY <2>5, <2>7 DEF RingInv
<1>6. CASE WorkerCall
  BY <1>1, <1>2, <1>6
     DEF WorkerCall, StartPoll, lineVars, ringVars, RingInv, RingTypeOK, Drained, OneByteHeld
<1>7. CASE PollRing
  <2>1. /\ UNCHANGED <<stream, arrived, taken, buffer, write_pos, polling>>
        /\ budget > 0 /\ budget' = budget - 1
        /\ accepted' = accepted + 1
        /\ read_pos # write_pos /\ read_pos' = After(read_pos)
    BY <1>7 DEF PollRing, Poll, RingEmpty, lineVars
  <2>2. OneByteHeld
    BY <1>2, <2>1 DEF Drained
  <2>3. Drained'
    BY <2>1, <2>2 DEF Drained, OneByteHeld
  <2>4. RingTypeOK'
    BY <1>1, <1>3, <2>1 DEF RingTypeOK
  <2>. QED  BY <2>3, <2>4 DEF RingInv
<1>8. CASE PollDirect
  <2>1. /\ UNCHANGED <<stream, arrived, buffer, read_pos, write_pos, polling>>
        /\ budget > 0 /\ budget' = budget - 1
        /\ accepted' = accepted + 1 /\ taken' = taken + 1
        /\ read_pos = write_pos /\ taken < arrived
    BY <1>8 DEF PollDirect, Poll, RingEmpty, lineVars
  <2>2. Drained
    BY <1>1, <1>2, <2>1, NextSlot DEF OneByteHeld
  <2>3. Drained'
    BY <2>1, <2>2 DEF Drained
  <2>4. RingTypeOK'
    BY <1>1, <2>1 DEF RingTypeOK
  <2>. QED  BY <2>3, <2>4 DEF RingInv
<1>9. CASE PollEnd
  <2>1. /\ UNCHANGED <<stream, arrived, taken, accepted, buffer, read_pos, write_pos>>
        /\ polling' = FALSE /\ budget' = 0
        /\ budget = 0 \/ read_pos = write_pos
    BY <1>9 DEF PollEnd, RingEmpty, lineVars, ringVars
  <2>2. Drained
    BY <1>1, <1>2, <2>1, NextSlot DEF OneByteHeld
  <2>3. Drained'
    BY <2>1, <2>2 DEF Drained
  <2>4. polling' \in BOOLEAN
    BY <2>1
  <2>5. RingTypeOK'
    BY <1>1, <2>1, <2>4 DEF RingTypeOK
  <2>. QED  BY <2>3, <2>5 DEF RingInv
<1>10. CASE UNCHANGED receiveVars
  BY <1>10 DEF receiveVars, lineVars, ringVars, RingInv, RingTypeOK, Drained, OneByteHeld, After
<1>. QED  BY <1>4, <1>5, <1>6, <1>7, <1>8, <1>9, <1>10 DEF RingNext

LEMMA RingInvOrders == RingInv => BytesInOrder
<1> SUFFICES ASSUME RingInv  PROVE BytesInOrder
  OBVIOUS
<1>1. RingTypeOK /\ (Drained \/ OneByteHeld)
  BY DEF RingInv
<1>2. /\ accepted \in Nat /\ read_pos \in 0 .. RingSize - 1
      /\ RingSize \in Nat /\ RingSize > 1
  BY <1>1, RingAssumption DEF RingTypeOK
<1>3. CASE Drained
  <2>1. Occupancy = 0
    BY <1>1, <1>3, NearPositions DEF Drained
  <2>. QED  BY <1>2, <1>3, <2>1 DEF Drained, BytesInOrder
<1>4. CASE OneByteHeld
  <2>1. Occupancy = 1
    BY <1>1, <1>4, NearPositions DEF OneByteHeld
  <2>2. read_pos % RingSize = read_pos
    BY <1>2, SMTT(30)
  <2>3. \A i \in 1 .. Occupancy :
          buffer[(read_pos + i - 1) % RingSize] = stream[accepted + i]
    <3> SUFFICES ASSUME NEW i \in 1 .. Occupancy
                 PROVE  buffer[(read_pos + i - 1) % RingSize] = stream[accepted + i]
      OBVIOUS
    <3>1. i = 1 /\ read_pos + i - 1 = read_pos
      BY <1>2, <2>1
    <3>. QED  BY <1>4, <2>2, <3>1 DEF OneByteHeld
  <2>. QED  BY <1>4, <2>1, <2>3 DEF OneByteHeld, BytesInOrder
<1>. QED  BY <1>1, <1>3, <1>4

-----------------------------------------------------------------------------
(* The ring among the readers *)

LEMMA FramingRuns == FramingSpec => RingSpec
<1>1. FramingInit => RingInit
  BY DEF FramingInit
<1>2. [FramingNext]_framingVars => [RingNext]_receiveVars
  BY DEF FramingNext, ByteComes, TsrPolls, TsrReceives, RingNext, framingVars
<1>. QED  BY <1>1, <1>2, PTL DEF FramingSpec, RingSpec

(* The ring keeps its form whatever interrupts and calls do. *)
THEOREM RingTypeCorrect == FramingSpec => []RingTypeOK
<1>1. RingInv => RingTypeOK
  BY DEF RingInv
<1>. QED  BY <1>1, RingStarts, RingSteps, FramingRuns, PTL DEF RingSpec

(* No byte is lost, doubled or overtaken between the 8251 and accept_byte
   (tsr_hook.S:313-340, serial_irq_buffer_pc98.c:54-64). *)
THEOREM RingLosesNothing == FramingSpec => []BytesInOrder
BY RingStarts, RingSteps, RingInvOrders, FramingRuns, PTL DEF RingSpec

-----------------------------------------------------------------------------
(* Where packets are in a stream *)

LEMMA Layout ==
  ASSUME NEW in \in Inputs
  PROVE  /\ in.bytes \in Seq(Nat) /\ Len(in.bytes) \in Nat
         /\ \A s \in in.packets \cup in.fragments :
              /\ s.first \in Nat /\ s.last \in Nat
              /\ 0 < s.first /\ s.first <= s.last /\ s.last <= Len(in.bytes)
              /\ \A r \in in.packets \cup in.fragments :
                   r = s \/ r.last < s.first \/ s.last < r.first
<1>1. in.bytes \in Streams
  BY FramingAssumption
<1>2. in.bytes \in Seq(Nat) /\ Len(in.bytes) \in Nat
  BY <1>1, RingAssumption
<1>3. ASSUME NEW s \in in.packets \cup in.fragments
      PROVE  /\ s \in Spans
             /\ s.first <= s.last /\ s.last <= Len(in.bytes)
             /\ \A r \in in.packets \cup in.fragments :
                  r = s \/ r.last < s.first \/ s.last < r.first
  <2>1. in.packets \subseteq Spans /\ in.fragments \subseteq Spans
    BY FramingAssumption, Zenon
  <2>. QED  BY <2>1, FramingAssumption, Zenon
<1>. QED  BY <1>2, <1>3 DEF Spans

LEMMA FinitePackets == ASSUME NEW in \in Inputs PROVE IsFiniteSet(in.packets)
<1> DEFINE places == 1 .. Len(in.bytes)
           f == [p \in in.packets |-> p.first]
<1>1. IsFiniteSet(places)
  BY Layout, FS_Interval
<1>2. \A p \in in.packets : f[p] \in places
  BY Layout
<1>3. \A p, q \in in.packets : f[p] = f[q] => p = q
  BY Layout
<1>4. f \in Injection(in.packets, places)
  BY <1>2, <1>3 DEF Injection, IsInjective
<1>. QED  BY <1>1, <1>4, FS_Injection

LEMMA Slices ==
  ASSUME NEW s \in Seq(Nat), NEW a \in Nat, NEW b \in Nat, 0 < a, a <= b, b <= Len(s)
  PROVE  /\ SubSeq(s, a, b) \in Seq(Nat) /\ Len(SubSeq(s, a, b)) = b - a + 1
         /\ \A i \in 1 .. b - a + 1 : SubSeq(s, a, b)[i] = s[a + i - 1]
         /\ b < Len(s) => SubSeq(s, a, b + 1) = Append(SubSeq(s, a, b), s[b + 1])
         /\ SubSeq(s, a, a) = <<s[a]>>
<1>1. \A i \in a .. b : s[i] \in Nat
  OBVIOUS
<1>2. /\ SubSeq(s, a, b) \in Seq(Nat) /\ Len(SubSeq(s, a, b)) = b - a + 1
      /\ \A i \in 1 .. b - a + 1 : SubSeq(s, a, b)[i] = s[a + i - 1]
  BY <1>1, SubSeqProperties
<1>3. ASSUME b < Len(s)
      PROVE  SubSeq(s, a, b + 1) = Append(SubSeq(s, a, b), s[b + 1])
  <2>1. a \in 1 .. Len(s) /\ b + 1 \in a .. Len(s) /\ (b + 1) - 1 = b
    BY <1>3
  <2>2. SubSeq(s, a, b + 1) = SubSeq(s, a, b) \o <<s[b + 1]>>
    BY <2>1, SubSeqRecursiveSecond
  <2>3. s[b + 1] \in Nat
    BY <1>3
  <2>. QED  BY <1>2, <2>2, <2>3, AppendIsConcat
<1>4. SubSeq(s, a, a) = <<s[a]>>
  <2>1. a \in 1 .. Len(s) /\ a \in a .. Len(s)
    OBVIOUS
  <2>2. SubSeq(s, a, a) = <<s[a]>> \o SubSeq(s, a + 1, a)
    BY <2>1, SubSeqRecursiveFirst
  <2>3. SubSeq(s, a + 1, a) = << >>
    BY SubSeqEmpty
  <2>4. <<s[a]>> \in Seq(Nat)
    BY <1>1
  <2>. QED  BY <2>2, <2>3, <2>4, ConcatEmptySeq
<1>. QED  BY <1>2, <1>3, <1>4

(* What the header says of a packet. *)
LEMMA PacketForm ==
  ASSUME NEW in \in Inputs, NEW p \in in.packets
  PROVE  /\ in.bytes[p.first] = Magic0 /\ in.bytes[p.first + 1] = Magic1
         /\ Len(SubSeq(in.bytes, p.first, p.last)) = p.last - p.first + 1
         /\ in.bytes[p.first + HeaderSize - 1] \in Nat
         /\ in.bytes[p.first + HeaderSize - 1] <= MaxPayload
         /\ p.last - p.first + 1 = Overhead + in.bytes[p.first + HeaderSize - 1]
         /\ HeaderSize \in Nat /\ HeaderSize > 3 /\ MaxPayload \in Nat
<1> DEFINE whole == SubSeq(in.bytes, p.first, p.last)
<1>1. /\ in.bytes \in Seq(Nat) /\ Len(in.bytes) \in Nat
      /\ p.first \in Nat /\ p.last \in Nat
      /\ 0 < p.first /\ p.first <= p.last /\ p.last <= Len(in.bytes)
  BY Layout
<1>2. Parses(whole)
  BY FramingAssumption, Zenon
<1>3. HeaderSize \in Nat /\ HeaderSize > 3 /\ MaxPayload \in Nat
  BY FramingAssumption
<1>4. /\ Len(whole) = p.last - p.first + 1
      /\ \A i \in 1 .. p.last - p.first + 1 : whole[i] = in.bytes[p.first + i - 1]
  BY <1>1, Slices
<1> HIDE DEF whole
<1>5. /\ Len(whole) >= HeaderSize + 1 /\ whole[1] = Magic0 /\ whole[2] = Magic1
      /\ whole[HeaderSize] <= MaxPayload /\ Len(whole) = Overhead + whole[HeaderSize]
  BY <1>2, Zenon DEF Parses, LengthIn, Overhead
<1>6. /\ p.last - p.first + 1 \in Nat /\ p.last - p.first + 1 >= HeaderSize + 1
      /\ p.first + HeaderSize - 1 \in 1 .. Len(in.bytes)
  <2>1. p.last - p.first + 1 >= HeaderSize + 1
    BY <1>4, <1>5, Zenon
  <2> DEFINE a == p.first  b == p.last  n == Len(in.bytes)
  <2>2. /\ a \in Nat /\ b \in Nat /\ n \in Nat /\ 0 < a /\ b <= n
        /\ b - a + 1 >= HeaderSize + 1
    BY <1>1, <2>1
  <2> HIDE DEF a, b, n
  <2>3. b - a + 1 \in Nat /\ a + HeaderSize - 1 \in 1 .. n
    BY <1>3, <2>2
  <2>. QED  BY <2>1, <2>3 DEF a, b, n
<1>7. /\ whole[1] = in.bytes[p.first] /\ whole[2] = in.bytes[p.first + 1]
      /\ whole[HeaderSize] = in.bytes[p.first + HeaderSize - 1]
  <2>1. /\ 1 \in 1 .. p.last - p.first + 1 /\ 2 \in 1 .. p.last - p.first + 1
        /\ HeaderSize \in 1 .. p.last - p.first + 1
    BY <1>3, <1>6
  <2>2. p.first + 1 - 1 = p.first /\ p.first + 2 - 1 = p.first + 1
    BY <1>1
  <2>. QED  BY <1>4, <2>1, <2>2, Zenon
<1>8. in.bytes[p.first + HeaderSize - 1] \in Nat
  BY <1>1, <1>6
<1>. QED  BY <1>3, <1>4, <1>5, <1>7, <1>8 DEF whole

-----------------------------------------------------------------------------
(* Lists of packets *)

LEMMA ReadsMore ==
  ASSUME NEW bytes, NEW Items, NEW list \in Seq(Items), NEW S, NEW p,
         IsFiniteSet(S), p \notin S, \A q \in S \cup {p} : q.first \in Nat,
         \A q \in S : q.first < p.first, SubSeq(bytes, p.first, p.last) \in Items,
         Reads(bytes, list, S)
  PROVE  Reads(bytes, Append(list, SubSeq(bytes, p.first, p.last)), S \cup {p})
<1> DEFINE T == S \cup {p}
           At(q) == SubSeq(bytes, q.first, q.last)
           more == Append(list, At(p))
           Rank(U, q) == Cardinality({r \in U : r.first <= q.first})
<1>1. /\ Cardinality(S) \in Nat /\ IsFiniteSet(T) /\ Cardinality(T) = Cardinality(S) + 1
  BY FS_CardinalityType, FS_AddElement
<1>2. /\ Len(list) = Cardinality(S)
      /\ \A q \in S : list[Rank(S, q)] = At(q)
  BY DEF Reads
<1>0. At(p) \in Items
  OBVIOUS
<1> HIDE DEF At
<1>3. /\ Len(more) = Len(list) + 1 /\ more[Len(list) + 1] = At(p)
      /\ \A i \in 1 .. Len(list) : more[i] = list[i]
  BY <1>0, AppendProperties
<1> HIDE DEF more
<1>4. ASSUME NEW q \in S PROVE more[Rank(T, q)] = At(q)
  <2>1. {r \in T : r.first <= q.first} = {r \in S : r.first <= q.first}
    OBVIOUS
  <2>2. Rank(S, q) \in 1 .. Len(list)
    <3> DEFINE U == {r \in S : r.first <= q.first}
    <3>1. IsFiniteSet(U) /\ Cardinality(U) <= Cardinality(S)
      BY FS_Subset
    <3>2. Cardinality(U) \in Nat /\ q \in U
      BY <3>1, FS_CardinalityType
    <3>3. Cardinality(U) # 0
      BY <3>1, <3>2, FS_EmptySet
    <3>. QED  BY <1>1, <1>2, <3>1, <3>2, <3>3
  <2>. QED  BY <1>2, <1>3, <2>1, <2>2
<1>5. more[Rank(T, p)] = At(p)
  <2>1. {r \in T : r.first <= p.first} = T
    OBVIOUS
  <2>. QED  BY <1>1, <1>2, <1>3, <2>1
<1>6. \A q \in T : more[Rank(T, q)] = At(q)
  BY <1>4, <1>5
<1>7. Len(more) = Cardinality(T)
  BY <1>1, <1>2, <1>3
<1>. QED  BY <1>6, <1>7 DEF Reads, more, At

-----------------------------------------------------------------------------
(* One byte *)

Bad(rx) == Oversize(rx) \/ (Complete(rx) /\ ~Parses(rx))

LEMMA ShortStays ==
  ASSUME NEW rx, rx = << >> \/ rx = <<Magic0>>
  PROVE  ~Oversize(rx) /\ ~Complete(rx)
<1>1. Len(rx) = 0 \/ Len(rx) = 1
  OBVIOUS
<1>2. HeaderSize \in Nat /\ HeaderSize > 3
  BY FramingAssumption
<1>3. Len(rx) # HeaderSize /\ ~(Len(rx) >= HeaderSize)
  BY <1>1, <1>2
<1>. QED  BY <1>3, Zenon DEF Oversize, Complete

LEMMA CollectsNoise ==
  ASSUME NEW byte, NEW other
  PROVE  /\ Collect(<< >>, byte, other) = IF byte = Magic0 THEN <<Magic0>> ELSE << >>
         /\ byte # Magic1 => Collect(<<Magic0>>, byte, other) = other
<1>1. Len(<< >>) = 0 /\ Len(<<Magic0>>) = 1
  OBVIOUS
<1>. QED  BY <1>1 DEF Collect

(* Inside a packet a reader collects its bytes up to the last one. *)
LEMMA PacketGrows ==
  ASSUME NEW in \in Inputs, NEW p \in in.packets, NEW n \in Nat,
         p.first <= n, n < p.last, NEW other
  PROVE  LET rx == Collect(SubSeq(in.bytes, p.first, n), in.bytes[n + 1], other)
         IN  /\ rx = SubSeq(in.bytes, p.first, n + 1)
             /\ ~Bad(rx) /\ ~Oversize(rx)
             /\ Complete(rx) <=> n + 1 = p.last
             /\ n + 1 = p.last => Parses(rx)
<1> DEFINE a == p.first  b == p.last  size == Len(in.bytes)
           part == SubSeq(in.bytes, a, n)
           more == SubSeq(in.bytes, a, n + 1)
           length == in.bytes[a + HeaderSize - 1]
<1>1. /\ in.bytes \in Seq(Nat) /\ size \in Nat /\ a \in Nat /\ b \in Nat
      /\ 0 < a /\ a <= b /\ b <= size
  BY Layout
<1>2. /\ in.bytes[a] = Magic0 /\ in.bytes[a + 1] = Magic1
      /\ length \in Nat /\ length <= MaxPayload
      /\ b - a + 1 = Overhead + length
      /\ HeaderSize \in Nat /\ HeaderSize > 3 /\ MaxPayload \in Nat
  BY PacketForm
<1>3. a <= n /\ n < b
  OBVIOUS
<1>4. Parses(SubSeq(in.bytes, a, b))
  BY FramingAssumption, Zenon
<1> HIDE DEF a, b, size
<1>5. /\ Len(part) = n - a + 1 /\ more = Append(part, in.bytes[n + 1])
      /\ Len(more) = n - a + 2
      /\ \A i \in 1 .. n - a + 2 : more[i] = in.bytes[a + i - 1]
  <2>1. n <= size /\ n < size /\ n + 1 <= size /\ a <= n + 1
    BY <1>1, <1>3
  <2>2. Len(part) = n - a + 1 /\ more = Append(part, in.bytes[n + 1])
    BY <1>1, <1>3, <2>1, Slices DEF size
  <2>3. /\ Len(more) = (n + 1) - a + 1
        /\ \A i \in 1 .. (n + 1) - a + 1 : more[i] = in.bytes[a + i - 1]
    BY <1>1, <1>3, <2>1, Slices DEF size
  <2>4. (n + 1) - a + 1 = n - a + 2
    BY <1>1
  <2>. QED  BY <2>2, <2>3, <2>4
<1>6. Collect(part, in.bytes[n + 1], other) = more
  <2>1. Len(part) # 0
    BY <1>1, <1>3, <1>5
  <2>2. Len(part) = 1 => in.bytes[n + 1] = Magic1
    <3>1. Len(part) = 1 => n + 1 = a + 1
      BY <1>1, <1>3, <1>5
    <3>. QED  BY <1>2, <3>1
  <2> HIDE DEF part, more
  <2>. QED  BY <1>5, <2>1, <2>2 DEF Collect
<1> HIDE DEF part, length
<1>7. Len(more) >= HeaderSize => LengthIn(more) = length
  <2>1. Len(more) >= HeaderSize => HeaderSize \in 1 .. n - a + 2
    BY <1>1, <1>2, <1>3, <1>5
  <2>. QED  BY <1>5, <2>1 DEF LengthIn, length
<1> HIDE DEF more
<1>8. ~Oversize(more)
  BY <1>1, <1>2, <1>3, <1>5, <1>7 DEF Oversize
<1>9. Complete(more) <=> n + 1 = b
  <2>1. Overhead = HeaderSize + 1
    BY DEF Overhead
  <2>2. b = a + HeaderSize + length
    BY <1>1, <1>2, <2>1
  <2>3. ASSUME Complete(more) PROVE n + 1 = b
    <3>1. n - a + 2 = Overhead + length
      BY <1>5, <1>7, <2>3, Zenon DEF Complete
    <3>. QED  BY <1>1, <1>2, <2>1, <2>2, <3>1
  <2>4. ASSUME n + 1 = b PROVE Complete(more)
    <3>1. n - a + 2 = Overhead + length /\ Overhead + length >= HeaderSize
      BY <1>1, <1>2, <2>1, <2>2, <2>4
    <3>2. Len(more) = Overhead + length /\ Len(more) >= HeaderSize
      BY <1>5, <3>1, Zenon
    <3>. QED  BY <1>7, <3>2, Zenon DEF Complete
  <2>. QED  BY <2>3, <2>4
<1>10. n + 1 = b => Parses(more)
  BY <1>4 DEF more
<1>11. ~Bad(more)
  BY <1>8, <1>9, <1>10, Zenon DEF Bad
<1>. QED  BY <1>6, <1>8, <1>9, <1>10, <1>11 DEF part, more, a, b

(* A reader that reads these packets, after n bytes: it has those that have
   ended, the beginning of the one that has not, and else at most a stray
   Magic0. *)
ReaderAt(bytes, kept, n, armed, rx, list) ==
  /\ list \in Seq(Seq(Nat))
  /\ Reads(bytes, list, EndedAt(n, kept))
  /\ \A p \in kept : p.first <= n /\ n < p.last => rx = SubSeq(bytes, p.first, n)
  /\ (\A p \in kept : ~(p.first <= n /\ n < p.last)) =>
       rx = IF armed THEN <<Magic0>> ELSE << >>

(* The next byte inside a packet that is read. *)
LEMMA InsidePacket ==
  ASSUME NEW in \in Inputs, NEW kept, kept \subseteq in.packets, NEW n \in Nat,
         NEW armed, NEW armed2, NEW rx, NEW list, NEW other,
         NEW p \in kept, p.first <= n, n < p.last, n + 1 = p.last => ~armed2,
         ReaderAt(in.bytes, kept, n, armed, rx, list)
  PROVE  LET rx2 == Collect(rx, in.bytes[n + 1], other)
         IN  /\ ReaderAt(in.bytes, kept, n + 1, armed2, Rest(rx2), Deliver(rx2, list))
             /\ ~Bad(rx2)
<1> DEFINE rx2 == Collect(rx, in.bytes[n + 1], other)
           more == SubSeq(in.bytes, p.first, n + 1)
<1>1. rx = SubSeq(in.bytes, p.first, n)
  BY Zenon DEF ReaderAt
<1>2. /\ rx2 = more
      /\ ~Bad(more) /\ ~Oversize(more)
      /\ Complete(more) <=> n + 1 = p.last
      /\ n + 1 = p.last => Parses(more)
  <2>1. p \in in.packets
    OBVIOUS
  <2>2. rx2 = Collect(SubSeq(in.bytes, p.first, n), in.bytes[n + 1], other)
    BY <1>1
  <2>3. LET r == Collect(SubSeq(in.bytes, p.first, n), in.bytes[n + 1], other)
        IN  /\ r = SubSeq(in.bytes, p.first, n + 1)
            /\ ~Bad(r) /\ ~Oversize(r)
            /\ Complete(r) <=> n + 1 = p.last
            /\ n + 1 = p.last => Parses(r)
    BY <2>1, PacketGrows, Zenon
  <2> HIDE DEF rx2
  <2>. QED  BY <2>2, <2>3
<1>3. \A q \in kept : /\ q.first \in Nat /\ q.last \in Nat /\ q.first <= q.last
                      /\ q = p \/ q.last < p.first \/ p.last < q.first
  <2> TAKE q \in kept
  <2>1. p \in in.packets \cup in.fragments /\ q \in in.packets \cup in.fragments
    OBVIOUS
  <2>. QED  BY <2>1, Layout, Zenon
<1>4. /\ list \in Seq(Seq(Nat)) /\ Reads(in.bytes, list, EndedAt(n, kept))
  BY Zenon DEF ReaderAt
<1> HIDE DEF more, rx2
<1>5. CASE n + 1 # p.last
  <2>1. Rest(rx2) = more /\ Deliver(rx2, list) = list
    BY <1>2, <1>5, Zenon DEF Rest, Deliver
  <2>2. EndedAt(n + 1, kept) = EndedAt(n, kept)
    BY <1>3, <1>5 DEF EndedAt
  <2>3. p.first <= n + 1 /\ n + 1 < p.last
    BY <1>3, <1>5
  <2>4. \A q \in kept : q.first <= n + 1 /\ n + 1 < q.last => q = p
    BY <1>3, <2>3
  <2>. QED  BY <1>2, <1>4, <2>1, <2>2, <2>3, <2>4, Zenon DEF ReaderAt, more, rx2
<1>6. CASE n + 1 = p.last
  <2>1. Rest(rx2) = << >> /\ Deliver(rx2, list) = Append(list, more)
    BY <1>2, <1>6, Zenon DEF Rest, Deliver
  <2>2. EndedAt(n + 1, kept) = EndedAt(n, kept) \cup {p}
    BY <1>3, <1>6 DEF EndedAt
  <2>3. IsFiniteSet(EndedAt(n, kept))
    BY FinitePackets, FS_Subset DEF EndedAt
  <2>4. /\ p \notin EndedAt(n, kept)
        /\ \A q \in EndedAt(n, kept) \cup {p} : q.first \in Nat
        /\ \A q \in EndedAt(n, kept) : q.first < p.first
    BY <1>3, <1>6 DEF EndedAt
  <2>5. more \in Seq(Nat) /\ more = SubSeq(in.bytes, p.first, p.last)
    BY <1>6, Layout, Slices DEF more
  <2>6. Reads(in.bytes, Append(list, more), EndedAt(n, kept) \cup {p})
    <3> DEFINE Items == Seq(Nat)
    <3>1. list \in Seq(Items) /\ SubSeq(in.bytes, p.first, p.last) \in Items
      BY <1>4, <2>5
    <3> HIDE DEF Items
    <3>. QED  BY <1>4, <2>3, <2>4, <2>5, <3>1, ReadsMore
  <2>7. Append(list, more) \in Seq(Seq(Nat))
    <3> DEFINE Items == Seq(Nat)
    <3>1. list \in Seq(Items) /\ more \in Items
      BY <1>4, <2>5
    <3> HIDE DEF Items
    <3>2. Append(list, more) \in Seq(Items)
      BY <3>1
    <3>. QED  BY <3>2 DEF Items
  <2>8. \A q \in kept : ~(q.first <= n + 1 /\ n + 1 < q.last)
    BY <1>3, <1>6
  <2>. QED  BY <1>2, <1>6, <2>1, <2>2, <2>6, <2>7, <2>8, Zenon DEF ReaderAt, rx2
<1>. QED  BY <1>5, <1>6

(* The next byte outside of the packets that are read: it begins one, or is
   noise. *)
LEMMA OutsidePackets ==
  ASSUME NEW in \in Inputs, NEW kept, NEW kept2, kept2 \subseteq in.packets,
         kept \subseteq kept2, NEW n \in Nat, n < Len(in.bytes),
         \A p \in kept2 \ kept : p.first = n + 1,
         \A p \in kept : ~(p.first <= n /\ n < p.last),
         NEW armed, NEW armed2, NEW rx, NEW list, NEW other,
         ReaderAt(in.bytes, kept, n, armed, rx, list),
         Collect(rx, in.bytes[n + 1], other) =
           IF armed2 \/ \E p \in kept2 : p.first = n + 1 THEN <<Magic0>> ELSE << >>
  PROVE  LET rx2 == Collect(rx, in.bytes[n + 1], other)
         IN  /\ ReaderAt(in.bytes, kept2, n + 1, armed2, Rest(rx2), Deliver(rx2, list))
             /\ ~Bad(rx2)
<1> DEFINE rx2 == Collect(rx, in.bytes[n + 1], other)
<1>1. rx2 = << >> \/ rx2 = <<Magic0>>
  OBVIOUS
<1>0. rx2 = IF armed2 \/ \E p \in kept2 : p.first = n + 1 THEN <<Magic0>> ELSE << >>
  OBVIOUS
<1> HIDE DEF rx2
<1>2. Rest(rx2) = rx2 /\ Deliver(rx2, list) = list /\ ~Bad(rx2)
  BY <1>1, ShortStays, Zenon DEF Rest, Deliver, Bad
<1>3. \A q \in kept2 : /\ q.first \in Nat /\ q.last \in Nat /\ 0 < q.first
                       /\ q.first < q.last /\ q.last <= Len(in.bytes)
  <2> TAKE q \in kept2
  <2>1. /\ q.first \in Nat /\ q.last \in Nat /\ q.first > 0
        /\ q.last <= Len(in.bytes)
    BY Layout
  <2>2. /\ q.last - q.first + 1 = Overhead + in.bytes[q.first + HeaderSize - 1]
        /\ in.bytes[q.first + HeaderSize - 1] \in Nat
        /\ HeaderSize \in Nat /\ HeaderSize > 3
    BY PacketForm
  <2>. QED  BY <2>1, <2>2 DEF Overhead
<1>4. EndedAt(n + 1, kept2) = EndedAt(n, kept)
  BY <1>3 DEF EndedAt
<1>5. ASSUME NEW q \in kept2, q.first <= n + 1, n + 1 < q.last
      PROVE  rx2 = SubSeq(in.bytes, q.first, n + 1)
  <2>1. q.first = n + 1
    BY <1>3, <1>5
  <2>2. in.bytes[n + 1] = Magic0
    BY <2>1, PacketForm
  <2>3. SubSeq(in.bytes, n + 1, n + 1) = <<in.bytes[n + 1]>>
    BY <1>3, <2>1, Layout, Slices
  <2>. QED  BY <1>0, <2>1, <2>2, <2>3
<1>6. ASSUME \A q \in kept2 : ~(q.first <= n + 1 /\ n + 1 < q.last)
      PROVE  rx2 = IF armed2 THEN <<Magic0>> ELSE << >>
  <2>1. \A q \in kept2 : q.first # n + 1
    BY <1>3, <1>6
  <2>. QED  BY <1>0, <2>1
<1>. QED  BY <1>2, <1>4, <1>5, <1>6, Zenon DEF ReaderAt, rx2

-----------------------------------------------------------------------------
(* The TSR: a Magic0 is never forgotten *)

StrayAt(in, n) == n > 0 /\ in.bytes[n] = Magic0 /\ ~Inside(n, in.packets)

(* Between packets no packet is under way; within, none begins. *)
LEMMA Between ==
  ASSUME NEW in \in Inputs, NEW kept, kept \subseteq in.packets, NEW n \in Nat,
         \A p \in kept : ~(p.first <= n /\ n < p.last),
         \A p \in kept : p.first # n + 1
  PROVE  ~Inside(n + 1, kept)
<1> SUFFICES ASSUME NEW p \in kept, p.first <= n + 1, n + 1 <= p.last
             PROVE  FALSE
  BY DEF Inside
<1>1. p.first \in Nat /\ p.last \in Nat
  BY Layout
<1>. QED  BY <1>1

LEMMA TsrByte ==
  ASSUME NEW in \in Inputs, NEW n \in Nat, n < Len(in.bytes),
         \A m \in DOMAIN in.bytes : MagicAt(in.bytes, m) => Inside(m, in.packets),
         NEW rx, NEW list,
         ReaderAt(in.bytes, in.packets, n, StrayAt(in, n), rx, list)
  PROVE  LET byte == in.bytes[n + 1]
             rx2 == Collect(rx, byte, IF byte = Magic0 THEN <<byte>> ELSE << >>)
         IN  ReaderAt(in.bytes, in.packets, n + 1, StrayAt(in, n + 1),
                      Rest(rx2), Deliver(rx2, list))
<1> DEFINE byte == in.bytes[n + 1]
           other == IF byte = Magic0 THEN <<byte>> ELSE << >>
<1>0. in.bytes \in Seq(Nat) /\ Len(in.bytes) \in Nat
  BY Layout
<1>1. CASE \E p \in in.packets : p.first <= n /\ n < p.last
  <2>1. PICK p \in in.packets : p.first <= n /\ n < p.last
    BY <1>1
  <2>2. n + 1 = p.last => ~StrayAt(in, n + 1)
    <3>1. p.first \in Nat /\ p.last \in Nat /\ p.first <= p.last
      BY Layout
    <3>2. n + 1 = p.last => Inside(n + 1, in.packets)
      BY <3>1 DEF Inside
    <3>. QED  BY <3>2, Zenon DEF StrayAt
  <2> HIDE DEF other
  <2>3. LET rx2 == Collect(rx, in.bytes[n + 1], other)
        IN  /\ ReaderAt(in.bytes, in.packets, n + 1, StrayAt(in, n + 1),
                        Rest(rx2), Deliver(rx2, list))
            /\ ~Bad(rx2)
    BY <2>1, <2>2, InsidePacket, Zenon
  <2>. QED  BY <2>3, Zenon DEF other
<1>2. CASE \A p \in in.packets : ~(p.first <= n /\ n < p.last)
  <2>1. rx = IF StrayAt(in, n) THEN <<Magic0>> ELSE << >>
    BY <1>2, Zenon DEF ReaderAt
  <2>2. ASSUME StrayAt(in, n), byte = Magic1  PROVE FALSE
    <3>1. n \in DOMAIN in.bytes /\ MagicAt(in.bytes, n)
      BY <1>0, <2>2 DEF StrayAt, MagicAt
    <3>. QED  BY <2>2, <3>1, Zenon DEF StrayAt
  <2>3. Collect(rx, byte, other) = IF byte = Magic0 THEN <<Magic0>> ELSE << >>
    <3>1. CASE ~StrayAt(in, n)
      BY <2>1, <3>1, CollectsNoise
    <3>2. CASE StrayAt(in, n)
      <4>1. Collect(rx, byte, other) = other
        BY <2>1, <2>2, <3>2, CollectsNoise
      <4>. QED  BY <4>1
    <3>. QED  BY <3>1, <3>2
  <2>4. byte = Magic0 <=>
          StrayAt(in, n + 1) \/ \E p \in in.packets : p.first = n + 1
    <3>1. ASSUME NEW p \in in.packets, p.first = n + 1  PROVE byte = Magic0
      BY <3>1, PacketForm
    <3>2. (\A p \in in.packets : p.first # n + 1) => ~Inside(n + 1, in.packets)
      BY <1>2, Between
    <3>3. n + 1 > 0
      OBVIOUS
    <3>. QED  BY <3>1, <3>2, <3>3, Zenon DEF StrayAt
  <2>5. Collect(rx, in.bytes[n + 1], other) =
          IF StrayAt(in, n + 1) \/ \E p \in in.packets : p.first = n + 1
          THEN <<Magic0>> ELSE << >>
    BY <2>3, <2>4
  <2> HIDE DEF other
  <2>6. LET rx2 == Collect(rx, in.bytes[n + 1], other)
        IN  /\ ReaderAt(in.bytes, in.packets, n + 1, StrayAt(in, n + 1),
                        Rest(rx2), Deliver(rx2, list))
            /\ ~Bad(rx2)
    <3>1. \A p \in in.packets \ in.packets : p.first = n + 1
      OBVIOUS
    <3>2. in.packets \subseteq in.packets
      OBVIOUS
    <3>. QED  BY <1>2, <2>5, <3>1, <3>2, OutsidePackets, Zenon
  <2>. QED  BY <2>6, Zenon DEF other
<1>. QED  BY <1>1, <1>2

-----------------------------------------------------------------------------
(* Client and bridge: a Magic0 in front of another byte is forgotten with it *)

(* Packets that lie behind make no difference. *)
LEMMA ArmedSame ==
  ASSUME NEW bytes, NEW n \in Nat, NEW S, NEW T,
         \A i \in 1 .. n : Inside(i, S) <=> Inside(i, T)
  PROVE  Armed(bytes, n, S) <=> Armed(bytes, n, T)
<1>1. StrayRun(bytes, n, S) = StrayRun(bytes, n, T)
  <2>1. \A m \in 1 .. n : \A i \in m .. n : i \in 1 .. n
    OBVIOUS
  <2>2. ASSUME NEW m \in 1 .. n
        PROVE  (\A i \in m .. n : bytes[i] = Magic0 /\ ~Inside(i, S))
                 <=> (\A i \in m .. n : bytes[i] = Magic0 /\ ~Inside(i, T))
    BY <2>1, Zenon
  <2>3. \A m \in 1 .. n : m \in StrayRun(bytes, n, S) <=> m \in StrayRun(bytes, n, T)
    BY <2>2, Zenon DEF StrayRun
  <2>4. /\ \A m \in StrayRun(bytes, n, S) : m \in 1 .. n
        /\ \A m \in StrayRun(bytes, n, T) : m \in 1 .. n
    BY Zenon DEF StrayRun
  <2>. QED  BY <2>3, <2>4, Zenon
<1>. QED  BY <1>1, Zenon DEF Armed

(* A Magic0 more, and the reader is armed no longer, or is now. *)
LEMMA ArmedNext ==
  ASSUME NEW bytes, NEW n \in Nat, NEW S, NEW T,
         \A i \in 1 .. n : Inside(i, S) <=> Inside(i, T)
  PROVE  /\ bytes[n + 1] = Magic0 /\ ~Inside(n + 1, T) =>
              (Armed(bytes, n + 1, T) <=> ~Armed(bytes, n, S))
         /\ ~(bytes[n + 1] = Magic0 /\ ~Inside(n + 1, T)) => ~Armed(bytes, n + 1, T)
         /\ Armed(bytes, n, S) => n > 0 /\ bytes[n] = Magic0 /\ ~Inside(n, S)
<1> DEFINE old == StrayRun(bytes, n, T)
           new == StrayRun(bytes, n + 1, T)
<1>1. Armed(bytes, n, S) <=> Cardinality(old) % 2 = 1
  BY ArmedSame, Zenon DEF Armed
<1>2. Armed(bytes, n + 1, T) <=> Cardinality(new) % 2 = 1
  BY Zenon DEF Armed
<1>3. IsFiniteSet(old) /\ Cardinality(old) \in Nat /\ n + 1 \notin old
  <2>1. old \subseteq 1 .. n
    BY Zenon DEF StrayRun
  <2>3. IsFiniteSet(1 .. n)
    BY FS_Interval
  <2>2. n + 1 \notin 1 .. n
    OBVIOUS
  <2> HIDE DEF old
  <2>. QED  BY <2>1, <2>2, <2>3, FS_Subset, FS_CardinalityType
<1>4. ASSUME bytes[n + 1] = Magic0, ~Inside(n + 1, T)
      PROVE  Armed(bytes, n + 1, T) <=> ~Armed(bytes, n, S)
  <2>1. new = old \cup {n + 1}
    <3>1. \A m \in 1 .. n : m .. n + 1 = (m .. n) \cup {n + 1}
      OBVIOUS
    <3>2. 1 .. n + 1 = (1 .. n) \cup {n + 1} /\ (n + 1) .. (n + 1) = {n + 1}
      OBVIOUS
    <3> DEFINE Stray(i) == bytes[i] = Magic0 /\ ~Inside(i, T)
    <3>3. /\ \A m : m \in new <=> m \in 1 .. n + 1 /\ \A i \in m .. n + 1 : Stray(i)
          /\ \A m : m \in old <=> m \in 1 .. n /\ \A i \in m .. n : Stray(i)
      BY Zenon DEF StrayRun
    <3>4. Stray(n + 1)
      BY <1>4
    <3> HIDE DEF old, new, Stray
    <3>5. ASSUME NEW m  PROVE m \in new <=> m \in old \cup {n + 1}
      <4>1. CASE m \in 1 .. n
        <5>1. \A i : i \in m .. n + 1 <=> i \in m .. n \/ i = n + 1
          BY <4>1
        <5>2. m \in 1 .. n + 1 /\ m # n + 1
          BY <4>1
        <5>. QED  BY <3>3, <3>4, <4>1, <5>1, <5>2, Zenon
      <4>2. CASE m = n + 1
        <5>1. m \in 1 .. n + 1 /\ \A i \in m .. n + 1 : i = n + 1
          BY <4>2
        <5>. QED  BY <3>3, <3>4, <4>2, <5>1, Zenon
      <4>3. CASE m \notin 1 .. n + 1
        BY <3>2, <3>3, <4>3, Zenon
      <4>. QED  BY <3>2, <4>1, <4>2, <4>3, Zenon
    <3>. QED  BY <3>5, Zenon
  <2> HIDE DEF old, new
  <2>2. Cardinality(new) = Cardinality(old) + 1
    BY <1>3, <2>1, FS_AddElement
  <2> DEFINE c == Cardinality(old)
  <2>3. c \in Nat
    BY <1>3
  <2> HIDE DEF c
  <2>4. (c + 1) % 2 = 1 <=> ~(c % 2 = 1)
    BY <2>3
  <2>. QED  BY <1>1, <1>2, <2>2, <2>4 DEF c
<1>5. ASSUME ~(bytes[n + 1] = Magic0 /\ ~Inside(n + 1, T))
      PROVE  ~Armed(bytes, n + 1, T)
  <2>1. \A m \in 1 .. n + 1 : n + 1 \in m .. n + 1
    OBVIOUS
  <2>2. new = {}
    BY <1>5, <2>1, Zenon DEF StrayRun
  <2>3. Cardinality(new) = 0
    BY <2>2, FS_EmptySet
  <2> HIDE DEF new
  <2>. QED  BY <1>2, <2>3
<1>6. ASSUME Armed(bytes, n, S)
      PROVE  n > 0 /\ bytes[n] = Magic0 /\ ~Inside(n, S)
  <2> DEFINE run == StrayRun(bytes, n, S)
  <2>1. run # {}
    <3>1. run = {} => Cardinality(run) = 0
      BY FS_EmptySet
    <3>2. Cardinality(run) % 2 = 1
      BY <1>6, Zenon DEF Armed
    <3> HIDE DEF run
    <3>. QED  BY <3>1, <3>2
  <2>2. PICK m \in 1 .. n : \A i \in m .. n : bytes[i] = Magic0 /\ ~Inside(i, S)
    BY <2>1 DEF StrayRun
  <2>3. n \in m .. n /\ n > 0
    OBVIOUS
  <2>. QED  BY <2>2, <2>3
<1>. QED  BY <1>4, <1>5, <1>6

(* The reader after n bytes: the stray Magic0 that are forgotten in pairs
   say which of the packets begun it misses. *)
ClientAt(in, n, rx, list) ==
  LET begun == BegunAt(n, in.packets)
  IN  \E missed \in SUBSET begun :
        /\ AreMissed(in.bytes, missed, begun)
        /\ ReaderAt(in.bytes, begun \ missed, n, Armed(in.bytes, n, begun \ missed), rx, list)

(* A packet that begins is missed or not; that of the others is settled. *)
LEMMA MissedNext ==
  ASSUME NEW in \in Inputs, NEW n \in Nat, NEW missed, NEW missed2,
         AreMissed(in.bytes, missed, BegunAt(n, in.packets)),
         missed2 \subseteq BegunAt(n + 1, in.packets),
         \A p \in BegunAt(n, in.packets) : p \in missed2 <=> p \in missed,
         \A p \in in.packets : p.first = n + 1 =>
           (p \in missed2 <=> Armed(in.bytes, n, BegunAt(n, in.packets) \ missed))
  PROVE  /\ AreMissed(in.bytes, missed2, BegunAt(n + 1, in.packets))
         /\ \A i \in 1 .. n : Inside(i, BegunAt(n, in.packets) \ missed)
                                <=> Inside(i, BegunAt(n + 1, in.packets) \ missed2)
<1> DEFINE begun == BegunAt(n, in.packets)
           begun2 == BegunAt(n + 1, in.packets)
           kept == begun \ missed
           kept2 == begun2 \ missed2
<1>1. \A p \in in.packets : p.first \in Nat /\ p.first > 0 /\ p.last \in Nat
  BY Layout
<1>2. /\ \A p : p \in begun <=> p \in in.packets /\ p.first <= n
      /\ \A p : p \in begun2 <=> p \in in.packets /\ p.first <= n + 1
  BY Zenon DEF BegunAt
<1>3. /\ missed2 \subseteq begun2
      /\ \A p \in begun : p \in missed2 <=> p \in missed
      /\ \A p \in begun : p \in missed <=> Armed(in.bytes, p.first - 1, kept)
      /\ \A p \in in.packets : p.first = n + 1 =>
           (p \in missed2 <=> Armed(in.bytes, n, kept))
  BY Zenon DEF AreMissed
<1> HIDE DEF begun, begun2
<1>4. \A i \in 1 .. n : Inside(i, kept) <=> Inside(i, kept2)
  <2> SUFFICES ASSUME NEW i \in 1 .. n
               PROVE  Inside(i, kept) <=> Inside(i, kept2)
    OBVIOUS
  <2>1. \A p : p \in kept /\ p.first <= i <=> p \in kept2 /\ p.first <= i
    BY <1>1, <1>2, <1>3
  <2>. QED  BY <2>1, Zenon DEF Inside
<1> HIDE DEF kept, kept2
<1>5. ASSUME NEW q \in begun2
      PROVE  q \in missed2 <=> Armed(in.bytes, q.first - 1, kept2)
  <2>1. /\ q.first - 1 \in Nat
        /\ \A i \in 1 .. q.first - 1 : i \in 1 .. n
        /\ q \in begun \/ (q \in in.packets /\ q.first = n + 1)
    BY <1>1, <1>2
  <2> DEFINE m == q.first - 1
  <2>2. m \in Nat /\ \A i \in 1 .. m : Inside(i, kept) <=> Inside(i, kept2)
    BY <1>4, <2>1
  <2> HIDE DEF m
  <2>3. Armed(in.bytes, m, kept) <=> Armed(in.bytes, m, kept2)
    BY <2>2, ArmedSame, Zenon
  <2>4. q \in missed2 <=> Armed(in.bytes, q.first - 1, kept)
    <3>1. CASE q \in begun
      BY <1>3, <3>1, Zenon
    <3>2. CASE q \in in.packets /\ q.first = n + 1
      <4>1. q.first - 1 = n
        BY <3>2
      <4>. QED  BY <1>3, <3>2, <4>1, Zenon
    <3>. QED  BY <2>1, <3>1, <3>2, Zenon
  <2>. QED  BY <2>3, <2>4, Zenon DEF m
<1>. QED  BY <1>3, <1>4, <1>5, Zenon DEF AreMissed, kept, kept2, begun, begun2

(* Behind a stray Magic0 that counts there is no Magic1: the packet it would
   begin is missed, for the Magic0 before it, and the two are forgotten. *)
LEMMA NoMagicBehind ==
  ASSUME NEW in \in Inputs, NEW n \in Nat, NEW missed,
         \A m \in DOMAIN in.bytes :
           MagicAt(in.bytes, m) => \E p \in in.packets : p.first = m,
         AreMissed(in.bytes, missed, BegunAt(n, in.packets)),
         Armed(in.bytes, n, BegunAt(n, in.packets) \ missed),
         n < Len(in.bytes)
  PROVE  in.bytes[n + 1] # Magic1
<1> SUFFICES ASSUME in.bytes[n + 1] = Magic1  PROVE FALSE
  OBVIOUS
<1> DEFINE kept == BegunAt(n, in.packets) \ missed
           m == n - 1
<1>1. n > 0 /\ in.bytes[n] = Magic0 /\ ~Inside(n, kept)
  <2> HIDE DEF kept
  <2>1. Armed(in.bytes, n, kept) /\ \A i \in 1 .. n : Inside(i, kept) <=> Inside(i, kept)
    BY Zenon DEF kept
  <2>. QED  BY <2>1, ArmedNext, Zenon
<1>2. n \in DOMAIN in.bytes /\ MagicAt(in.bytes, n)
  BY <1>1, Layout DEF MagicAt
<1>3. PICK p \in in.packets : p.first = n
  BY <1>2
<1>4. p.first <= n /\ n <= p.last
  BY <1>3, Layout
<1>5. p \in BegunAt(n, in.packets) /\ p \notin kept
  BY <1>1, <1>4 DEF BegunAt, Inside
<1>6. p \in missed
  BY <1>5
<1> HIDE DEF kept
<1>7. Armed(in.bytes, m, kept)
  BY <1>3, <1>5, <1>6, Zenon DEF AreMissed, kept, m
<1>8. m \in Nat /\ m + 1 = n
  BY <1>1
<1> HIDE DEF m
<1>9. /\ \A i \in 1 .. m : Inside(i, kept) <=> Inside(i, kept)
      /\ in.bytes[m + 1] = Magic0 /\ ~Inside(m + 1, kept)
  BY <1>1, <1>8
<1>10. Armed(in.bytes, m + 1, kept) <=> ~Armed(in.bytes, m, kept)
  BY <1>8, <1>9, ArmedNext, Zenon
<1>. QED  BY <1>7, <1>8, <1>10 DEF kept

LEMMA ClientByteAt ==
  ASSUME NEW in \in Inputs, NEW n \in Nat, n < Len(in.bytes),
         \A m \in DOMAIN in.bytes :
           MagicAt(in.bytes, m) => \E p \in in.packets : p.first = m,
         NEW rx, NEW list, ClientAt(in, n, rx, list)
  PROVE  LET rx2 == Collect(rx, in.bytes[n + 1], << >>)
         IN  /\ ClientAt(in, n + 1, Rest(rx2), Deliver(rx2, list))
             /\ ~Bad(rx2)
<1> DEFINE begun == BegunAt(n, in.packets)
           begun2 == BegunAt(n + 1, in.packets)
           rx2 == Collect(rx, in.bytes[n + 1], << >>)
<1>1. PICK missed \in SUBSET begun :
        /\ AreMissed(in.bytes, missed, begun)
        /\ ReaderAt(in.bytes, begun \ missed, n, Armed(in.bytes, n, begun \ missed), rx, list)
  BY Zenon DEF ClientAt
<1> DEFINE kept == begun \ missed
           armed == Armed(in.bytes, n, kept)
           missed2 == missed \cup {p \in in.packets : p.first = n + 1 /\ armed}
           kept2 == begun2 \ missed2
           armed2 == Armed(in.bytes, n + 1, kept2)
<1>2. /\ \A p \in in.packets :
           /\ p.first \in Nat /\ p.last \in Nat /\ p.first > 0 /\ p.first <= p.last
           /\ \A q \in in.packets : q = p \/ q.last < p.first \/ p.last < q.first
      /\ in.bytes \in Seq(Nat) /\ Len(in.bytes) \in Nat
  BY Layout
<1>3. /\ \A p : p \in begun <=> p \in in.packets /\ p.first <= n
      /\ \A p : p \in begun2 <=> p \in in.packets /\ p.first <= n + 1
  BY Zenon DEF BegunAt
<1> HIDE DEF begun, begun2, armed
<1>4. /\ missed2 \subseteq begun2
      /\ \A p \in begun : p \in missed2 <=> p \in missed
      /\ \A p \in in.packets : p.first = n + 1 => (p \in missed2 <=> armed)
      /\ kept2 \subseteq in.packets /\ kept \subseteq kept2 /\ kept \subseteq in.packets
      /\ \A p \in kept2 \ kept : p.first = n + 1 /\ ~armed
      /\ \A p \in kept : p.first <= n
      /\ \A p \in in.packets : p.first = n + 1 /\ ~armed => p \in kept2
  BY <1>2, <1>3
<1> HIDE DEF missed2, kept2, kept
<1>5. /\ AreMissed(in.bytes, missed2, begun2)
      /\ \A i \in 1 .. n : Inside(i, kept) <=> Inside(i, kept2)
  BY <1>1, <1>4, MissedNext, Zenon DEF begun, begun2, kept, kept2, armed
<1>6. /\ in.bytes[n + 1] = Magic0 /\ ~Inside(n + 1, kept2) => (armed2 <=> ~armed)
      /\ ~(in.bytes[n + 1] = Magic0 /\ ~Inside(n + 1, kept2)) => ~armed2
  BY <1>5, ArmedNext, Zenon DEF armed
<1> HIDE DEF armed2
<1>7. ReaderAt(in.bytes, kept, n, armed, rx, list)
  BY <1>1, Zenon DEF kept, armed
<1>8. ASSUME ReaderAt(in.bytes, kept2, n + 1, armed2, Rest(rx2), Deliver(rx2, list))
      PROVE  ClientAt(in, n + 1, Rest(rx2), Deliver(rx2, list))
  BY <1>4, <1>5, <1>8, Zenon DEF ClientAt, kept2, armed2, begun2
<1>9. /\ ReaderAt(in.bytes, kept2, n + 1, armed2, Rest(rx2), Deliver(rx2, list))
      /\ ~Bad(rx2)
  <2>1. CASE \E p \in kept : p.first <= n /\ n < p.last
    <3>1. PICK p \in kept : p.first <= n /\ n < p.last
      BY <2>1
    <3>2. \A q \in in.packets : q.first # n + 1
      BY <1>2, <1>4, <3>1
    <3>3. kept2 = kept
      BY <1>4, <3>2
    <3>4. n + 1 = p.last => ~armed2
      <4>1. n + 1 = p.last => Inside(n + 1, kept2)
        BY <1>2, <1>4, <3>1, <3>3 DEF Inside
      <4>. QED  BY <1>6, <4>1, Zenon
    <3> DEFINE other == << >>
    <3> HIDE DEF other
    <3>5. LET r == Collect(rx, in.bytes[n + 1], other)
          IN  /\ ReaderAt(in.bytes, kept, n + 1, armed2, Rest(r), Deliver(r, list))
              /\ ~Bad(r)
      BY <1>4, <1>7, <3>1, <3>4, InsidePacket, Zenon
    <3>. QED  BY <3>3, <3>5, Zenon DEF other
  <2>2. CASE \A p \in kept : ~(p.first <= n /\ n < p.last)
    <3>1. rx = IF armed THEN <<Magic0>> ELSE << >>
      BY <1>7, <2>2, Zenon DEF ReaderAt
    <3>2. armed => in.bytes[n + 1] # Magic1
      BY <1>1, NoMagicBehind, Zenon DEF armed, kept, begun
    <3>3. rx2 = IF in.bytes[n + 1] = Magic0 /\ ~armed THEN <<Magic0>> ELSE << >>
      <4>1. CASE armed
        BY <3>1, <3>2, <4>1, CollectsNoise
      <4>2. CASE ~armed
        BY <3>1, <4>2, CollectsNoise
      <4>. QED  BY <4>1, <4>2
    <3>4. in.bytes[n + 1] = Magic0 /\ ~armed
            <=> armed2 \/ \E p \in kept2 : p.first = n + 1
      <4>1. CASE \E p \in in.packets : p.first = n + 1
        <5>1. in.bytes[n + 1] = Magic0
          BY <4>1, PacketForm
        <5>2. CASE armed
          <6>1. \A p \in kept2 : p.first # n + 1
            BY <1>4, <5>2
          <6>2. kept2 = kept
            BY <1>4, <5>2
          <6>3. ~Inside(n + 1, kept)
            BY <1>4, <2>2, <6>1, <6>2, Between
          <6>. QED  BY <1>6, <5>1, <5>2, <6>1, <6>2, <6>3, Zenon
        <5>3. CASE ~armed
          BY <1>4, <4>1, <5>1, <5>3, Zenon
        <5>. QED  BY <5>2, <5>3
      <4>2. CASE \A p \in in.packets : p.first # n + 1
        <5>1. kept2 = kept /\ \A p \in kept2 : p.first # n + 1
          BY <1>4, <4>2
        <5>2. ~Inside(n + 1, kept)
          BY <1>4, <2>2, <5>1, Between
        <5>. QED  BY <1>6, <5>1, <5>2, Zenon
      <4>. QED  BY <4>1, <4>2
    <3> DEFINE other == << >>
    <3>5. Collect(rx, in.bytes[n + 1], other) =
            IF armed2 \/ \E p \in kept2 : p.first = n + 1 THEN <<Magic0>> ELSE << >>
      BY <3>3, <3>4
    <3> HIDE DEF other
    <3>6. \A p \in kept2 \ kept : p.first = n + 1
      BY <1>4
    <3>7. LET r == Collect(rx, in.bytes[n + 1], other)
          IN  /\ ReaderAt(in.bytes, kept2, n + 1, armed2, Rest(r), Deliver(r, list))
              /\ ~Bad(r)
      BY <1>4, <1>7, <2>2, <3>5, <3>6, OutsidePackets, Zenon
    <3>. QED  BY <3>7, Zenon DEF other
  <2>. QED  BY <2>1, <2>2
<1>. QED  BY <1>8, <1>9, Zenon

-----------------------------------------------------------------------------
(* A packet cut off in front of the bridge *)

Before(in, f) == {p \in in.packets : p.last < f.first}

SpoilsIn(in, f) ==
  /\ \A n \in 1 .. f.first - 1 : Inside(n, in.packets)
  /\ \A n \in DOMAIN in.bytes : ~Parses(SubSeq(in.bytes, f.first, n))

(* The bridge reads the packets in front of the piece, then collects from
   its first byte on for as long as the connection lasts. *)
HostAt(in, f, n, up, rx, list) ==
  IF n < f.first
  THEN up /\ ReaderAt(in.bytes, Before(in, f), n, FALSE, rx, list)
  ELSE /\ Reads(in.bytes, list, Before(in, f))
       /\ up => rx = SubSeq(in.bytes, f.first, n)

LEMMA HostByteAt ==
  ASSUME NEW in \in Inputs, NEW f \in in.fragments, f.first < f.last, SpoilsIn(in, f),
         NEW n \in Nat, n < Len(in.bytes), NEW rx, NEW list,
         HostAt(in, f, n, TRUE, rx, list)
  PROVE  LET rx2 == Collect(rx, in.bytes[n + 1], << >>)
         IN  HostAt(in, f, n + 1, ~Bad(rx2), Rest(rx2), Deliver(rx2, list))
<1> DEFINE a == f.first
           before == Before(in, f)
           other == << >>
           rx2 == Collect(rx, in.bytes[n + 1], other)
           more == SubSeq(in.bytes, a, n + 1)
<1>1. /\ a \in Nat /\ 0 < a /\ a < f.last /\ f.last \in Nat /\ f.last <= Len(in.bytes)
      /\ in.bytes \in Seq(Nat) /\ Len(in.bytes) \in Nat
      /\ n + 1 \in DOMAIN in.bytes
  BY Layout
<1>2. in.bytes[a] = Magic0 /\ in.bytes[a + 1] = Magic1
  BY FramingAssumption, Zenon
<1>3. \A p \in in.packets :
        /\ p.first \in Nat /\ p.last \in Nat /\ 0 < p.first /\ p.first <= p.last
        /\ p.last < a \/ f.last < p.first \/ p = f
        /\ \A q \in in.packets : q = p \/ q.last < p.first \/ p.last < q.first
  BY Layout
<1>4. /\ before \subseteq in.packets
      /\ \A p \in in.packets : p \in before <=> p.last < a
  BY DEF Before
<1>5. \A p \in in.packets : p # f
  <2> SUFFICES ASSUME NEW p \in in.packets, p = f  PROVE FALSE
    OBVIOUS
  <2>1. Parses(SubSeq(in.bytes, p.first, p.last))
    BY FramingAssumption, Zenon
  <2>2. p.last \in DOMAIN in.bytes
    BY <1>1
  <2>. QED  BY <2>1, <2>2, Zenon DEF SpoilsIn
<1> HIDE DEF a, before, rx2
<1>6. CASE n < a
  <2>1. ReaderAt(in.bytes, before, n, FALSE, rx, list)
    BY <1>6, Zenon DEF HostAt, a, before
  <2>2. CASE \E p \in before : p.first <= n /\ n < p.last
    <3>1. PICK p \in before : p.first <= n /\ n < p.last
      BY <2>2
    <3>2. n + 1 < a
      BY <1>1, <1>3, <1>4, <3>1
    <3> HIDE DEF other
    <3>3. LET r == Collect(rx, in.bytes[n + 1], other)
          IN  /\ ReaderAt(in.bytes, before, n + 1, FALSE, Rest(r), Deliver(r, list))
              /\ ~Bad(r)
      BY <1>4, <2>1, <3>1, InsidePacket, Zenon
    <3>. QED  BY <3>2, <3>3, Zenon DEF HostAt, a, before, rx2, other
  <2>3. CASE \A p \in before : ~(p.first <= n /\ n < p.last)
    <3>1. rx = << >>
      BY <2>1, <2>3, Zenon DEF ReaderAt
    <3>2. CASE n + 1 < a
      <4>1. n + 1 \in 1 .. a - 1
        BY <1>1, <3>2
      <4>2. PICK p \in in.packets : p.first <= n + 1 /\ n + 1 <= p.last
        BY <4>1, Zenon DEF SpoilsIn, Inside, a
      <4>3. p \in before /\ p.first = n + 1
        BY <1>1, <1>3, <1>4, <1>5, <2>3, <3>2, <4>2
      <4>4. in.bytes[n + 1] = Magic0
        BY <4>3, PacketForm
      <4>5. Collect(rx, in.bytes[n + 1], other) =
              IF FALSE \/ \E q \in before : q.first = n + 1 THEN <<Magic0>> ELSE << >>
        BY <3>1, <4>3, <4>4, CollectsNoise
      <4> HIDE DEF other
      <4>6. \A q \in before \ before : q.first = n + 1
        OBVIOUS
      <4>7. before \subseteq before
        OBVIOUS
      <4>8. LET r == Collect(rx, in.bytes[n + 1], other)
            IN  /\ ReaderAt(in.bytes, before, n + 1, FALSE, Rest(r), Deliver(r, list))
                /\ ~Bad(r)
        BY <1>4, <2>1, <2>3, <4>5, <4>6, <4>7, OutsidePackets, Zenon
      <4>. QED  BY <3>2, <4>8, Zenon DEF HostAt, a, before, rx2, other
    <3>3. CASE ~(n + 1 < a)
      <4>1. n + 1 = a
        BY <1>1, <1>6, <3>3
      <4>2. rx2 = <<Magic0>>
        BY <1>2, <3>1, <4>1, CollectsNoise DEF rx2
      <4>3. more = <<Magic0>>
        <5>1. a <= Len(in.bytes)
          BY <1>1
        <5>2. SubSeq(in.bytes, a, a) = <<in.bytes[a]>>
          BY <1>1, <5>1, Slices
        <5>. QED  BY <1>2, <4>1, <5>2
      <4>4. Rest(rx2) = more /\ Deliver(rx2, list) = list
        BY <4>2, <4>3, ShortStays, Zenon DEF Rest, Deliver
      <4>5. EndedAt(n, before) = before
        BY <1>1, <1>3, <1>4, <4>1 DEF EndedAt
      <4>6. Reads(in.bytes, list, before)
        BY <2>1, <4>5, Zenon DEF ReaderAt
      <4>. QED  BY <3>3, <4>4, <4>6, Zenon DEF HostAt, a, before, rx2
    <3>. QED  BY <3>2, <3>3
  <2>. QED  BY <2>2, <2>3
<1>7. CASE ~(n < a)
  <2>1. Reads(in.bytes, list, before) /\ rx = SubSeq(in.bytes, a, n)
    BY <1>7, Zenon DEF HostAt, a, before
  <2>2. /\ Len(rx) = n - a + 1
        /\ more = Append(rx, in.bytes[n + 1])
    <3>1. a <= n /\ n <= Len(in.bytes)
      BY <1>1, <1>7
    <3>. QED  BY <1>1, <2>1, <3>1, Slices
  <2>3. Len(rx) # 0 /\ (Len(rx) = 1 => in.bytes[n + 1] = Magic1)
    <3>1. Len(rx) # 0 /\ (Len(rx) = 1 => n + 1 = a + 1)
      BY <1>1, <1>7, <2>2
    <3>. QED  BY <1>2, <3>1, Zenon
  <2> HIDE DEF other, more
  <2>4. rx2 = more
    BY <2>2, <2>3 DEF Collect, rx2
  <2>5. ~Parses(more)
    BY <1>1, Zenon DEF SpoilsIn, more, a
  <2>6. Deliver(rx2, list) = list
    BY <2>4, <2>5, Zenon DEF Deliver
  <2>7. ~Bad(rx2) => Rest(rx2) = more
    BY <2>4, <2>5, Zenon DEF Bad, Rest
  <2>8. ~(n + 1 < a)
    BY <1>1, <1>7
  <2>. QED  BY <2>1, <2>6, <2>7, <2>8, Zenon DEF HostAt, a, before, more, rx2, other
<1>. QED  BY <1>6, <1>7

-----------------------------------------------------------------------------
(* The invariant of the readers *)

InputInv == input \in Inputs /\ stream = input.bytes

MagicInside == \A n \in DOMAIN stream : MagicAt(stream, n) => Inside(n, input.packets)

TsrInv ==
  MagicInside =>
    ReaderAt(stream, input.packets, accepted, StrayAt(input, accepted), rx_packet, handled)

ClientInv ==
  Plain =>
    /\ ClientAt(input, arrived, client_rx, client_read)
    /\ host_rx = client_rx /\ host_read = client_read /\ host_up = TRUE

FragmentInv ==
  \A f \in input.fragments :
    f.first < f.last /\ Spoils(f) => HostAt(input, f, arrived, host_up, host_rx, host_read)

FramingInv == InputInv /\ RingInv /\ TsrInv /\ ClientInv /\ FragmentInv

LEMMA ReaderStarts ==
  ASSUME NEW in \in Inputs, NEW kept, kept \subseteq in.packets
  PROVE  ReaderAt(in.bytes, kept, 0, FALSE, << >>, << >>)
<1>1. \A p \in kept : ~(p.first <= 0) /\ ~(p.last <= 0)
  BY Layout
<1>2. EndedAt(0, kept) = {}
  BY <1>1 DEF EndedAt
<1>3. Reads(in.bytes, << >>, {})
  BY FS_EmptySet DEF Reads
<1>4. << >> \in Seq(Seq(Nat))
  <2> DEFINE Items == Seq(Nat)
  <2> HIDE DEF Items
  <2>1. << >> \in Seq(Items)
    OBVIOUS
  <2>. QED  BY <2>1 DEF Items
<1>. QED  BY <1>1, <1>2, <1>3, <1>4, Zenon DEF ReaderAt

LEMMA FramingStarts == FramingInit => FramingInv
<1> SUFFICES ASSUME FramingInit  PROVE FramingInv
  OBVIOUS
<1>1. InputInv /\ RingInv
  BY RingStarts, Zenon DEF FramingInit, InputInv
<1>2. /\ arrived = 0 /\ accepted = 0 /\ rx_packet = << >> /\ handled = << >>
      /\ client_rx = << >> /\ client_read = << >>
      /\ host_rx = << >> /\ host_read = << >> /\ host_up = TRUE
  BY Zenon DEF FramingInit, RingInit
<1>3. TsrInv
  <2>1. ~StrayAt(input, 0)
    BY DEF StrayAt
  <2>2. ReaderAt(stream, input.packets, 0, FALSE, << >>, << >>)
    <3>1. input.packets \subseteq input.packets
      OBVIOUS
    <3>. QED  BY <1>1, <3>1, ReaderStarts, Zenon DEF InputInv
  <2>3. StrayAt(input, 0) = FALSE
    BY <2>1 DEF StrayAt
  <2>. QED  BY <1>2, <2>2, <2>3, Zenon DEF TsrInv
<1>4. ClientInv
  <2>1. BegunAt(0, input.packets) = {}
    BY <1>1, Layout DEF InputInv, BegunAt
  <2>2. Armed(stream, 0, {}) = FALSE
    <3>1. ~Armed(stream, 0, {})
      <4>1. ~(0 > 0) /\ 0 \in Nat
        OBVIOUS
      <4>. QED  BY <4>1, ArmedNext, Zenon
    <3>. QED  BY <3>1, Zenon DEF Armed
  <2>3. AreMissed(stream, {}, {})
    BY DEF AreMissed
  <2>4. ReaderAt(stream, {}, 0, FALSE, << >>, << >>)
    <3>1. {} \subseteq input.packets
      OBVIOUS
    <3>. QED  BY <1>1, <3>1, ReaderStarts, Zenon DEF InputInv
  <2>5. {} \ {} = {} /\ {} \in SUBSET {}
    OBVIOUS
  <2>6. ClientAt(input, 0, << >>, << >>)
    BY <1>1, <2>1, <2>2, <2>3, <2>4, <2>5, Zenon DEF ClientAt, InputInv
  <2>. QED  BY <1>2, <2>6, Zenon DEF ClientInv
<1>5. FragmentInv
  <2> SUFFICES ASSUME NEW f \in input.fragments
               PROVE  HostAt(input, f, 0, TRUE, << >>, << >>)
    BY <1>2, Zenon DEF FragmentInv
  <2>1. 0 < f.first
    BY <1>1, Layout DEF InputInv
  <2>2. ReaderAt(input.bytes, Before(input, f), 0, FALSE, << >>, << >>)
    <3>1. Before(input, f) \subseteq input.packets
      BY DEF Before
    <3>. QED  BY <1>1, <3>1, ReaderStarts, Zenon DEF InputInv
  <2>. QED  BY <2>1, <2>2, Zenon DEF HostAt
<1>. QED  BY <1>1, <1>3, <1>4, <1>5, Zenon DEF FramingInv

(* A poll hands on the next byte of the stream. *)
LEMMA PolledNext ==
  ASSUME RingInv, PollRing \/ PollDirect
  PROVE  /\ accepted \in Nat /\ accepted < Len(stream) /\ accepted' = accepted + 1
         /\ PolledByte = stream[accepted + 1]
         /\ UNCHANGED <<stream, arrived>>
<1>1. /\ arrived \in 0 .. Len(stream) /\ taken \in 0 .. arrived /\ accepted \in Nat
      /\ read_pos \in 0 .. RingSize - 1 /\ write_pos \in 0 .. RingSize - 1
      /\ Drained \/ OneByteHeld
      /\ Len(stream) \in Nat
  BY RingAssumption DEF RingInv, RingTypeOK
<1>2. accepted' = accepted + 1 /\ UNCHANGED <<stream, arrived>>
  BY DEF PollRing, PollDirect, Poll, lineVars
<1>3. CASE PollRing
  BY <1>1, <1>2, <1>3 DEF PollRing, RingEmpty, Drained, OneByteHeld, PolledByte
<1>4. CASE PollDirect
  <2>1. Drained /\ taken < arrived
    BY <1>1, <1>4, NextSlot DEF PollDirect, RingEmpty, OneByteHeld
  <2>. QED  BY <1>1, <1>2, <1>4, <2>1 DEF PollDirect, RingEmpty, Drained, PolledByte
<1>. QED  BY <1>3, <1>4

(* Where a byte stands, and what is asked of the stream, changes no more. *)
LEMMA SameInput ==
  ASSUME InputInv, UNCHANGED <<input, stream>>
  PROVE  /\ InputInv'
         /\ MagicInside' <=> MagicInside
         /\ Plain' <=> Plain
         /\ \A f : Spoils(f)' <=> Spoils(f)
         /\ \A f : Spoils(f) <=> SpoilsIn(input, f)
BY DEF InputInv, MagicInside, Plain, Spoils, SpoilsIn

LEMMA FramingSteps == FramingInv /\ [FramingNext]_framingVars => FramingInv'
<1> SUFFICES ASSUME FramingInv, [FramingNext]_framingVars  PROVE FramingInv'
  OBVIOUS
<1>1. InputInv /\ RingInv /\ TsrInv /\ ClientInv /\ FragmentInv
  BY Zenon DEF FramingInv
<1>2. input \in Inputs /\ stream = input.bytes
  BY <1>1, Zenon DEF InputInv
<1>3. [RingNext]_receiveVars
  BY DEF FramingNext, ByteComes, TsrPolls, TsrReceives, RingNext, framingVars
<1>4. RingInv'
  BY <1>1, <1>3, RingSteps, Zenon
<1>5. input' = input /\ stream' = stream
  BY DEF FramingNext, ByteComes, TsrPolls, TsrReceives, Arrive, PollRing, PollDirect, Poll,
         ReceiveIrq, WorkerCall, PollEnd, lineVars, readers, framingVars, receiveVars
<1>6. /\ InputInv'
      /\ MagicInside' <=> MagicInside
      /\ Plain' <=> Plain
      /\ \A f : Spoils(f)' <=> Spoils(f)
      /\ \A f : Spoils(f) <=> SpoilsIn(input, f)
  BY <1>1, <1>5, SameInput
<1>7. CASE ByteComes
  <2>1. /\ arrived' = arrived + 1 /\ arrived \in Nat /\ arrived < Len(input.bytes)
        /\ accepted' = accepted /\ rx_packet' = rx_packet /\ handled' = handled
        /\ ClientByte(input.bytes[arrived + 1])
        /\ host_up => HostByte(input.bytes[arrived + 1])
        /\ ~host_up => UNCHANGED <<host_rx, host_read, host_up>>
    <3>1. arrived \in Nat
      BY <1>1, <1>2, Layout DEF RingInv, RingTypeOK
    <3>2. arrived' = arrived + 1 /\ arrived < Len(input.bytes) /\ accepted' = accepted
      BY <1>2, <1>7 DEF ByteComes, Arrive
    <3>. QED  BY <1>2, <1>7, <3>1, <3>2, Zenon DEF ByteComes
  <2>2. TsrInv'
    BY <1>1, <1>5, <1>6, <2>1, Zenon DEF TsrInv
  <2> DEFINE byte == input.bytes[arrived + 1]
             rx == Collect(client_rx, byte, << >>)
             host == Collect(host_rx, byte, << >>)
  <2>3. client_rx' = Rest(rx) /\ client_read' = Deliver(rx, client_read)
    BY <2>1, Zenon DEF ClientByte
  <2>4. host_up => /\ host_rx' = Rest(host) /\ host_read' = Deliver(host, host_read)
                   /\ host_up' = ~Bad(host)
    BY <2>1, Zenon DEF HostByte, Bad
  <2>5. ClientInv'
    <3> SUFFICES ASSUME Plain
                 PROVE  /\ ClientAt(input, arrived + 1, client_rx', client_read')
                        /\ host_rx' = client_rx' /\ host_read' = client_read'
                        /\ host_up' = TRUE
      BY <1>5, <1>6, <2>1, Zenon DEF ClientInv
    <3>1. /\ ClientAt(input, arrived, client_rx, client_read)
          /\ host_rx = client_rx /\ host_read = client_read /\ host_up = TRUE
      BY <1>1, Zenon DEF ClientInv
    <3>2. \A m \in DOMAIN input.bytes :
            MagicAt(input.bytes, m) => \E p \in input.packets : p.first = m
      BY <1>2, Zenon DEF Plain
    <3>3. LET rx2 == Collect(client_rx, input.bytes[arrived + 1], << >>)
          IN  /\ ClientAt(input, arrived + 1, Rest(rx2), Deliver(rx2, client_read))
              /\ ~Bad(rx2)
      BY <1>2, <2>1, <3>1, <3>2, ClientByteAt, Zenon
    <3>4. host = rx
      BY <3>1
    <3>. QED  BY <2>3, <2>4, <3>1, <3>3, <3>4, Zenon
  <2>6. FragmentInv'
    <3> SUFFICES ASSUME NEW f \in input.fragments, f.first < f.last, Spoils(f)
                 PROVE  HostAt(input, f, arrived + 1, host_up', host_rx', host_read')
      BY <1>5, <1>6, <2>1, Zenon DEF FragmentInv
    <3>1. HostAt(input, f, arrived, host_up, host_rx, host_read) /\ SpoilsIn(input, f)
      BY <1>1, <1>6, Zenon DEF FragmentInv
    <3>2. CASE host_up
      <4>1. HostAt(input, f, arrived, TRUE, host_rx, host_read)
        BY <3>1, <3>2, Zenon DEF HostAt
      <4>2. LET rx2 == Collect(host_rx, input.bytes[arrived + 1], << >>)
            IN  HostAt(input, f, arrived + 1, ~Bad(rx2), Rest(rx2), Deliver(rx2, host_read))
        BY <1>2, <2>1, <3>1, <4>1, HostByteAt, Zenon
      <4>. QED  BY <2>4, <3>2, <4>2, Zenon
    <3>3. CASE ~host_up
      <4>1. ~(arrived < f.first) /\ Reads(input.bytes, host_read, Before(input, f))
        BY <3>1, <3>3, Zenon DEF HostAt
      <4>2. ~(arrived + 1 < f.first)
        BY <1>2, <2>1, <4>1, Layout
      <4>3. host_read' = host_read /\ ~host_up'
        BY <2>1, <3>3
      <4>. QED  BY <4>1, <4>2, <4>3, Zenon DEF HostAt
    <3>. QED  BY <3>2, <3>3
  <2>. QED  BY <1>4, <1>6, <2>2, <2>5, <2>6, Zenon DEF FramingInv
<1>8. ASSUME arrived' = arrived,
             UNCHANGED <<client_rx, client_read, host_rx, host_read, host_up>>
      PROVE  ClientInv' /\ FragmentInv'
  <2>1. ClientInv'
    BY <1>1, <1>5, <1>6, <1>8, Zenon DEF ClientInv
  <2>2. FragmentInv'
    <3> SUFFICES ASSUME NEW f \in input.fragments, f.first < f.last, Spoils(f)
                 PROVE  HostAt(input, f, arrived, host_up, host_rx, host_read)
      BY <1>5, <1>6, <1>8, Zenon DEF FragmentInv
    <3>. QED  BY <1>1, Zenon DEF FragmentInv
  <2>. QED  BY <2>1, <2>2
<1>9. CASE TsrPolls
  <2>1. /\ AcceptByte(PolledByte) /\ (PollRing \/ PollDirect)
        /\ UNCHANGED <<client_rx, client_read, host_rx, host_read, host_up>>
    BY <1>9, Zenon DEF TsrPolls
  <2>2. /\ accepted \in Nat /\ accepted < Len(stream) /\ accepted' = accepted + 1
        /\ PolledByte = stream[accepted + 1] /\ arrived' = arrived
    BY <1>1, <2>1, PolledNext
  <2>3. TsrInv'
    <3> SUFFICES ASSUME MagicInside
                 PROVE  ReaderAt(input.bytes, input.packets, accepted + 1,
                                 StrayAt(input, accepted + 1), rx_packet', handled')
      BY <1>2, <1>5, <1>6, <2>2, Zenon DEF TsrInv
    <3>1. /\ ReaderAt(input.bytes, input.packets, accepted, StrayAt(input, accepted),
                      rx_packet, handled)
          /\ \A m \in DOMAIN input.bytes :
               MagicAt(input.bytes, m) => Inside(m, input.packets)
          /\ accepted < Len(input.bytes)
      BY <1>1, <1>2, <2>2, Zenon DEF TsrInv, MagicInside
    <3>2. LET byte == input.bytes[accepted + 1]
              rx2 == Collect(rx_packet, byte, IF byte = Magic0 THEN <<byte>> ELSE << >>)
          IN  ReaderAt(input.bytes, input.packets, accepted + 1,
                       StrayAt(input, accepted + 1), Rest(rx2), Deliver(rx2, handled))
      BY <1>2, <2>2, <3>1, TsrByte, Zenon
    <3> DEFINE byte == input.bytes[accepted + 1]
               rx2 == Collect(rx_packet, byte, IF byte = Magic0 THEN <<byte>> ELSE << >>)
    <3>3. PolledByte = byte
      BY <1>2, <2>2
    <3> HIDE DEF byte
    <3>4. rx_packet' = Rest(rx2) /\ handled' = Deliver(rx2, handled)
      BY <2>1, <3>3 DEF AcceptByte
    <3>. QED  BY <3>2, <3>4, Zenon DEF byte
  <2>. QED  BY <1>4, <1>6, <1>8, <2>1, <2>2, <2>3, Zenon DEF FramingInv
<1>10. ASSUME accepted' = accepted, arrived' = arrived, UNCHANGED readers
       PROVE  FramingInv'
  <2>1. /\ rx_packet' = rx_packet /\ handled' = handled
        /\ UNCHANGED <<client_rx, client_read, host_rx, host_read, host_up>>
    BY <1>10 DEF readers
  <2>2. TsrInv'
    BY <1>1, <1>5, <1>6, <1>10, <2>1, Zenon DEF TsrInv
  <2>. QED  BY <1>4, <1>6, <1>8, <1>10, <2>1, <2>2, Zenon DEF FramingInv
<1>11. CASE TsrReceives
  <2>1. accepted' = accepted /\ arrived' = arrived /\ UNCHANGED readers
    BY <1>11 DEF TsrReceives, ReceiveIrq, WorkerCall, PollEnd, lineVars
  <2>. QED  BY <1>10, <2>1
<1>12. CASE UNCHANGED framingVars
  <2>1. accepted' = accepted /\ arrived' = arrived /\ UNCHANGED readers
    BY <1>12 DEF framingVars, receiveVars, lineVars
  <2>. QED  BY <1>10, <2>1
<1>. QED  BY <1>7, <1>9, <1>11, <1>12 DEF FramingNext

LEMMA FramingInvariant == FramingSpec => []FramingInv
BY FramingStarts, FramingSteps, PTL DEF FramingSpec

-----------------------------------------------------------------------------
(* What each reader gets *)

(* The TSR handles every whole packet, as soon as its last byte is accepted,
   and nothing else, for every stream whose magic sequences all lie inside of
   packets (accept_byte, foreground.c:188-215). *)
THEOREM TsrFindsEveryPacket == FramingSpec => []TsrResynchronizes
<1>1. FramingInv => TsrResynchronizes
  BY Zenon DEF FramingInv, TsrInv, MagicInside, TsrResynchronizes, ReaderAt
<1>. QED  BY <1>1, FramingInvariant, PTL

(* What the foreground client and the bridge lose by not looking at the byte
   behind a stray magic byte again, which docs/protocol.md:3-4 says they do:
   the packet behind it, and a chain of packets that each end in a magic byte,
   and no more; the bridge stays connected (main.c:142-147,
   BridgeForm.cs:549-555). *)
THEOREM StrayMagicIsBounded == FramingSpec => []StrayMagicCosts
<1>1. FramingInv => StrayMagicCosts
  BY Zenon DEF FramingInv, InputInv, ClientInv, ClientAt, StrayMagicCosts, ReaderAt
<1>. QED  BY <1>1, FramingInvariant, PTL

(* Behind a packet cut off in transmission the bridge reads nothing, and
   what came before it is not lost (BridgeForm.cs:546-563). *)
THEOREM FragmentsAreContained == FramingSpec => []FragmentCosts
<1>1. FramingInv => FragmentCosts
  <2> SUFFICES ASSUME FramingInv, NEW f \in input.fragments, f.first < f.last, Spoils(f)
               PROVE  /\ Reads(stream, host_read,
                               {p \in input.packets : p.last <= arrived /\ p.last < f.first})
                      /\ arrived > f.first => ~host_up \/ Len(host_rx) > 1
    BY Zenon DEF FragmentCosts
  <2>1. /\ input \in Inputs /\ stream = input.bytes
        /\ HostAt(input, f, arrived, host_up, host_rx, host_read)
    BY Zenon DEF FramingInv, InputInv, FragmentInv
  <2>2. arrived \in Nat /\ arrived <= Len(input.bytes)
    BY <2>1, Layout DEF FramingInv, RingInv, RingTypeOK
  <2>3. /\ f.first \in Nat /\ 0 < f.first
        /\ input.bytes \in Seq(Nat)
        /\ \A p \in input.packets : p.last \in Nat
    BY <2>1, Layout
  <2> DEFINE read == {p \in input.packets : p.last <= arrived /\ p.last < f.first}
  <2>4. CASE arrived < f.first
    <3>1. read = EndedAt(arrived, Before(input, f))
      BY DEF EndedAt, Before
    <3> HIDE DEF read
    <3>2. Reads(stream, host_read, read)
      BY <2>1, <2>4, <3>1, Zenon DEF HostAt, ReaderAt
    <3>3. ~(arrived > f.first)
      BY <2>2, <2>3, <2>4
    <3>. QED  BY <3>2, <3>3, Zenon DEF read
  <2>5. CASE ~(arrived < f.first)
    <3>1. read = Before(input, f)
      BY <2>2, <2>3, <2>5 DEF Before
    <3> HIDE DEF read
    <3>2. /\ Reads(stream, host_read, read)
          /\ host_up => host_rx = SubSeq(input.bytes, f.first, arrived)
      BY <2>1, <2>5, <3>1, Zenon DEF HostAt
    <3>3. arrived > f.first /\ host_up => Len(host_rx) > 1
      <4>1. f.first <= arrived
        BY <2>2, <2>3, <2>5
      <4>2. Len(SubSeq(input.bytes, f.first, arrived)) = arrived - f.first + 1
        BY <2>2, <2>3, <4>1, Slices
      <4>. QED  BY <2>2, <2>3, <3>2, <4>2
    <3>. QED  BY <3>2, <3>3, Zenon DEF read
  <2>. QED  BY <2>4, <2>5
<1>. QED  BY <1>1, FramingInvariant, PTL

=============================================================================
