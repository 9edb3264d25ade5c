--------------------------- MODULE KeyWordsProofs ---------------------------
(* Facts about key words that the proofs of both injecting programs use. *)
EXTENDS KeyWords, TLAPS

(* A word of a staged text is a natural number. *)
LEMMA WordIsNat ==
  ASSUME NEW text \in Seq(Nat), NEW i \in 1 .. Len(text)
  PROVE  WordAt(text, i) \in Nat
BY DEF WordAt, CR, LF, BS, TAB

(* A unit ends inside its text. *)
LEMMA UnitEndInText ==
  ASSUME NEW text \in Seq(Nat), NEW i \in 1 .. Len(text)
  PROVE  UnitEnd(text, i) \in i .. Len(text)
BY DEF UnitEnd, MergesLF

(* One unit further, the units up to the offset are those before and the
   one just queued. *)
LEMMA NextUnit ==
  ASSUME NEW text \in Seq(Nat), NEW o \in 0 .. Len(text) - 1,
         o + 1 \in UnitStarts(text)
  PROVE  LET e == UnitEnd(text, o + 1)
         IN  /\ e = Len(text) \/ e + 1 \in UnitStarts(text)
             /\ {i \in UnitStarts(text) : i <= e} =
                  {i \in UnitStarts(text) : i <= o} \cup {o + 1}
<1> DEFINE e == UnitEnd(text, o + 1)
<1>1. CASE MergesLF(text, o + 1)
  <2>1. e = o + 2 /\ o + 2 \in 1 .. Len(text)
    BY <1>1 DEF UnitEnd, MergesLF
  <2>2. text[o + 2] = LF /\ text[o + 1] = CR
    BY <1>1 DEF MergesLF
  <2>3. o + 2 \notin UnitStarts(text)
    BY <2>1, <2>2 DEF UnitStarts
  <2>4. e = Len(text) \/ e + 1 \in UnitStarts(text)
    BY <2>1, <2>2 DEF UnitStarts, CR, LF
  <2>5. {i \in UnitStarts(text) : i <= e} =
          {i \in UnitStarts(text) : i <= o} \cup {o + 1}
    BY <2>1, <2>3 DEF UnitStarts
  <2>. QED  BY <2>4, <2>5
<1>2. CASE ~MergesLF(text, o + 1)
  <2>1. e = o + 1
    BY <1>2 DEF UnitEnd
  <2>2. e = Len(text) \/ e + 1 \in UnitStarts(text)
    BY <1>2, <2>1 DEF UnitStarts, MergesLF
  <2>3. {i \in UnitStarts(text) : i <= e} =
          {i \in UnitStarts(text) : i <= o} \cup {o + 1}
    BY <2>1 DEF UnitStarts
  <2>. QED  BY <2>2, <2>3
<1>. QED  BY <1>1, <1>2

(* Queueing the unit at the offset keeps the order. *)
LEMMA QueueNextUnit ==
  ASSUME NEW text \in Seq(Nat), NEW o \in 0 .. Len(text) - 1,
         NEW queued \in Seq(Nat), QueuedInOrder(text, o, queued)
  PROVE  QueuedInOrder(text, UnitEnd(text, o + 1), Append(queued, o + 1))
<1> DEFINE e == UnitEnd(text, o + 1)
           q == Append(queued, o + 1)
<1>1. o + 1 \in UnitStarts(text)
  BY DEF QueuedInOrder
<1>2. /\ e = Len(text) \/ e + 1 \in UnitStarts(text)
      /\ {i \in UnitStarts(text) : i <= e} =
           {i \in UnitStarts(text) : i <= o} \cup {o + 1}
  BY <1>1, NextUnit
<1>3. \A n \in DOMAIN queued : queued[n] <= o
  BY DEF QueuedInOrder
<1>4. /\ DOMAIN q = 1 .. Len(queued) + 1
      /\ \A n \in 1 .. Len(queued) : q[n] = queued[n]
      /\ q[Len(queued) + 1] = o + 1
      /\ DOMAIN queued = 1 .. Len(queued)
      /\ Len(queued) \in Nat
  OBVIOUS
<1>5. \A m, n \in DOMAIN q : m < n => q[m] < q[n]
  <2> SUFFICES ASSUME NEW m \in DOMAIN q, NEW n \in DOMAIN q, m < n
               PROVE  q[m] < q[n]
    OBVIOUS
  <2>1. CASE n = Len(queued) + 1
    BY <1>3, <1>4, <2>1
  <2>2. CASE n # Len(queued) + 1
    BY <1>4, <2>2 DEF QueuedInOrder
  <2>. QED  BY <2>1, <2>2
<1>6. {q[n] : n \in DOMAIN q} = {queued[n] : n \in DOMAIN queued} \cup {o + 1}
  <2> DEFINE old == 1 .. Len(queued)
  <2>1. DOMAIN q = old \cup {Len(queued) + 1}
    BY <1>4
  <2>2. \A n \in old : q[n] = queued[n]
    BY <1>4
  <2>3. q[Len(queued) + 1] = o + 1 /\ DOMAIN queued = old
    BY <1>4
  <2> HIDE DEF q, old
  <2>. QED  BY <2>1, <2>2, <2>3
<1>. QED  BY <1>2, <1>5, <1>6 DEF QueuedInOrder

=============================================================================
