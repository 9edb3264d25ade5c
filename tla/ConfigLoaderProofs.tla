-------------------------- MODULE ConfigLoaderProofs --------------------------
(***************************************************************************)
(* What IME98.CFG sets, for every file, block size and line size.  The     *)
(* first part is about the data: the value of a line, and what a file says *)
(* when one line is added to it.  The second part is the loop.             *)
(***************************************************************************)
EXTENDS ConfigLoader, SequenceTheorems, WellFoundedInduction, TLAPS

-----------------------------------------------------------------------------
(* Least and greatest numbers *)

LEMMA LeastNat ==
  ASSUME NEW T \in SUBSET Nat, T # {}
  PROVE  \E m \in T : \A n \in T : m <= n
<1> DEFINE R == OpToRel(<, Nat)
<1>1. \E x \in T : \A y \in T : ~(<<y, x>> \in R)
  <2>1. IsWellFoundedOn(R, Nat)
    BY NatLessThanWellFounded
  <2> HIDE DEF R
  <2>. QED  BY <2>1, WFMin
<1>2. PICK x \in T : \A y \in T : ~(<<y, x>> \in R)
  BY <1>1
<1>3. ASSUME NEW y \in T  PROVE x <= y
  <2>1. <<y, x>> \in R <=> y < x
    BY DEF OpToRel
  <2> HIDE DEF R
  <2>. QED  BY <1>2, <2>1
<1>. QED  BY <1>3

LEMMA GreatestNat ==
  ASSUME NEW n \in Nat, NEW T \in SUBSET (0 .. n), T # {}
  PROVE  \E m \in T : \A k \in T : k <= m
<1> DEFINE U == {n - k : k \in T}
<1>1. U \in SUBSET Nat /\ U # {}
  <2>1. \A k \in T : n - k \in Nat
    OBVIOUS
  <2>. QED  BY <2>1
<1>2. PICK u \in U : \A v \in U : u <= v
  BY <1>1, LeastNat
<1>3. PICK m \in T : u = n - m
  BY <1>2
<1>4. ASSUME NEW k \in T  PROVE k <= m
  <2>1. n - m <= n - k
    BY <1>2, <1>3
  <2>. QED  BY <2>1
<1>. QED  BY <1>4

-----------------------------------------------------------------------------
(* Values *)

(* Span is what its name says: the members of S at the beginning of s. *)
LEMMA SpanIsPrefix ==
  ASSUME NEW s \in Seq(STRING), NEW S
  PROVE  /\ Span(s, S) \in 0 .. Len(s)
         /\ \A i \in 1 .. Span(s, S) : s[i] \in S
<1> DEFINE T == {n \in 0 .. Len(s) : n = Len(s) \/ s[n + 1] \notin S}
<1>1. T \in SUBSET Nat /\ T # {}
  OBVIOUS
<1>2. PICK m \in T : \A n \in T : m <= n
  BY <1>1, LeastNat
<1>3. ASSUME NEW i \in 1 .. m  PROVE s[i] \in S
  <2>1. i - 1 \notin T
    BY <1>2
  <2>2. i - 1 \in 0 .. Len(s) /\ i - 1 + 1 = i
    OBVIOUS
  <2>. QED  BY <2>1, <2>2
<1>4. \E n \in 0 .. Len(s) :
        (\A i \in 1 .. n : s[i] \in S) /\ (n = Len(s) \/ s[n + 1] \notin S)
  BY <1>3
<1>. QED  BY <1>4 DEF Span

LEMMA DropTyped ==
  ASSUME NEW s \in Seq(STRING), NEW n \in 0 .. Len(s)
  PROVE  Drop(s, n) \in Seq(STRING)
BY DEF Drop

(* parse_hex takes four digits at most. *)
LEMMA HexDigitsAreDigits ==
  ASSUME NEW s \in Seq(STRING)
  PROVE  /\ Len(HexDigits(s)) \in 0 .. 4
         /\ \A i \in 1 .. Len(HexDigits(s)) : HexDigits(s)[i] \in Digit
<1> DEFINE t == SkipBlanks(s)
           u == IF Len(t) >= 2 /\ t[1] = "0" /\ t[2] = "x" THEN Drop(t, 2) ELSE t
           n == Span(u, Digit)
           k == IF n > 4 THEN 4 ELSE n
<1>1. t \in Seq(STRING)
  BY SpanIsPrefix, DropTyped DEF SkipBlanks
<1>2. u \in Seq(STRING)
  <2> HIDE DEF t
  <2>. QED  BY <1>1, DropTyped
<1>3. n \in 0 .. Len(u) /\ \A i \in 1 .. n : u[i] \in Digit
  <2> HIDE DEF u
  <2>. QED  BY <1>2, SpanIsPrefix
<1>4. HexDigits(s) = SubSeq(u, 1, k)
  BY DEF HexDigits
<1> HIDE DEF t, u, n
<1>5. k \in 0 .. 4 /\ k <= n /\ k <= Len(u)
  BY <1>2, <1>3
<1>6. Len(SubSeq(u, 1, k)) = k /\ \A i \in 1 .. k : SubSeq(u, 1, k)[i] = u[i]
  BY <1>2, <1>5
<1>. QED  BY <1>3, <1>4, <1>5, <1>6

LEMMA DigitValueRange ==
  ASSUME NEW d \in Digit
  PROVE  DigitValue(d) \in 0 .. 15
<1>1. \E i \in 1 .. 16 : Hex[i] = d
  BY DEF Digit
<1>. QED  BY <1>1 DEF DigitValue

(* Four digits make a 16-bit value. *)
LEMMA HexValueRange ==
  ASSUME NEW s, Len(s) \in 0 .. 4, \A i \in 1 .. Len(s) : s[i] \in Digit
  PROVE  HexValue(s) \in 0 .. MaxWord
<1> DEFINE part(k, weight) ==
             IF k <= Len(s) THEN weight * DigitValue(s[Len(s) + 1 - k]) ELSE 0
           d(k) == IF k <= Len(s) THEN DigitValue(s[Len(s) + 1 - k]) ELSE 0
<1>1. ASSUME NEW k \in 1 .. 4  PROVE d(k) \in 0 .. 15
  <2>1. k <= Len(s) => Len(s) + 1 - k \in 1 .. Len(s)
    OBVIOUS
  <2>. QED  BY <2>1, DigitValueRange
<1>2. \A k \in 1 .. 4, w \in {1, 16, 256, 4096} : part(k, w) = w * d(k)
  OBVIOUS
<1>3. HexValue(s) = 1 * d(1) + 16 * d(2) + 256 * d(3) + 4096 * d(4)
  <2>1. HexValue(s) = part(1, 1) + part(2, 16) + part(3, 256) + part(4, 4096)
    BY DEF HexValue
  <2> HIDE DEF part, d
  <2>. QED  BY <1>2, <2>1
<1>4. \A k \in 1 .. 4 : d(k) \in Nat /\ d(k) <= 15
  <2> HIDE DEF d
  <2>. QED  BY <1>1
<1> HIDE DEF d
<1>5. /\ d(1) \in Nat /\ d(2) \in Nat /\ d(3) \in Nat /\ d(4) \in Nat
      /\ d(1) <= 15 /\ d(2) <= 15 /\ d(3) <= 15 /\ d(4) <= 15
  BY <1>4
<1>6. HexValue(s) \in Nat
  BY <1>3, <1>5
<1>7. HexValue(s) <= 65535
  BY <1>3, <1>5
<1>8. HexValue(s) <= MaxWord /\ MaxWord \in Nat
  BY <1>7 DEF MaxWord
<1>. QED  BY <1>6, <1>8

(* A line that sets an option sets it to a 16-bit value. *)
LEMMA ValueRange ==
  ASSUME NEW s \in Seq(STRING), NEW o \in Options, Sets(s, o)
  PROVE  ValueOf(s, o) \in 0 .. MaxWord
<1>1. Len(s) >= 2 /\ Drop(s, 2) \in Seq(STRING)
  BY DropTyped DEF Sets, HasKey
<1>2. CASE o = "HOTKEY"
  <2>1. PICK h \in DOMAIN ModifierOf : IsValue(SkipBlanks(Drop(s, 2)), h)
    BY <1>2 DEF Sets
  <2>2. SkipBlanks(Drop(s, 2))[1] = h
    BY <2>1 DEF IsValue
  <2>3. ValueOf(s, o) = ModifierOf[h]
    BY <1>2, <2>2 DEF ValueOf
  <2>4. ModifierOf[h] \in {1, 8, 16}
    BY DEF ModifierOf
  <2>5. MaxWord \in Nat /\ MaxWord >= 16
    BY DEF MaxWord
  <2>. QED  BY <2>3, <2>4, <2>5
<1>3. CASE o # "HOTKEY"
  <2> DEFINE v == HexValue(HexDigits(Drop(s, 2)))
  <2>1. v \in 0 .. MaxWord
    <3> DEFINE digits == HexDigits(Drop(s, 2))
    <3>1. Len(digits) \in 0 .. 4 /\ \A i \in 1 .. Len(digits) : digits[i] \in Digit
      BY <1>1, HexDigitsAreDigits
    <3> HIDE DEF digits
    <3>2. HexValue(digits) \in 0 .. MaxWord
      BY <3>1, HexValueRange
    <3>. QED  BY <3>2 DEF digits
  <2>2. ValueOf(s, o) = v \/ ValueOf(s, o) = v % 256
    BY <1>3 DEF ValueOf
  <2> HIDE DEF v
  <2>3. v % 256 \in 0 .. MaxWord
    <3>1. v \in Nat /\ v % 256 \in Nat /\ v % 256 <= v
      BY <2>1
    <3>2. MaxWord \in Nat
      BY DEF MaxWord
    <3>. QED  BY <2>1, <3>1, <3>2
  <2>. QED  BY <2>1, <2>2, <2>3
<1>. QED  BY <1>2, <1>3

-----------------------------------------------------------------------------
(* Lines *)

(* Every line of a beginning of the file has one end. *)
LEMMA LastExists ==
  ASSUME NEW f \in Seq(STRING), NEW n \in 0 .. Len(f), NEW i \in 1 .. n,
         f[i] \notin EndOfLine
  PROVE  \E j \in i .. n : IsLast(f, i, n, j)
<1> DEFINE T == {e \in i .. n : e = n \/ f[e + 1] \in EndOfLine}
<1>1. T \in SUBSET Nat /\ n \in T
  OBVIOUS
<1>2. PICK e \in T : \A k \in T : e <= k
  BY <1>1, LeastNat
<1>3. ASSUME NEW k \in i .. e  PROVE f[k] \notin EndOfLine
  <2>1. CASE k = i
    BY <2>1
  <2>2. CASE k # i
    <3>1. k - 1 \in i .. n /\ k - 1 + 1 = k /\ ~(e <= k - 1)
      BY <2>2
    <3>2. k - 1 \notin T
      BY <1>2, <3>1
    <3>. QED  BY <3>1, <3>2
  <2>. QED  BY <2>1, <2>2
<1>. QED  BY <1>2, <1>3 DEF IsLast

LEMMA LastUnique ==
  ASSUME NEW f, NEW n \in Nat, NEW i \in 1 .. n,
         NEW j \in i .. n, NEW k \in i .. n,
         IsLast(f, i, n, j), IsLast(f, i, n, k)
  PROVE  j = k
<1>1. ASSUME j < k  PROVE FALSE
  <2>1. f[j + 1] \in EndOfLine /\ j + 1 \in i .. k
    BY <1>1 DEF IsLast
  <2>. QED  BY <2>1 DEF IsLast
<1>2. ASSUME k < j  PROVE FALSE
  <2>1. f[k + 1] \in EndOfLine /\ k + 1 \in i .. j
    BY <1>2 DEF IsLast
  <2>. QED  BY <2>1 DEF IsLast
<1>. QED  BY <1>1, <1>2

LEMMA LineIs ==
  ASSUME NEW f, NEW n \in Nat, NEW i \in 1 .. n, NEW j \in i .. n,
         IsLast(f, i, n, j)
  PROVE  LineAt(f, i, n) = SubSeq(f, i, j)
<1> DEFINE c == CHOOSE e \in i .. n : IsLast(f, i, n, e)
<1>1. c \in i .. n /\ IsLast(f, i, n, c)
  OBVIOUS
<1>2. LineAt(f, i, n) = SubSeq(f, i, c)
  BY DEF LineAt
<1> HIDE DEF c
<1>3. c = j
  BY <1>1, LastUnique
<1>. QED  BY <1>2, <1>3

(* A line that ended by b is the same line when more is read. *)
LEMMA EarlierLine ==
  ASSUME NEW f \in Seq(STRING), NEW m \in 0 .. Len(f), NEW b \in 1 .. m,
         f[b] \in EndOfLine, NEW j \in 1 .. b, f[j] \notin EndOfLine
  PROVE  LineAt(f, j, m) = LineAt(f, j, b)
<1>1. b \in 0 .. Len(f) /\ m \in Nat /\ b \in Nat /\ j \in 1 .. m
  OBVIOUS
<1>2. PICK e \in j .. b : IsLast(f, j, b, e)
  BY <1>1, LastExists
<1>3. e # b
  BY <1>2 DEF IsLast
<1>4. e \in j .. m /\ IsLast(f, j, m, e)
  BY <1>2, <1>3 DEF IsLast
<1>5. LineAt(f, j, b) = SubSeq(f, j, e)
  BY <1>1, <1>2, LineIs
<1>6. LineAt(f, j, m) = SubSeq(f, j, e)
  BY <1>1, <1>4, LineIs
<1>. QED  BY <1>5, <1>6

(* The tokens b + 1 .. n are one line: it begins at its first token that is
   not a blank. *)
LEMMA BeginsInLine ==
  ASSUME NEW f, NEW n \in Nat, NEW b \in 0 .. n,
         b = 0 \/ f[b] \in EndOfLine,
         \A k \in b + 1 .. n : f[k] \notin EndOfLine,
         NEW j \in b + 1 .. n
  PROVE  BeginsAt(f, j) <=>
           f[j] \notin Blank /\ \A k \in b + 1 .. j - 1 : f[k] \in Blank
<1>1. EndOfLine \cap Blank = {}
  BY DEF EndOfLine, Blank
<1>2. ASSUME BeginsAt(f, j)
      PROVE  f[j] \notin Blank /\ \A k \in b + 1 .. j - 1 : f[k] \in Blank
  <2>1. PICK e \in 0 .. j - 1 :
          /\ e = 0 \/ f[e] \in EndOfLine
          /\ \A k \in e + 1 .. j - 1 : f[k] \in Blank
    BY <1>2 DEF BeginsAt
  <2>2. e <= b
    BY <2>1
  <2>. QED  BY <1>2, <2>1, <2>2 DEF BeginsAt
<1>3. ASSUME f[j] \notin Blank, \A k \in b + 1 .. j - 1 : f[k] \in Blank
      PROVE  BeginsAt(f, j)
  <2>1. b \in 0 .. j - 1
    OBVIOUS
  <2>. QED  BY <1>3, <2>1 DEF BeginsAt
<1>. QED  BY <1>2, <1>3

-----------------------------------------------------------------------------
(* What a file says when one line is added to it.  The tokens up to b are
   whole lines, b + 1 .. n is the line behind them, and m is n, or n + 1 and
   the end of that line. *)

CurrentLine(f, b, n) ==
  /\ b = 0 \/ f[b] \in EndOfLine
  /\ \A k \in b + 1 .. n : f[k] \notin EndOfLine

Ends(f, n, m) == m = n \/ (m = n + 1 /\ f[m] \in EndOfLine)

(* i is the first token of the line that is not a blank. *)
Begun(f, b, n, i) ==
  /\ i \in b + 1 .. n
  /\ f[i] \notin Blank
  /\ \A k \in b + 1 .. i - 1 : f[k] \in Blank

LineSets(f, o, n, i) ==
  /\ f[i] \notin Comment
  /\ Len(SubSeq(f, i, n)) < LineSize
  /\ Sets(SubSeq(f, i, n), o)

(* The lines before count as before. *)
LEMMA SettersBefore ==
  ASSUME NEW f \in Seq(STRING), NEW m \in 0 .. Len(f), NEW b \in 0 .. m,
         b = 0 \/ f[b] \in EndOfLine, NEW o, NEW j \in 1 .. b
  PROVE  SetsAt(f, o, m, j) <=> SetsAt(f, o, b, j)
<1>1. CASE f[j] \in EndOfLine
  BY <1>1 DEF SetsAt, BeginsAt
<1>2. CASE f[j] \notin EndOfLine
  <2>1. b \in 1 .. m /\ f[b] \in EndOfLine
    OBVIOUS
  <2>2. LineAt(f, j, m) = LineAt(f, j, b)
    BY <1>2, <2>1, EarlierLine
  <2>. QED  BY <2>2 DEF SetsAt
<1>. QED  BY <1>1, <1>2

(* In a line of blanks nothing begins. *)
LEMMA SettersNone ==
  ASSUME NEW f \in Seq(STRING), NEW n \in 0 .. Len(f), NEW m \in n .. Len(f),
         Ends(f, n, m), NEW b \in 0 .. n, CurrentLine(f, b, n),
         \A k \in b + 1 .. n : f[k] \in Blank, NEW o
  PROVE  SettersOf(f, o, m) = SettersOf(f, o, b)
<1>1. ASSUME NEW j \in b + 1 .. m  PROVE ~SetsAt(f, o, m, j)
  BY DEF SetsAt, BeginsAt, Ends
<1>2. ASSUME NEW j \in 1 .. b  PROVE SetsAt(f, o, m, j) <=> SetsAt(f, o, b, j)
  BY SettersBefore DEF CurrentLine
<1>3. \A j \in 1 .. m : j \in 1 .. b \/ j \in b + 1 .. m
  OBVIOUS
<1>4. 1 .. b \subseteq 1 .. m
  OBVIOUS
<1>. QED  BY <1>1, <1>2, <1>3, <1>4 DEF SettersOf

(* A line that has begun adds itself, if it is valid and sets the option. *)
LEMMA SettersAdded ==
  ASSUME NEW f \in Seq(STRING), NEW n \in 0 .. Len(f), NEW m \in n .. Len(f),
         Ends(f, n, m), NEW b \in 0 .. n, CurrentLine(f, b, n),
         NEW i, Begun(f, b, n, i), NEW o
  PROVE  /\ LineAt(f, i, m) = SubSeq(f, i, n)
         /\ SettersOf(f, o, m) =
              SettersOf(f, o, b) \cup (IF LineSets(f, o, n, i) THEN {i} ELSE {})
<1>1. i \in b + 1 .. n /\ i \in 1 .. m /\ n \in i .. m
  BY DEF Begun
<1>2. LineAt(f, i, m) = SubSeq(f, i, n)
  <2>1. IsLast(f, i, m, n)
    BY <1>1 DEF IsLast, CurrentLine, Ends
  <2>. QED  BY <1>1, <2>1, LineIs
<1>3. SetsAt(f, o, m, i) <=> LineSets(f, o, n, i)
  <2>1. BeginsAt(f, i)
    <3>1. f[i] \notin Blank /\ \A k \in b + 1 .. i - 1 : f[k] \in Blank
      BY DEF Begun
    <3>2. b = 0 \/ f[b] \in EndOfLine
      BY DEF CurrentLine
    <3>3. \A k \in b + 1 .. n : f[k] \notin EndOfLine
      BY DEF CurrentLine
    <3>. QED  BY <1>1, <3>1, <3>2, <3>3, BeginsInLine
  <2>. QED  BY <1>2, <2>1 DEF SetsAt, LineSets
<1>4. ASSUME NEW j \in b + 1 .. m, j # i  PROVE ~SetsAt(f, o, m, j)
  <2>1. CASE j \in b + 1 .. n
    <3>1. ~(f[j] \notin Blank /\ \A k \in b + 1 .. j - 1 : f[k] \in Blank)
      <4>1. CASE j < i
        BY <2>1, <4>1 DEF Begun
      <4>2. CASE i < j
        <5>1. i \in b + 1 .. j - 1
          BY <1>1, <4>2
        <5>. QED  BY <5>1 DEF Begun
      <4>. QED  BY <1>1, <1>4, <4>1, <4>2
    <3>2. ~BeginsAt(f, j)
      BY <2>1, <3>1, BeginsInLine DEF CurrentLine
    <3>. QED  BY <3>2 DEF SetsAt
  <2>2. CASE j \notin b + 1 .. n
    BY <2>2 DEF Ends, SetsAt, BeginsAt
  <2>. QED  BY <2>1, <2>2
<1>5. ASSUME NEW j \in 1 .. b  PROVE SetsAt(f, o, m, j) <=> SetsAt(f, o, b, j)
  BY SettersBefore DEF CurrentLine
<1>6. \A j \in 1 .. m : j \in 1 .. b \/ j \in b + 1 .. m
  OBVIOUS
<1>7. 1 .. b \subseteq 1 .. m
  OBVIOUS
<1>8. SettersOf(f, o, m) =
        SettersOf(f, o, b) \cup (IF LineSets(f, o, n, i) THEN {i} ELSE {})
  BY <1>1, <1>3, <1>4, <1>5, <1>6, <1>7 DEF SettersOf
<1>. QED  BY <1>2, <1>8

(* The line that counts is one of those that set the option. *)
LEMMA CountsIsSetter ==
  ASSUME NEW n \in Nat, NEW T \in SUBSET (1 .. n), T # {}
  PROVE  Counts(T) \in T /\ \A j \in T : j <= Counts(T)
<1>1. T \in SUBSET (0 .. n)
  OBVIOUS
<1>2. \E i \in T : \A j \in T : j <= i
  BY <1>1, GreatestNat
<1>. QED  BY <1>2 DEF Counts

(* Nothing was added. *)
LEMMA SaidAsBefore ==
  ASSUME NEW f \in Seq(STRING), NEW m \in 0 .. Len(f), NEW b \in 0 .. m,
         b = 0 \/ f[b] \in EndOfLine, NEW o,
         SettersOf(f, o, m) = SettersOf(f, o, b)
  PROVE  Said(f, o, m) = Said(f, o, b)
<1> DEFINE T == SettersOf(f, o, b)
<1>1. CASE T = {}
  BY <1>1 DEF Said
<1>2. CASE T # {}
  <2> DEFINE c == Counts(T)
  <2>1. T \in SUBSET (1 .. b) /\ b \in Nat
    BY DEF SettersOf
  <2>2. c \in T
    <3> HIDE DEF T
    <3>. QED  BY <1>2, <2>1, CountsIsSetter
  <2>3. c \in 1 .. b /\ f[c] \notin EndOfLine
    BY <2>2 DEF SettersOf, SetsAt, BeginsAt
  <2> HIDE DEF c
  <2>4. LineAt(f, c, m) = LineAt(f, c, b)
    BY <2>3, EarlierLine
  <2>. QED  BY <1>2, <2>4 DEF Said, c
<1>. QED  BY <1>1, <1>2

(* The added line counts. *)
LEMMA SaidByLine ==
  ASSUME NEW f \in Seq(STRING), NEW n \in 0 .. Len(f), NEW m \in n .. Len(f),
         Ends(f, n, m), NEW b \in 0 .. n, CurrentLine(f, b, n),
         NEW i, Begun(f, b, n, i), NEW o, LineSets(f, o, n, i)
  PROVE  Said(f, o, m) = ValueOf(SubSeq(f, i, n), o)
<1> DEFINE T == SettersOf(f, o, m)
<1>1. /\ LineAt(f, i, m) = SubSeq(f, i, n)
      /\ T = SettersOf(f, o, b) \cup {i}
  BY SettersAdded
<1>2. T \in SUBSET (1 .. m) /\ m \in Nat /\ T # {}
  BY <1>1 DEF SettersOf
<1>3. \A j \in SettersOf(f, o, b) : j < i
  BY DEF SettersOf, Begun
<1>4. Counts(T) = i
  <2>1. Counts(T) \in T /\ \A j \in T : j <= Counts(T)
    <3> HIDE DEF T
    <3>. QED  BY <1>2, CountsIsSetter
  <2>2. i \in T
    BY <1>1
  <2>3. Counts(T) = i \/ Counts(T) \in SettersOf(f, o, b)
    BY <1>1, <2>1
  <2> HIDE DEF T
  <2>4. Counts(T) \in 1 .. m /\ i \in 1 .. m /\ i <= Counts(T)
    BY <1>2, <2>1, <2>2
  <2>. QED  BY <1>3, <2>3, <2>4
<1>. QED  BY <1>1, <1>2, <1>4 DEF Said

-----------------------------------------------------------------------------
(* Types *)

(* parse_config_line leaves 16-bit settings. *)
LEMMA ParsedTyped ==
  ASSUME settings \in [Options -> 0 .. MaxWord], NEW s \in Seq(STRING)
  PROVE  ParseLine(s) \in [Options -> 0 .. MaxWord]
<1>1. ASSUME NEW o \in Options
      PROVE  (IF Sets(s, o) THEN ValueOf(s, o) ELSE settings[o]) \in 0 .. MaxWord
  <2>1. CASE Sets(s, o)
    BY <2>1, ValueRange
  <2>2. CASE ~Sets(s, o)
    BY <2>2
  <2>. QED  BY <2>1, <2>2
<1>. QED  BY <1>1 DEF ParseLine

LEMMA TypeStarts == Init => ConfigTypeOK
<1> SUFFICES ASSUME Init  PROVE ConfigTypeOK
  OBVIOUS
<1>1. file \in Files /\ file \in Seq(STRING) /\ LineSize \in Nat /\ LineSize > 0
  BY ConfigAssumption DEF Init
<1>2. MaxWord \in Nat /\ MaxWord > 100
  BY DEF MaxWord
<1>3. settings \in [Options -> 0 .. MaxWord]
  <2>1. settings = Defaults
    BY DEF Init
  <2>. QED  BY <1>2, <2>1 DEF Defaults, Options
<1>4. line_overflow \in BOOLEAN /\ line_started \in BOOLEAN /\ line_comment \in BOOLEAN
  BY DEF Init
<1>5. line \in Seq(STRING) /\ Len(line) < LineSize
  BY <1>1 DEF Init
<1>6. /\ pc \in {"open", "read", "scan", "done"}
      /\ filled \in 0 .. Len(file) /\ position \in 0 .. filled
      /\ (pc \in {"open", "read"} => position = filled) /\ pc # "scan"
  BY <1>1 DEF Init
<1>. QED  BY <1>1, <1>3, <1>4, <1>5, <1>6 DEF ConfigTypeOK

(* What a step of the scan does to the places in the file. *)
LEMMA ScanTyped ==
  ASSUME ConfigTypeOK, Scan
  PROVE  /\ Token \in STRING /\ file \in Seq(STRING)
         /\ file' \in Files /\ file' = file
         /\ pc' \in {"read", "scan"}
         /\ position' = position + 1
         /\ filled' \in 0 .. Len(file') /\ position' \in 0 .. filled'
         /\ (pc' = "read" => position' = filled')
         /\ (pc' = "scan" => position' < filled')
<1>1. /\ file \in Files /\ file \in Seq(STRING) /\ Len(file) \in Nat
      /\ filled \in 0 .. Len(file) /\ position \in 0 .. filled /\ position < filled
  BY ConfigAssumption DEF ConfigTypeOK, Scan
<1>2. Token \in STRING
  BY <1>1 DEF Token
<1>3. /\ file' = file /\ filled' = filled /\ position' = position + 1
      /\ pc' = IF position + 1 = filled THEN "read" ELSE "scan"
  BY DEF Scan
<1>. QED  BY <1>1, <1>2, <1>3

LEMMA TypeSteps == ConfigTypeOK /\ [Next]_vars => ConfigTypeOK'
<1> SUFFICES ASSUME ConfigTypeOK, [Next]_vars  PROVE ConfigTypeOK'
  OBVIOUS
<1>1. /\ file \in Files /\ file \in Seq(STRING) /\ Len(file) \in Nat
      /\ filled \in 0 .. Len(file) /\ position \in 0 .. filled
      /\ line \in Seq(STRING) /\ Len(line) < LineSize
      /\ LineSize \in Nat /\ LineSize > 0 /\ ReadSize \in Nat /\ ReadSize > 0
      /\ settings \in [Options -> 0 .. MaxWord]
  BY ConfigAssumption DEF ConfigTypeOK
<1>2. line_overflow \in BOOLEAN /\ line_started \in BOOLEAN /\ line_comment \in BOOLEAN
  BY DEF ConfigTypeOK
<1>3. CASE Open
  BY <1>1, <1>3 DEF Open, lineState, ConfigTypeOK
<1>4. CASE ReadBlock
  <2>1. filled' \in 0 .. Len(file) /\ filled < filled' /\ position = filled
    BY <1>1, <1>4 DEF ReadBlock, ConfigTypeOK
  <2>. QED  BY <1>1, <1>4, <2>1 DEF ReadBlock, lineState, ConfigTypeOK
<1>5. CASE Finish
  <2>1. settings' \in [Options -> 0 .. MaxWord]
    BY <1>1, <1>5, ParsedTyped DEF Finish
  <2>. QED  BY <1>1, <1>5, <2>1 DEF Finish, lineState, ConfigTypeOK
<1>6. CASE LineEnds
  <2>1. settings' \in [Options -> 0 .. MaxWord]
    BY <1>1, <1>6, ParsedTyped DEF LineEnds
  <2>2. line' \in Seq(STRING) /\ Len(line') < LineSize
    <3>1. line' = << >>
      BY <1>6 DEF LineEnds
    <3>. QED  BY <1>1, <3>1
  <2>3. line_overflow' \in BOOLEAN /\ line_started' \in BOOLEAN /\ line_comment' \in BOOLEAN
    BY <1>6 DEF LineEnds
  <2>4. Scan
    BY <1>6 DEF LineEnds
  <2>. QED  BY <2>1, <2>2, <2>3, <2>4, ScanTyped DEF ConfigTypeOK
<1>7. ASSUME InLine,
             line' \in Seq(STRING) /\ Len(line') < LineSize,
             line_overflow' \in BOOLEAN /\ line_started' \in BOOLEAN /\ line_comment' \in BOOLEAN
      PROVE  ConfigTypeOK'
  <2>1. Scan /\ settings' = settings
    BY <1>7 DEF InLine
  <2>. QED  BY <1>1, <1>7, <2>1, ScanTyped DEF ConfigTypeOK
<1>8. CASE SkipRest
  BY <1>1, <1>2, <1>7, <1>8 DEF SkipRest, lineState
<1>9. CASE SkipIndent
  BY <1>1, <1>2, <1>7, <1>9 DEF SkipIndent, lineState
<1>10. CASE StartComment
  BY <1>1, <1>2, <1>7, <1>10 DEF StartComment
<1>11. CASE Store
  <2>1. Scan /\ Token \in STRING
    BY <1>11, ScanTyped DEF Store, Storing, InLine
  <2>2. line' \in Seq(STRING) /\ Len(line') < LineSize
    <3>1. \/ Len(line) + 1 < LineSize /\ line' = Append(line, Token)
          \/ line' = line
      BY <1>11 DEF Store
    <3>2. /\ Append(line, Token) \in Seq(STRING)
          /\ Len(Append(line, Token)) = Len(line) + 1
      BY <1>1, <2>1, AppendProperties
    <3>3. CASE line' = line
      BY <1>1, <3>3
    <3>4. CASE Len(line) + 1 < LineSize /\ line' = Append(line, Token)
      BY <3>2, <3>4
    <3>. QED  BY <3>1, <3>3, <3>4
  <2>3. line_overflow' \in BOOLEAN /\ line_started' \in BOOLEAN /\ line_comment' \in BOOLEAN
    BY <1>2, <1>11 DEF Store, Storing
  <2>. QED  BY <1>7, <1>11, <2>2, <2>3 DEF Store, Storing
<1>12. CASE UNCHANGED vars
  BY <1>12 DEF vars, ConfigTypeOK
<1>. QED
  BY <1>3, <1>4, <1>5, <1>6, <1>8, <1>9, <1>10, <1>11, <1>12 DEF Next

(* The loader's settings and flags keep their ranges: every setting stays a
   16-bit value, the line fits its buffer and the scan stays within what was
   read (serial_pc98.c:102-168). *)
THEOREM ConfigTypeCorrect == Spec => []ConfigTypeOK
BY TypeStarts, TypeSteps, PTL DEF Spec

-----------------------------------------------------------------------------
(* The loop.  After every token the settings are what the whole lines up to
   some b say, and the flags describe the line that b + 1 opens. *)

NotBegun(b) ==
  /\ ~line_started /\ ~line_overflow /\ ~line_comment
  /\ line = << >>
  /\ \A k \in b + 1 .. position : file[k] \in Blank

HasBegun(b, i) ==
  /\ line_started
  /\ Begun(file, b, position, i)
  /\ line_comment <=> file[i] \in Comment
  /\ ~line_comment /\ ~line_overflow => line = SubSeq(file, i, position)
  /\ line_overflow => position + 1 - i >= LineSize

Reached(b) ==
  /\ CurrentLine(file, b, position)
  /\ \A o \in Options : settings[o] = Said(file, o, b)
  /\ NotBegun(b) \/ \E i \in b + 1 .. position : HasBegun(b, i)

ConfigInv ==
  /\ ConfigTypeOK
  /\ pc = "open" => position = 0
  /\ pc = "done" => \A o \in Options : settings[o] = Said(file, o, position)
  /\ pc # "done" => \E b \in 0 .. position : Reached(b)

(* Applying the line at its end brings the settings to what the file says up
   to there. *)
LEMMA Applied ==
  ASSUME ConfigTypeOK, NEW b \in 0 .. position, Reached(b),
         NEW m \in position .. Len(file), Ends(file, position, m), NEW o \in Options
  PROVE  Said(file, o, m) =
           IF ~line_overflow /\ ~line_comment THEN ParseLine(line)[o] ELSE settings[o]
<1>1. /\ file \in Seq(STRING) /\ position \in 0 .. Len(file) /\ position \in Nat
      /\ LineSize \in Nat
  BY ConfigAssumption DEF ConfigTypeOK
<1>2. /\ b \in 0 .. m /\ m \in 0 .. Len(file)
      /\ b = 0 \/ file[b] \in EndOfLine
      /\ CurrentLine(file, b, position)
      /\ settings[o] = Said(file, o, b)
  BY <1>1 DEF Reached, CurrentLine
<1>3. ParseLine(line)[o] = IF Sets(line, o) THEN ValueOf(line, o) ELSE settings[o]
  BY DEF ParseLine
<1>4. CASE NotBegun(b)
  <2>1. SettersOf(file, o, m) = SettersOf(file, o, b)
    BY <1>1, <1>2, <1>4, SettersNone DEF NotBegun
  <2>2. Said(file, o, m) = settings[o]
    BY <1>1, <1>2, <2>1, SaidAsBefore
  <2>3. ~Sets(line, o)
    <3>1. line = << >>
      BY <1>4 DEF NotBegun
    <3>. QED  BY <3>1 DEF Sets, HasKey
  <2>. QED  BY <1>3, <2>2, <2>3
<1>5. ASSUME NEW i \in b + 1 .. position, HasBegun(b, i)
      PROVE  Said(file, o, m) =
               IF ~line_overflow /\ ~line_comment THEN ParseLine(line)[o] ELSE settings[o]
  <2>1. Begun(file, b, position, i)
    BY <1>5 DEF HasBegun
  <2>2. Len(SubSeq(file, i, position)) = position + 1 - i
    BY <1>1
  <2>3. ASSUME ~LineSets(file, o, position, i)
        PROVE  Said(file, o, m) = settings[o]
    <3>1. SettersOf(file, o, m) =
            SettersOf(file, o, b) \cup (IF LineSets(file, o, position, i) THEN {i} ELSE {})
      BY <1>1, <1>2, <2>1, SettersAdded
    <3>2. SettersOf(file, o, m) = SettersOf(file, o, b)
      BY <2>3, <3>1
    <3>. QED  BY <1>1, <1>2, <3>2, SaidAsBefore
  <2>4. CASE line_overflow \/ line_comment
    <3>1. ~LineSets(file, o, position, i)
      <4>1. line_comment => file[i] \in Comment
        BY <1>5 DEF HasBegun
      <4>2. line_overflow => position + 1 - i >= LineSize
        BY <1>5 DEF HasBegun
      <4>. QED  BY <1>1, <2>2, <2>4, <4>1, <4>2 DEF LineSets
    <3>. QED  BY <2>3, <2>4, <3>1
  <2>5. CASE ~line_overflow /\ ~line_comment
    <3>1. line = SubSeq(file, i, position) /\ file[i] \notin Comment
      BY <1>5, <2>5 DEF HasBegun
    <3>2. Len(line) < LineSize
      BY DEF ConfigTypeOK
    <3>3. LineSets(file, o, position, i) <=> Sets(line, o)
      BY <3>1, <3>2 DEF LineSets
    <3>4. CASE Sets(line, o)
      <4>1. Said(file, o, m) = ValueOf(line, o)
        BY <1>1, <1>2, <2>1, <3>1, <3>3, <3>4, SaidByLine
      <4>. QED  BY <1>3, <2>5, <3>4, <4>1
    <3>5. CASE ~Sets(line, o)
      BY <1>3, <2>3, <2>5, <3>3, <3>5
    <3>. QED  BY <3>4, <3>5
  <2>. QED  BY <2>4, <2>5
<1>. QED  BY <1>4, <1>5 DEF Reached

LEMMA InvStarts == Init => ConfigInv
<1> SUFFICES ASSUME Init  PROVE ConfigInv
  OBVIOUS
<1>1. ConfigTypeOK
  BY TypeStarts
<1>2. pc = "open" /\ position = 0 /\ settings = Defaults
  BY DEF Init
<1>3. CurrentLine(file, 0, position) /\ NotBegun(0)
  BY DEF Init, CurrentLine, NotBegun
<1>4. ASSUME NEW o \in Options  PROVE settings[o] = Said(file, o, 0)
  <2>1. SettersOf(file, o, 0) = {}
    BY DEF SettersOf
  <2>. QED  BY <1>2, <2>1 DEF Said
<1>5. Reached(0) /\ 0 \in 0 .. position
  BY <1>2, <1>3, <1>4 DEF Reached
<1>. QED  BY <1>1, <1>2, <1>5 DEF ConfigInv

(* A token inside the line: the line goes on. *)
LEMMA InLineReached ==
  ASSUME ConfigTypeOK, NEW b \in 0 .. position, Reached(b),
         SkipRest \/ SkipIndent \/ StartComment \/ Store
  PROVE  b \in 0 .. position' /\ Reached(b)'
<1>1. /\ file \in Seq(STRING) /\ position \in Nat /\ position + 1 \in 1 .. Len(file)
      /\ LineSize \in Nat /\ Len(line) \in Nat
  BY ConfigAssumption
  DEF ConfigTypeOK, SkipRest, SkipIndent, StartComment, Store, Storing, InLine, Scan
<1>2. InLine
  BY DEF SkipRest, SkipIndent, StartComment, Store, Storing
<1>3. /\ file' = file /\ position' = position + 1 /\ settings' = settings
      /\ Token \notin EndOfLine /\ Token = file[position + 1]
  BY <1>2 DEF InLine, Scan, Token
<1>4. \A k \in b + 1 .. position + 1 : k \in b + 1 .. position \/ k = position + 1
  BY <1>1
<1>5. CurrentLine(file, b, position)'
  <2>1. CurrentLine(file, b, position + 1)
    BY <1>3, <1>4 DEF Reached, CurrentLine
  <2>. QED  BY <1>3, <2>1 DEF CurrentLine
<1>7. (\A o \in Options : settings[o] = Said(file, o, b))'
  BY <1>3 DEF Reached
<1>8. CASE NotBegun(b)
  <2>1. CASE SkipIndent
    <3>1. NotBegun(b)'
      BY <1>3, <1>4, <1>8, <2>1 DEF SkipIndent, lineState, NotBegun
    <3>. QED  BY <1>1, <1>3, <1>5, <1>7, <3>1 DEF Reached
  <2>2. CASE StartComment \/ Store
    <3>0. PICK i \in b + 1 .. position + 1 : i = position + 1
      BY <1>1
    <3>1. i \in b + 1 .. position' /\ i = position + 1
      BY <1>1, <1>3, <3>0
    <3>2. Begun(file, b, position, i)'
      <4>1. Token \notin Blank
        <5>1. CASE StartComment
          BY <5>1 DEF StartComment, Comment, Blank
        <5>2. CASE Store
          BY <1>8, <5>2 DEF Store, Storing, NotBegun
        <5>. QED  BY <2>2, <5>1, <5>2
      <4>2. \A k \in b + 1 .. position : file[k] \in Blank
        BY <1>8 DEF NotBegun
      <4>. QED  BY <1>1, <1>3, <3>1, <4>1, <4>2 DEF Begun
    <3>3. line_started' /\ (line_comment' <=> file[i] \in Comment)
      <4>1. CASE StartComment
        BY <1>3, <3>1, <4>1 DEF StartComment
      <4>2. CASE Store
        BY <1>3, <1>8, <3>1, <4>2 DEF Store, Storing, NotBegun
      <4>. QED  BY <2>2, <4>1, <4>2
    <3>4. ~line_comment' /\ ~line_overflow' => line' = SubSeq(file, i, position')
      <4>1. CASE StartComment
        BY <4>1 DEF StartComment
      <4>2. CASE Store
        <5>1. line = << >>
          BY <1>8 DEF NotBegun
        <5>2. ~line_overflow' => line' = Append(line, Token)
          BY <4>2 DEF Store
        <5>3. Append(line, Token) = SubSeq(file, i, position')
          BY <1>1, <1>3, <3>1, <5>1
        <5>. QED  BY <5>2, <5>3
      <4>. QED  BY <2>2, <4>1, <4>2
    <3>5. line_overflow' => position' + 1 - i >= LineSize
      <4>1. line = << >> /\ ~line_overflow
        BY <1>8 DEF NotBegun
      <4>2. CASE StartComment
        BY <4>1, <4>2 DEF StartComment
      <4>3. CASE Store
        <5>1. line_overflow' => ~(Len(line) + 1 < LineSize)
          BY <4>1, <4>3 DEF Store
        <5>2. Len(line) = 0
          BY <4>1
        <5>. QED  BY <1>1, <1>3, <3>1, <5>1, <5>2
      <4>. QED  BY <2>2, <4>2, <4>3
    <3>6. HasBegun(b, i)'
      BY <1>3, <3>2, <3>3, <3>4, <3>5 DEF HasBegun
    <3>. QED  BY <1>1, <1>3, <1>5, <1>7, <3>1, <3>6 DEF Reached
  <2>3. CASE SkipRest
    BY <1>8, <2>3 DEF SkipRest, NotBegun
  <2>. QED  BY <2>1, <2>2, <2>3
<1>9. ASSUME NEW i \in b + 1 .. position, HasBegun(b, i)
      PROVE  b \in 0 .. position' /\ Reached(b)'
  <2>1. i \in b + 1 .. position'
    BY <1>1, <1>3
  <2>2. Begun(file, b, position, i)'
    BY <1>3, <1>9, <2>1 DEF HasBegun, Begun
  <2>3. SkipRest \/ Store
    BY <1>9 DEF HasBegun, SkipIndent, StartComment
  <2>4. line_started' /\ (line_comment' <=> file[i] \in Comment)
    <3>1. line_started /\ (line_comment <=> file[i] \in Comment)
      BY <1>9 DEF HasBegun
    <3>2. line_started' /\ line_comment' = line_comment
      <4>1. CASE SkipRest
        BY <3>1, <4>1 DEF SkipRest, lineState
      <4>2. CASE Store
        BY <4>2 DEF Store, Storing
      <4>. QED  BY <2>3, <4>1, <4>2
    <3>. QED  BY <3>1, <3>2
  <2>5. ~line_comment' /\ ~line_overflow' => line' = SubSeq(file, i, position')
    <3>1. CASE SkipRest
      BY <3>1 DEF SkipRest, lineState
    <3>2. CASE Store
      <4>1. line = SubSeq(file, i, position)
        BY <1>9, <3>2 DEF HasBegun, Store, Storing
      <4>2. ~line_overflow' => line' = Append(line, Token)
        BY <3>2 DEF Store
      <4>3. Append(SubSeq(file, i, position), file[position + 1]) = SubSeq(file, i, position + 1)
        BY <1>1
      <4>. QED  BY <1>3, <4>1, <4>2, <4>3
    <3>. QED  BY <2>3, <3>1, <3>2
  <2>6. line_overflow' => position' + 1 - i >= LineSize
    <3>1. CASE line_overflow
      <4>1. position + 1 - i >= LineSize
        BY <1>9, <3>1 DEF HasBegun
      <4>. QED  BY <1>1, <1>3, <4>1
    <3>2. CASE ~line_overflow /\ line_overflow'
      <4>1. Store
        BY <2>3, <3>2 DEF SkipRest, lineState
      <4>2. line = SubSeq(file, i, position) /\ ~(Len(line) + 1 < LineSize)
        BY <1>9, <3>2, <4>1 DEF HasBegun, Store, Storing
      <4>3. Len(SubSeq(file, i, position)) = position + 1 - i
        BY <1>1
      <4>. QED  BY <1>1, <1>3, <4>2, <4>3
    <3>. QED  BY <3>1, <3>2
  <2>7. HasBegun(b, i)'
    BY <1>3, <2>2, <2>4, <2>5, <2>6 DEF HasBegun
  <2>. QED  BY <1>1, <1>3, <1>5, <1>7, <2>1, <2>7 DEF Reached
<1>. QED  BY <1>8, <1>9 DEF Reached

LEMMA InvSteps == ConfigInv /\ [Next]_vars => ConfigInv'
<1> SUFFICES ASSUME ConfigInv, [Next]_vars  PROVE ConfigInv'
  OBVIOUS
<1>1. ConfigTypeOK /\ ConfigTypeOK'
  BY TypeSteps DEF ConfigInv
<1>2. /\ file \in Seq(STRING) /\ Len(file) \in Nat
      /\ filled \in 0 .. Len(file) /\ position \in 0 .. filled
      /\ (pc = "scan" => position < filled)
  BY <1>1, ConfigAssumption DEF ConfigTypeOK
<1>3. ASSUME UNCHANGED <<file, position, lineState, settings>>,
             NEW b \in 0 .. position, Reached(b)
      PROVE  b \in 0 .. position' /\ Reached(b)'
  <2>1. /\ file' = file /\ position' = position /\ line' = line
        /\ line_overflow' = line_overflow /\ line_started' = line_started
        /\ line_comment' = line_comment /\ settings' = settings
    BY <1>3 DEF lineState
  <2>2. CurrentLine(file, b, position)'
    BY <1>3, <2>1 DEF Reached
  <2>3. (\A o \in Options : settings[o] = Said(file, o, b))'
    BY <1>3, <2>1 DEF Reached
  <2>4. NotBegun(b) => NotBegun(b)'
    BY <2>1 DEF NotBegun
  <2>5. ASSUME NEW i \in b + 1 .. position, HasBegun(b, i)  PROVE HasBegun(b, i)'
    BY <2>1, <2>5 DEF HasBegun
  <2>. QED  BY <1>3, <2>1, <2>2, <2>3, <2>4, <2>5 DEF Reached
<1>4. ASSUME Open \/ ReadBlock  PROVE ConfigInv'
  <2>1. PICK b \in 0 .. position : Reached(b)
    BY <1>4 DEF ConfigInv, Open, ReadBlock
  <2>2. UNCHANGED <<file, position, lineState, settings>>
    BY <1>4 DEF Open, ReadBlock
  <2>3. b \in 0 .. position' /\ Reached(b)'
    BY <1>3, <2>1, <2>2
  <2>4. pc' # "open"
    BY <1>4 DEF Open, ReadBlock
  <2>5. ASSUME pc' = "done"
        PROVE  (\A o \in Options : settings[o] = Said(file, o, position))'
    <3>1. Open /\ position = 0 /\ position' = 0
      BY <1>4, <2>2, <2>5 DEF ReadBlock, Open, ConfigInv
    <3>2. b = 0
      BY <3>1
    <3>. QED  BY <2>3, <3>1, <3>2 DEF Reached
  <2>. QED  BY <1>1, <2>3, <2>4, <2>5 DEF ConfigInv
<1>5. CASE Finish
  <2>1. PICK b \in 0 .. position : Reached(b)
    BY <1>5 DEF ConfigInv, Finish
  <2>2. position \in position .. Len(file) /\ Ends(file, position, position)
    BY <1>2 DEF Ends
  <2>3. file' = file /\ position' = position /\ pc' = "done"
    BY <1>5 DEF Finish
  <2>4. ASSUME NEW o \in Options  PROVE settings'[o] = Said(file, o, position)
    <3>1. Said(file, o, position) =
            IF ~line_overflow /\ ~line_comment THEN ParseLine(line)[o] ELSE settings[o]
      BY <1>1, <2>1, <2>2, Applied
    <3>2. line = << >> => ParseLine(line)[o] = settings[o]
      <4>1. line = << >> => ~Sets(line, o)
        BY DEF Sets, HasKey
      <4>. QED  BY <4>1 DEF ParseLine
    <3>3. settings' = IF line # << >> /\ ~line_overflow /\ ~line_comment
                      THEN ParseLine(line) ELSE settings
      BY <1>5 DEF Finish
    <3>. QED  BY <3>1, <3>2, <3>3
  <2>5. (\A o \in Options : settings[o] = Said(file, o, position))'
    BY <2>3, <2>4
  <2>. QED  BY <1>1, <2>3, <2>5 DEF ConfigInv
<1>6. CASE LineEnds
  <2>1. PICK b \in 0 .. position : Reached(b)
    BY <1>6 DEF ConfigInv, LineEnds, Scan
  <2> DEFINE m == position + 1
  <2>2. m \in position .. Len(file) /\ Ends(file, position, m)
    BY <1>2, <1>6 DEF LineEnds, Scan, Token, Ends
  <2>3. file' = file /\ position' = m /\ pc' \in {"read", "scan"} /\ file[m] \in EndOfLine
    BY <1>6 DEF LineEnds, Scan, Token
  <2>4. ASSUME NEW o \in Options  PROVE settings'[o] = Said(file, o, m)
    <3>1. Said(file, o, m) =
            IF ~line_overflow /\ ~line_comment THEN ParseLine(line)[o] ELSE settings[o]
      BY <1>1, <2>1, <2>2, Applied
    <3>2. settings' = IF ~line_overflow /\ ~line_comment THEN ParseLine(line) ELSE settings
      BY <1>6 DEF LineEnds
    <3>. QED  BY <3>1, <3>2
  <2>5. \A o \in Options : settings'[o] = Said(file', o, position')
    BY <2>3, <2>4
  <2> HIDE DEF m
  <2>6. NotBegun(position)'
    <3>1. m \in Int
      BY <1>2 DEF m
    <3>. QED  BY <1>6, <2>3, <3>1 DEF LineEnds, NotBegun
  <2>7. CurrentLine(file, position, position)'
    <3>1. m \in Int
      BY <1>2 DEF m
    <3>. QED  BY <2>3, <3>1 DEF CurrentLine
  <2>8. Reached(position)'
    BY <2>5, <2>6, <2>7 DEF Reached
  <2>9. position' \in 0 .. position'
    BY <1>2, <2>3 DEF m
  <2>. QED  BY <1>1, <2>3, <2>8, <2>9 DEF ConfigInv
<1>7. CASE SkipRest \/ SkipIndent \/ StartComment \/ Store
  <2>1. PICK b \in 0 .. position : Reached(b)
    BY <1>7 DEF ConfigInv, SkipRest, SkipIndent, StartComment, Store, Storing, InLine, Scan
  <2>2. b \in 0 .. position' /\ Reached(b)'
    BY <1>1, <1>7, <2>1, InLineReached
  <2>3. pc' \in {"read", "scan"}
    BY <1>7 DEF SkipRest, SkipIndent, StartComment, Store, Storing, InLine, Scan
  <2>. QED  BY <1>1, <2>2, <2>3 DEF ConfigInv
<1>8. CASE UNCHANGED vars
  <2>1. UNCHANGED <<file, position, lineState, settings>> /\ pc' = pc
    BY <1>8 DEF vars, lineState
  <2>2. pc # "done" => \E b \in 0 .. position' : Reached(b)'
    BY <1>3, <2>1 DEF ConfigInv
  <2>3. pc = "done" => (\A o \in Options : settings[o] = Said(file, o, position))'
    BY <2>1 DEF ConfigInv
  <2>. QED  BY <1>1, <2>1, <2>2, <2>3 DEF ConfigInv
<1>. QED  BY <1>4, <1>5, <1>6, <1>7, <1>8 DEF Next

(* Whatever the file, the block size and the line size: once the loader is
   done, every setting is what the last valid line for it says, and the
   default where there is none; LoadsEveryLine of the run, for every file
   (serial_pc98.c:131-168). *)
THEOREM LoadsWhatTheFileSays == Spec => []LoadsEveryLine
<1>1. ConfigInv => LoadsEveryLine
  BY DEF ConfigInv, LoadsEveryLine
<1>. QED  BY <1>1, InvStarts, InvSteps, PTL DEF Spec

=============================================================================
