---------------------------- MODULE ConfigLoader ----------------------------
(***************************************************************************)
(* pc98_serial_load_config (dos/pc98/serial_pc98.c): IME98.CFG is read in  *)
(* blocks into a small buffer, cut into lines on the fly and applied line  *)
(* by line.  TSR and foreground client call it before anything else.       *)
(*                                                                         *)
(* A file is a sequence of tokens; a key name, a hotkey name and any other *)
(* character are one token each, digits of either case are the same token. *)
(***************************************************************************)
EXTENDS Integers, Sequences

CONSTANTS
  Files,      \* the contents IME98.CFG may have
  ReadSize,   \* PC98_CONFIG_READ_SIZE, 64
  LineSize    \* PC98_CONFIG_LINE_SIZE, 128, with the closing NUL

ASSUME ConfigAssumption ==
  /\ Files \subseteq Seq(STRING)
  /\ ReadSize \in Nat \ {0}
  /\ LineSize \in Nat \ {0}

VARIABLES
  pc,            \* "open", "read" the next block, "scan" it, "done"
  file,          \* what IME98.CFG contains
  position,      \* tokens scanned
  filled,        \* tokens read: file[position + 1 .. filled] is in the buffer
  line, line_overflow, line_started, line_comment,
  settings       \* the six variables the file can change

vars == <<pc, file, position, filled, line, line_overflow, line_started,
          line_comment, settings>>

lineState == <<line, line_overflow, line_started, line_comment>>

EndOfLine == {"CR", "LF"}
Blank == {"SP", "TAB"}
Comment == {";", "#"}
Hex == <<"0", "1", "2", "3", "4", "5", "6", "7",
         "8", "9", "A", "B", "C", "D", "E", "F">>
Digit == {Hex[i] : i \in 1 .. 16}

ModifierOf == [h \in {"SHIFT+SPACE", "GRAPH+SPACE", "CTRL+SPACE"} |->
                 CASE h = "SHIFT+SPACE" -> 1
                   [] h = "GRAPH+SPACE" -> 8
                   [] h = "CTRL+SPACE" -> 16]

Defaults == [DATA_PORT |-> 48, STATUS_PORT |-> 50, MODE |-> 2, COMMAND |-> 39,
             TIMER_COUNT |-> 8, HOTKEY |-> 1]

Options == DOMAIN Defaults

-----------------------------------------------------------------------------
(* parse_config_line *)

(* Length of the longest prefix of s whose members are all in S. *)
Span(s, S) ==
  CHOOSE n \in 0 .. Len(s) :
    (\A i \in 1 .. n : s[i] \in S) /\ (n = Len(s) \/ s[n + 1] \notin S)

Drop(s, n) == SubSeq(s, n + 1, Len(s))

SkipBlanks(s) == Drop(s, Span(s, Blank))

(* The digits parse_hex takes: four at most, behind blanks and 0x. *)
HexDigits(s) ==
  LET t == SkipBlanks(s)
      u == IF Len(t) >= 2 /\ t[1] = "0" /\ t[2] = "x" THEN Drop(t, 2) ELSE t
      n == Span(u, Digit)
  IN SubSeq(u, 1, IF n > 4 THEN 4 ELSE n)

DigitValue(d) == (CHOOSE i \in 1 .. 16 : Hex[i] = d) - 1

(* What shifting in one digit after the other makes of at most four. *)
HexValue(s) ==
  LET part(k, weight) ==
        IF k <= Len(s) THEN weight * DigitValue(s[Len(s) + 1 - k]) ELSE 0
  IN part(1, 1) + part(2, 16) + part(3, 256) + part(4, 4096)

(* config_value: the name, blanks behind it, nothing else. *)
IsValue(s, name) ==
  s # << >> /\ s[1] = name /\ \A i \in 2 .. Len(s) : s[i] \in Blank

HasKey(s, option) == Len(s) >= 2 /\ s[1] = option /\ s[2] = "="

Sets(s, option) ==
  /\ HasKey(s, option)
  /\ IF option = "HOTKEY"
       THEN \E h \in DOMAIN ModifierOf : IsValue(SkipBlanks(Drop(s, 2)), h)
       ELSE HexDigits(Drop(s, 2)) # << >>

(* MODE and COMMAND are stored in a byte. *)
ValueOf(s, option) ==
  LET v == Drop(s, 2) IN
  CASE option = "HOTKEY" -> ModifierOf[SkipBlanks(v)[1]]
    [] option \in {"MODE", "COMMAND"} -> HexValue(HexDigits(v)) % 256
    [] OTHER -> HexValue(HexDigits(v))

ParseLine(s) ==
  [o \in Options |-> IF Sets(s, o) THEN ValueOf(s, o) ELSE settings[o]]

-----------------------------------------------------------------------------
(* pc98_serial_load_config *)

Init ==
  /\ pc = "open"
  /\ file \in Files
  /\ position = 0 /\ filled = 0
  /\ line = << >>
  /\ line_overflow = FALSE /\ line_started = FALSE /\ line_comment = FALSE
  /\ settings = Defaults

Open ==
  /\ pc = "open"
  /\ pc' \in {"read", "done"}
  /\ UNCHANGED <<file, position, filled, lineState, settings>>

(* dos_read fills the buffer as far as the file goes. *)
ReadBlock ==
  /\ pc = "read"
  /\ filled < Len(file)
  /\ filled' = (IF filled + ReadSize < Len(file) THEN filled + ReadSize ELSE Len(file))
  /\ pc' = "scan"
  /\ UNCHANGED <<file, position, lineState, settings>>

(* Fault for the checks: a last line without a line end is forgotten. *)
FinishWithoutLast ==
  /\ pc = "read"
  /\ UNCHANGED settings
  /\ pc' = "done"
  /\ UNCHANGED <<file, position, filled, lineState>>

(* Nothing read, by the end of the file or by an error: what is in the line
   buffer counts as the last line. *)
Finish ==
  /\ pc = "read"
  /\ settings' = (IF line # << >> /\ ~line_overflow /\ ~line_comment
                  THEN ParseLine(line) ELSE settings)
  /\ pc' = "done"
  /\ UNCHANGED <<file, position, filled, lineState>>

(* The next token is scanned; behind the last of the buffer comes a read. *)
Token == file[position + 1]

Scan ==
  /\ pc = "scan"
  /\ position' = position + 1
  /\ pc' = (IF position + 1 = filled THEN "read" ELSE "scan")
  /\ UNCHANGED <<file, filled>>

LineEnds ==
  /\ Scan
  /\ Token \in EndOfLine
  /\ settings' = (IF ~line_overflow /\ ~line_comment THEN ParseLine(line) ELSE settings)
  /\ line' = << >>
  /\ line_overflow' = FALSE /\ line_started' = FALSE /\ line_comment' = FALSE

InLine == Scan /\ Token \notin EndOfLine /\ UNCHANGED settings

SkipRest ==
  /\ InLine
  /\ line_overflow \/ line_comment
  /\ UNCHANGED lineState

SkipIndent ==
  /\ InLine
  /\ ~line_overflow /\ ~line_comment /\ ~line_started
  /\ Token \in Blank
  /\ UNCHANGED lineState

StartComment ==
  /\ InLine
  /\ ~line_overflow /\ ~line_comment /\ ~line_started
  /\ Token \in Comment
  /\ line_started' = TRUE /\ line_comment' = TRUE
  /\ UNCHANGED <<line, line_overflow>>

Storing ==
  /\ InLine
  /\ ~line_overflow /\ ~line_comment
  /\ line_started \/ Token \notin Blank \cup Comment
  /\ line_started' = TRUE
  /\ UNCHANGED line_comment

(* Fault for the checks: the place of the closing NUL is taken. *)
StoreInLast ==
  /\ Storing
  /\ IF Len(line) < LineSize
       THEN line' = Append(line, Token) /\ UNCHANGED line_overflow
       ELSE line_overflow' = TRUE /\ UNCHANGED line

Store ==
  /\ Storing
  /\ IF Len(line) + 1 < LineSize
       THEN line' = Append(line, Token) /\ UNCHANGED line_overflow
       ELSE line_overflow' = TRUE /\ UNCHANGED line

Next ==
  \/ Open \/ ReadBlock \/ Finish \/ LineEnds
  \/ SkipRest \/ SkipIndent \/ StartComment \/ Store

Spec == Init /\ [][Next]_vars

-----------------------------------------------------------------------------
(* What a file f says, without looking at blocks, buffers or flags *)

(* A line begins at i: only blanks stand between i and the line end, or the
   beginning of the file, before it. *)
BeginsAt(f, i) ==
  /\ f[i] \notin EndOfLine \cup Blank
  /\ \E e \in 0 .. i - 1 :
       /\ e = 0 \/ f[e] \in EndOfLine
       /\ \A k \in e + 1 .. i - 1 : f[k] \in Blank

(* The last place of the line at i, of the first n tokens. *)
IsLast(f, i, n, j) ==
  /\ \A k \in i .. j : f[k] \notin EndOfLine
  /\ j = n \/ f[j + 1] \in EndOfLine

LineAt(f, i, n) == SubSeq(f, i, CHOOSE j \in i .. n : IsLast(f, i, n, j))

(* A line at i, within the first n tokens, that sets the option. *)
SetsAt(f, option, n, i) ==
  /\ BeginsAt(f, i)
  /\ f[i] \notin Comment
  /\ Len(LineAt(f, i, n)) < LineSize
  /\ Sets(LineAt(f, i, n), option)

SettersOf(f, option, n) == {i \in 1 .. n : SetsAt(f, option, n, i)}

(* The last of them counts. *)
Counts(setters) == CHOOSE i \in setters : \A j \in setters : j <= i

Said(f, option, n) ==
  LET setters == SettersOf(f, option, n)
  IN IF setters = {} THEN Defaults[option]
     ELSE ValueOf(LineAt(f, Counts(setters), n), option)

-----------------------------------------------------------------------------
(* Properties *)

MaxWord == 65535  \* unsigned short

ConfigTypeOK ==
  /\ pc \in {"open", "read", "scan", "done"}
  /\ file \in Files
  /\ filled \in 0 .. Len(file)
  /\ position \in 0 .. filled
  /\ pc \in {"open", "read"} => position = filled
  /\ pc = "scan" => position < filled
  /\ line \in Seq(STRING) /\ Len(line) < LineSize
  /\ line_overflow \in BOOLEAN /\ line_started \in BOOLEAN /\ line_comment \in BOOLEAN
  /\ settings \in [Options -> 0 .. MaxWord]

(* Whatever the file contains and however its lines lie in the blocks of 64
   bytes, the settings are those of the last valid line for each option, a
   line of 128 bytes or more counting as none; and a file of which only a
   beginning could be read counts as if it ended there
   (serial_pc98.c:131-168). *)
LoadsEveryLine ==
  pc = "done" => \A o \in Options : settings[o] = Said(file, o, position)

=============================================================================
