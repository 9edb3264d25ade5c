------------------------------ MODULE KeyWords ------------------------------
(***************************************************************************)
(* How a received text becomes key words of the PC-98 BIOS, as the TSR and *)
(* the foreground client both do it (inject_bios_pc98.c).                  *)
(***************************************************************************)
EXTENDS Integers, Sequences

CR == 13
LF == 10
BS == 8
TAB == 9

(* CR LF is one unit, every other byte is its own. *)
MergesLF(text, i) == text[i] = CR /\ i < Len(text) /\ text[i + 1] = LF

(* pc98_bios_encode_key: the word of the unit at byte i (Escape has no scan
   code) ... *)
WordAt(text, i) ==
  CASE text[i] \in {CR, LF} -> 7181
    [] text[i] = BS         -> 14 * 256 + BS
    [] text[i] = TAB        -> 15 * 256 + TAB
    [] OTHER                -> text[i]

(* Fault for the checks: the LF of a CR LF is not skipped. *)
UnitEndNoMerge(text, i) == i

(* ... and the last byte of that unit. *)
UnitEnd(text, i) == IF MergesLF(text, i) THEN i + 1 ELSE i

(* Where a word of the text starts: at every byte that is not the LF of a
   CR LF.  normalized_length counts these. *)
UnitStarts(text) ==
  {i \in 1 .. Len(text) : ~(i > 1 /\ text[i] = LF /\ text[i - 1] = CR)}

(* The positions queued so far are the units of the text up to the offset,
   each once and in order. *)
QueuedInOrder(text, offset, queued) ==
  /\ \A m, n \in DOMAIN queued : m < n => queued[m] < queued[n]
  /\ {queued[n] : n \in DOMAIN queued} = {i \in UnitStarts(text) : i <= offset}
  /\ offset = Len(text) \/ offset + 1 \in UnitStarts(text)

=============================================================================
