------------------------- MODULE MCForegroundClient -------------------------
(* Two runs of the client in a row, two HELLO attempts each, a queue of two *)
(* words, one key typed at the PC-98 and one fault of the line.  Of the     *)
(* texts one is a single unit of two bytes, one fills the queue, and one is *)
(* longer than the capacity the client announces.                           *)
EXTENDS ForegroundClient

MCNoText == << >>

MCTexts == {<<CR, LF>>, <<101, 102>>, <<101, 102, 103>>}

=============================================================================
