--------------------------- MODULE MCBridgeSystem ---------------------------
(* One bridge, one TSR, a text of two words and a key to send, three       *)
(* strokes at the PC-98 and one fault.  With two words, batches of one and *)
(* a limit of two calls a text is injected whole within its session, or    *)
(* cut off by the timeout.  Sequence numbers do not wrap around.           *)
EXTENDS BridgeSystem

MCTexts == {<<101, 102>>}

MCPackets ==
  UNION {
    [type : {"PONG", "CLOSE_IME"}, seq : SeqNums, data : {<< >>}],
    [type : {"TEXT"}, seq : SeqNums, data : MCTexts],
    [type : {"KEY"}, seq : SeqNums, data : {<<1>>}] }

MCLetter == {120}

MCNoLetter == {}

MCInitialMasks == {{"com1"}}

MCNoFaultyTx == {TRUE}

MCFaultyTx == {TRUE, FALSE}

TextThenKey ==
  << [type |-> "TEXT", data |-> <<101, 102>>], [type |-> "KEY", data |-> <<1>>] >>

MCNoText == << >>

=============================================================================
