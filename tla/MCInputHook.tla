---------------------------- MODULE MCInputHook -----------------------------
(* One application, a queue of two words, one text of two words that is    *)
(* answered, any order of key strokes, receive interrupts and calls.       *)
EXTENDS InputHook

MCPackets ==
  UNION {
    [type : {"PONG"}, seq : {0}, data : {<< >>}],
    [type : {"TEXT"}, seq : SeqNums, data : {<<97, 98, 99>>}],
    [type : {"CLOSE_IME"}, seq : SeqNums, data : {<< >>}] }

MCUserWords == {Space}

MCInitialMasks == {{"com1"}}

MCTxOutcomes == {TRUE}

MCAllCalls == {0, 1, 5}

MCBlockingCalls == {0}

=============================================================================
