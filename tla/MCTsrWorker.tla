---------------------------- MODULE MCTsrWorker ----------------------------
(* The worker against any host that answers an OPEN_IME with one TEXT or   *)
(* KEY at most: packets of every kind and sequence number, of this session *)
(* or another, at any receive poll.  A text of three units with a CR LF    *)
(* meets a queue of two words and batches of two.                          *)
EXTENDS TsrWorker

MCTexts == {<<97, CR, LF, 98>>}

MCPackets ==
  UNION {
    [type : {"PONG"}, seq : {1}, data : {<< >>}],
    [type : {"TEXT"}, seq : SeqNums, data : MCTexts],
    [type : {"KEY"}, seq : SeqNums, data : {<<1>>, <<9>>}],
    [type : {"CLOSE_IME"}, seq : SeqNums, data : {<< >>}] }

MCUserWords == {Space}

MCInitialMasks == {{"com1"}}

MCTxOutcomes == {TRUE, FALSE}

=============================================================================
