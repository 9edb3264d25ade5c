--------------------------- MODULE MCConfigLoader ---------------------------
(* Files of two pieces and possibly a third, each piece with or without a   *)
(* line end behind it; blocks of three tokens, lines of up to six.          *)
EXTENDS ConfigLoader

Pieces ==
  { << >>,
    <<"MODE", "=", "4", "E">>,
    <<"SP", "MODE", "=", "TAB", "0", "x", "F">>,
    <<"DATA_PORT", "=", "1", "3", "0">>,
    <<"DATA_PORT", "=", "G">>,
    <<"HOTKEY", "=", "SP", "CTRL+SPACE", "SP">>,
    <<"HOTKEY", "=", "CTRL+SPACE", "X">>,
    <<"SP", ";", "MODE", "=", "1">>,
    <<"COMMAND", "=", "1", "2", "3", "4", "5">>,
    <<"SP", "#", "SP">> }

MCFiles ==
  {p \o t \o q \o u : p, q \in Pieces, t \in {<<"LF">>, <<"SP">>}, u \in {<< >>, <<"CR", "LF">>}}
  \cup {p \o <<"CR", "LF">> \o q \o <<"LF">> \o r :
          p, q, r \in {<<"MODE", "=", "4", "E">>, <<"HOTKEY", "=", "GRAPH+SPACE">>,
                       <<"MODE", "=", "0", "x", "2", "7">>, <<"#">>}}

=============================================================================
