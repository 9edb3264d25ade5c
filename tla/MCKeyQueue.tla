----------------------------- MODULE MCKeyQueue -----------------------------
(* A three-slot ring with two letters and the Space word: every position  *)
(* of head and tail, full and empty, and wrap-around in both directions.  *)
EXTENDS KeyQueue

MCWords == {"a", "b", "sp"}
MCSpaceWords == {"sp"}

=============================================================================
