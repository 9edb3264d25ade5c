----------------------------- MODULE MCLifecycle ------------------------------
(* Two images of the TSR and one other resident program that hooks either  *)
(* vector or both: each may be above, below or between the others.         *)
EXTENDS Lifecycle

=============================================================================
