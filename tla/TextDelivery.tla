---------------------------- MODULE TextDelivery ----------------------------
(***************************************************************************)
(* What the bridge promises the person typing at it: an input sent from    *)
(* Windows enters the keyboard queue of the PC-98 once at most, it enters  *)
(* only after it was sent, and nothing else ever comes in this way.        *)
(* Inputs are numbered in the order they are sent; one may get lost.       *)
(***************************************************************************)
EXTENDS Naturals, Sequences

CONSTANT Inputs  \* what there is to send

VARIABLES
  sent,       \* the inputs the host put on the wire, in order
  delivered   \* the numbers of those that entered the queue, in order

Entered == {delivered[i] : i \in DOMAIN delivered}

SendInput == \E x \in Inputs : sent' = Append(sent, x) /\ UNCHANGED delivered

DeliverInput ==
  \E n \in DOMAIN sent \ Entered :
    /\ delivered' = Append(delivered, n)
    /\ UNCHANGED sent

Init == sent = << >> /\ delivered = << >>

Next == SendInput \/ DeliverInput

Spec == Init /\ [][Next]_<<sent, delivered>>

=============================================================================
