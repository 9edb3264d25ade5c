----------------------------- MODULE BridgeLine -----------------------------
(***************************************************************************)
(* The bridge of BridgeHost.tla and its end of the COM1 line: packets and  *)
(* pieces of packets on their way to it, and a connection that may break   *)
(* and come back.  The other end is the TSR (BridgeSystem) or the          *)
(* foreground client (ForegroundClient).                                   *)
(***************************************************************************)
EXTENDS BridgeHost

CONSTANT MaxFaults  \* bound on broken connections and transmit timeouts

VARIABLES
  toHost,  \* packets on their way to the bridge
  faults   \* faults so far

lineVars == <<hostVars, toHost, faults>>

(* A packet of which a transmit timeout cut off the end. *)
Broken == Message("BROKEN", 0, << >>)

LineInit ==
  /\ HostInit
  /\ toHost = << >>
  /\ faults = 0

(* What the PC-98 puts on the line is lost while no bridge listens. *)
Carry(packets) == toHost' = (IF stream = "up" THEN toHost \o packets ELSE toHost)

(* Transmit timeouts are counted as faults. *)
CountBroken(packets) ==
  IF packets = <<Broken>>
  THEN faults < MaxFaults /\ faults' = faults + 1
  ELSE UNCHANGED faults

(* The bytes in flight go with the connection: everything for the host, and
   on the way to the PC-98 whatever the emulator has not read yet. *)
LineLoss ==
  /\ toHost' = << >>
  /\ \E n \in 0 .. Len(toDos) : toDos' = SubSeq(toDos, 1, n)

Serves ==
  /\ toHost # << >>
  /\ Head(toHost) # Broken
  /\ Receive(Head(toHost))
  /\ toHost' = Tail(toHost)
  /\ UNCHANGED faults

(* A piece of a packet: nothing of it got out, or the reader takes its bytes
   together with those behind it and skips packets as well (StrayMagicCosts
   of Framing.tla says how many) ... *)
SkipsFragment ==
  /\ stream = "up"
  /\ toHost # << >> /\ Head(toHost) = Broken
  /\ \E n \in 1 .. Len(toHost) : toHost' = SubSeq(toHost, n + 1, Len(toHost))
  /\ UNCHANGED <<hostVars, faults>>

(* ... or finds a bad CRC or length there, which ends the connection. *)
RejectsFragment ==
  /\ stream = "up"
  /\ Len(toHost) > 1 /\ Head(toHost) = Broken
  /\ ServeEnd
  /\ LineLoss
  /\ UNCHANGED faults

Connects == Connect /\ UNCHANGED <<toHost, faults>>

(* The pipe or socket breaks; ServeAsync finds out at its next read. *)
Breaks ==
  /\ faults < MaxFaults
  /\ stream = "up"
  /\ stream' = "broken"
  /\ LineLoss
  /\ faults' = faults + 1
  /\ UNCHANGED <<openSequence, imeReady, targetMaxTextBytes, input>>

NoticesBreak ==
  /\ stream = "broken"
  /\ ServeEnd
  /\ UNCHANGED <<toDos, toHost, faults>>

=============================================================================
