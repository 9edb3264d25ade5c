------------------------------- MODULE Framing -------------------------------
(***************************************************************************)
(* The three readers of the packet stream: accept_byte of the TSR, behind  *)
(* its receive ring, read_packet of the foreground client (main.c) and     *)
(* ReadPacketAsync of the Windows bridge.  All three are given the same    *)
(* bytes: whole packets, noise between them, and a packet cut off by a     *)
(* transmit timeout.                                                       *)
(*                                                                         *)
(* Byte values matter only as magic bytes, version and length; type and    *)
(* sequence are part of the header and looked at by nobody here.           *)
(***************************************************************************)
EXTENDS ReceiveRing, FiniteSets

CONSTANTS
  Inputs,        \* streams, and where the packets and the fragments are in them
  HeaderSize,    \* 8, the last of them the length
  MaxPayload,    \* IME_MAX_PAYLOAD, 512
  Crc(_)         \* checksum of a byte sequence, one value

Magic0 == 73
Magic1 == 68
Version == 1

VARIABLES
  input,        \* what the stream is made of
  rx_packet,    \* accept_byte: the bytes of a packet so far
  handled,      \* packets handle_packet parsed
  client_rx, client_read,   \* the same for read_packet and its caller
  host_rx, host_read,       \* ... and for ReadPacketAsync
  host_up                   \* FALSE after InvalidDataException

readers == <<input, rx_packet, handled, client_rx, client_read, host_rx, host_read, host_up>>
framingVars == <<receiveVars, readers>>

-----------------------------------------------------------------------------
(* ime_packet_build and ime_packet_parse; Packet.Encode and Packet.Decode *)

Overhead == HeaderSize + 1

Build(fields, payload) ==
  LET body == <<Magic0, Magic1, Version>> \o fields \o <<Len(payload)>> \o payload
  IN body \o <<Crc(body)>>

LengthIn(packet) == packet[HeaderSize]

Parses(packet) ==
  /\ Len(packet) >= Overhead
  /\ packet[1] = Magic0 /\ packet[2] = Magic1 /\ packet[3] = Version
  /\ LengthIn(packet) <= MaxPayload
  /\ Len(packet) = Overhead + LengthIn(packet)
  /\ packet[Len(packet)] = Crc(SubSeq(packet, 1, Len(packet) - 1))

(* What of a stream is a packet, and what a packet cut off by a transmit
   timeout; the rest is noise. *)
Spans == [first : Nat \ {0}, last : Nat]

ASSUME FramingAssumption ==
  /\ HeaderSize \in Nat /\ HeaderSize > 3
  /\ MaxPayload \in Nat
  /\ Streams = {in.bytes : in \in Inputs}
  /\ \A in \in Inputs :
       /\ in.packets \subseteq Spans /\ in.fragments \subseteq Spans
       /\ \A s \in in.packets \cup in.fragments :
            /\ s.first <= s.last /\ s.last <= Len(in.bytes)
            /\ \A r \in in.packets \cup in.fragments :
                 r = s \/ r.last < s.first \/ s.last < r.first
       /\ \A p \in in.packets : Parses(SubSeq(in.bytes, p.first, p.last))
       /\ \A f \in in.fragments :
            /\ in.bytes[f.first] = Magic0
            /\ f.first < f.last => in.bytes[f.first + 1] = Magic1

-----------------------------------------------------------------------------
(* One byte for a reader that has collected rx.  The readers differ in what
   a byte that is not Magic1 behind a Magic0 means. *)

Collect(rx, byte, afterMagic0) ==
  CASE Len(rx) = 0 -> IF byte = Magic0 THEN <<byte>> ELSE << >>
    [] Len(rx) = 1 /\ byte # Magic1 -> afterMagic0
    [] OTHER -> Append(rx, byte)

Oversize(rx) == Len(rx) = HeaderSize /\ LengthIn(rx) > MaxPayload

Complete(rx) == Len(rx) >= HeaderSize /\ Len(rx) = Overhead + LengthIn(rx)

Rest(rx) == IF Oversize(rx) \/ Complete(rx) THEN << >> ELSE rx

(* A complete packet is handed on if it parses. *)
Deliver(rx, list) == IF Complete(rx) /\ Parses(rx) THEN Append(list, rx) ELSE list

(* Fault for the checks: the byte behind a stray magic byte is forgotten. *)
AcceptByteForgets(byte) ==
  LET rx == Collect(rx_packet, byte, << >>)
  IN rx_packet' = Rest(rx) /\ handled' = Deliver(rx, handled)

(* accept_byte: a second Magic0 is taken for the first one. *)
AcceptByte(byte) ==
  LET rx == Collect(rx_packet, byte, IF byte = Magic0 THEN <<byte>> ELSE << >>)
  IN rx_packet' = Rest(rx) /\ handled' = Deliver(rx, handled)

(* Fault for the checks: a magic byte starts a packet wherever it stands. *)
ClientByteRestarts(byte) ==
  LET rx == IF byte = Magic0 THEN <<byte>> ELSE Collect(client_rx, byte, << >>)
  IN client_rx' = Rest(rx) /\ client_read' = Deliver(rx, client_read)

(* read_packet: it returns on an oversized or a complete packet and is
   called again; the caller parses. *)
ClientByte(byte) ==
  LET rx == Collect(client_rx, byte, << >>)
  IN client_rx' = Rest(rx) /\ client_read' = Deliver(rx, client_read)

(* Fault for the checks: a bad CRC is skipped over. *)
HostByteKeepsUp(byte) ==
  LET rx == Collect(host_rx, byte, << >>)
  IN /\ host_rx' = Rest(rx)
     /\ host_read' = Deliver(rx, host_read)
     /\ host_up' = ~Oversize(rx)

(* ReadPacketAsync: an oversized packet or one that does not decode ends
   the connection. *)
HostByte(byte) ==
  LET rx == Collect(host_rx, byte, << >>)
  IN /\ host_rx' = Rest(rx)
     /\ host_read' = Deliver(rx, host_read)
     /\ host_up' = ~(Oversize(rx) \/ (Complete(rx) /\ ~Parses(rx)))

-----------------------------------------------------------------------------

FramingInit ==
  /\ RingInit
  /\ input \in Inputs
  /\ stream = input.bytes
  /\ rx_packet = << >> /\ handled = << >>
  /\ client_rx = << >> /\ client_read = << >>
  /\ host_rx = << >> /\ host_read = << >> /\ host_up = TRUE

(* A byte comes; the client and the bridge read it when it does. *)
ByteComes ==
  /\ Arrive
  /\ ClientByte(stream[arrived'])
  /\ IF host_up THEN HostByte(stream[arrived'])
                ELSE UNCHANGED <<host_rx, host_read, host_up>>
  /\ UNCHANGED <<input, rx_packet, handled>>

TsrPolls ==
  /\ PollRing \/ PollDirect
  /\ AcceptByte(PolledByte)
  /\ UNCHANGED <<input, client_rx, client_read, host_rx, host_read, host_up>>

TsrReceives ==
  /\ ReceiveIrq \/ WorkerCall \/ PollEnd
  /\ UNCHANGED readers

FramingNext == ByteComes \/ TsrPolls \/ TsrReceives

FramingSpec == FramingInit /\ [][FramingNext]_framingVars

-----------------------------------------------------------------------------
(* Properties.  The first operators are about a stream, what is left of it
   when n bytes have come, and packets in it. *)

(* The list holds exactly these packets, in the order of the stream. *)
Reads(bytes, list, packets) ==
  /\ Len(list) = Cardinality(packets)
  /\ \A p \in packets :
       list[Cardinality({q \in packets : q.first <= p.first})] = SubSeq(bytes, p.first, p.last)

BegunAt(n, packets) == {p \in packets : p.first <= n}

EndedAt(n, packets) == {p \in packets : p.last <= n}

Inside(n, packets) == \E p \in packets : p.first <= n /\ n <= p.last

MagicAt(bytes, n) ==
  n + 1 \in DOMAIN bytes /\ bytes[n] = Magic0 /\ bytes[n + 1] = Magic1

(* "Receivers frame packets ... and resynchronize on the next valid magic
   sequence" (docs/protocol.md:3-4): the TSR handles every whole packet as
   soon as it is complete, in order, behind whatever noise that has no magic
   sequence in it, and nothing else; its receive ring takes nothing away
   (foreground.c:188-232). *)
TsrResynchronizes ==
  (\A n \in DOMAIN stream : MagicAt(stream, n) => Inside(n, input.packets)) =>
    Reads(stream, handled, EndedAt(accepted, input.packets))

(* The magic sequence stands nowhere but at the beginning of packets. *)
Plain ==
  \A n \in DOMAIN stream : MagicAt(stream, n) => \E p \in input.packets : p.first = n

(* The same of the client and the bridge, as docs/protocol.md:3-4 has it of
   all receivers.  Refuted: both drop the byte behind a stray magic byte
   without looking whether it is a magic byte itself, and with it the packet
   it begins (main.c:142-147, BridgeForm.cs:549-555). *)
ReadersResynchronize ==
  Plain =>
    LET ended == EndedAt(arrived, input.packets)
    IN Reads(stream, client_read, ended) /\ Reads(stream, host_read, ended)

(* From where on there is nothing but Magic0 up to n, outside of these
   packets. *)
StrayRun(bytes, n, packets) ==
  {m \in 1 .. n : \A i \in m .. n : bytes[i] = Magic0 /\ ~Inside(i, packets)}

(* An odd number of stray Magic0 in a row ends at n. *)
Armed(bytes, n, packets) == Cardinality(StrayRun(bytes, n, packets)) % 2 = 1

(* Of the packets begun, those that are not read: an odd number of stray
   Magic0 is in front of each, be they noise or the end of a packet that is
   itself not read. *)
AreMissed(bytes, missed, begun) ==
  /\ missed \subseteq begun
  /\ \A p \in begun : p \in missed <=> Armed(bytes, p.first - 1, begun \ missed)

(* How much the client and the bridge lose by it, against that document: a
   stray magic byte costs them the packet right behind it, and the next one
   only if the missed packet ends in a magic byte; every other packet is
   read, and the bridge keeps its connection. *)
StrayMagicCosts ==
  LET begun == BegunAt(arrived, input.packets)
  IN Plain =>
       /\ \E missed \in SUBSET begun :
            /\ AreMissed(stream, missed, begun)
            /\ Reads(stream, client_read, EndedAt(arrived, begun \ missed))
       /\ host_read = client_read
       /\ host_up

(* The piece follows whole packets, and nothing that begins with it has a
   good CRC. *)
Spoils(fragment) ==
  /\ \A n \in 1 .. fragment.first - 1 : Inside(n, input.packets)
  /\ \A n \in DOMAIN stream : ~Parses(SubSeq(stream, fragment.first, n))

(* A packet cut off by a transmit timeout behind its magic bytes: the bridge
   gets every packet before it and nothing behind it, because the connection
   ended or because it waits for bytes a wrong length promised
   (BridgeForm.cs:546-563).  Cut off behind its first byte it is a stray
   magic byte. *)
FragmentCosts ==
  \A f \in input.fragments :
    f.first < f.last /\ Spoils(f) =>
      /\ Reads(stream, host_read,
               {p \in input.packets : p.last <= arrived /\ p.last < f.first})
      /\ arrived > f.first => ~host_up \/ Len(host_rx) > 1

=============================================================================
