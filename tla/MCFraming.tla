------------------------------ MODULE MCFraming ------------------------------
(* Headers of six bytes, up to three packets, noise in front of any of them *)
(* or a packet cut off at any byte; a ring of two slots.                    *)
EXTENDS Framing

Checksum(bytes) ==
  LET sum[k \in 0 .. Len(bytes)] ==
        IF k = 0 THEN 0 ELSE (sum[k - 1] + k * bytes[k]) % 251
  IN sum[Len(bytes)]

(* A stream from its pieces. *)
Input(pieces) ==
  LET upto[k \in 0 .. Len(pieces)] ==
        IF k = 0 THEN << >> ELSE upto[k - 1] \o pieces[k].bytes
      SpansOf(kind) ==
        {[first |-> Len(upto[k - 1]) + 1, last |-> Len(upto[k])] :
           k \in {i \in DOMAIN pieces : pieces[i].kind = kind}}
  IN [bytes |-> upto[Len(pieces)],
      packets |-> SpansOf("packet"), fragments |-> SpansOf("fragment")]

Packet(bytes) == [kind |-> "packet", bytes |-> bytes]

First == Build(<<4, 1>>, << >>)
Second == Build(<<9, 2>>, <<7>>)
Third == Build(<<8, 1>>, << >>)
WithMagic == Build(<<5, 1>>, <<73, 68>>)
EndsInMagic == Build(<<3, 20>>, << >>)

NoiseOf(bytes) == [kind |-> "noise", bytes |-> bytes]

Noise == {NoiseOf(b) : b \in {<<73>>, <<68>>, <<73, 73>>, <<73, 7>>, <<7, 73, 73, 73>>}}

Cut(packet, n) == [kind |-> "fragment", bytes |-> SubSeq(packet, 1, n)]

Fragments == {Cut(First, n) : n \in 1 .. 6} \cup {Cut(Second, n) : n \in 6 .. 7}

MCInputs ==
  {Input(pieces) : pieces \in
     {<<n, Packet(First), NoiseOf(<<73>>), Packet(Second)>> : n \in Noise}
     \cup {<<Packet(WithMagic), n, Packet(First)>> : n \in Noise}
     \cup {<<n, Packet(EndsInMagic), Packet(First), Packet(Second)>> : n \in Noise}
     \cup {<<Packet(Third), f, Packet(First), Packet(Second)>> : f \in Fragments}
     \cup {<<f, Packet(Second)>> : f \in Fragments}}

MCStreams == {in.bytes : in \in MCInputs}

=============================================================================
