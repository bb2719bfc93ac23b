---------------------------- MODULE FrameCodecs ----------------------------
(***************************************************************************)
(* The codecs of a frame on its way through the serial line: the MAC and   *)
(* NWK headers of ZigbeeMacHeader and ZigbeeNwkHeader, the Spinel header,  *)
(* and RawSpinelDriver's HDLC bodies with their CRC.                       *)
(***************************************************************************)
EXTENDS Bytes, FiniteSets

(* Exclusive or with one bit. *)
Flip(n, weight) == IF Bit(n, weight) THEN n - weight ELSE n + weight

-----------------------------------------------------------------------------
(* MacFrameHeader.                                                         *)

NoHeader      == [ok |-> FALSE]
MacHeaderSize == 9

BuildMac(h) == Field(h.frameControl) \o <<h.seq>> \o Field(h.destPan) \o Field(h.dest) \o Field(h.src)

ParseMac(s) ==
  IF Len(s) < MacHeaderSize THEN NoHeader
  ELSE [ok |-> TRUE, frameControl |-> FieldAt(s, 1), seq |-> s[3], destPan |-> FieldAt(s, 4),
        dest |-> FieldAt(s, 6), src |-> FieldAt(s, 8)]

-----------------------------------------------------------------------------
(* NwkFrameHeader.  build writes the fixed part only, parse reads more.    *)

SecurityBit == 64
RouteBit    == 128
Plain(frameControl) == ~Bit(frameControl, SecurityBit) /\ ~Bit(frameControl, RouteBit)

BuildNwk(h) == <<h.frameControl, h.seq>> \o Field(h.dst) \o Field(h.src) \o <<h.radius>>

(* A part of the header: what was read, and how many bytes it takes. *)
NoPart  == [ok |-> FALSE, value |-> <<>>, size |-> 0]
NotSent == [ok |-> TRUE, value |-> <<>>, size |-> 0]

RoutePart(s) ==
  IF s = <<>> \/ Len(s) < 1 + 2 * s[1] THEN NoPart
  ELSE [ok |-> TRUE, value |-> FieldsAt(s, 2, s[1]), size |-> 1 + 2 * s[1]]

(* Mutant: the key identifier is not asked for. *)
SecurityPartUnkeyed(s) ==
  IF Len(s) < 5 THEN NoPart
  ELSE [ok |-> TRUE, value |-> SubSeq(s, 1, 5), size |-> IF Bit(s[1], 4) \/ Bit(s[1], 8) THEN 6 ELSE 5]

(* Security control and frame counter, then a key identifier if the mode   *)
(* in the control's bits 2 and 3 asks for one.                             *)
SecurityPart(s) ==
  LET keyed == Bit(s[1], 4) \/ Bit(s[1], 8)
      size  == IF keyed THEN 6 ELSE 5
  IN  IF Len(s) < 5 \/ Len(s) < size THEN NoPart
      ELSE [ok |-> TRUE, value |-> SubSeq(s, 1, size), size |-> size]

ParseNwk(data, offset) ==
  LET s     == Rest(data, offset + 1)
      route == IF Bit(s[1], RouteBit) THEN RoutePart(Rest(s, 8)) ELSE NotSent
      sec   == IF Bit(s[1], SecurityBit) THEN SecurityPart(Rest(s, 8 + route.size)) ELSE NotSent
  IN  IF Len(s) < 7 \/ ~route.ok \/ ~sec.ok THEN NoHeader
      ELSE [ok |-> TRUE, frameControl |-> s[1], seq |-> s[2], dst |-> FieldAt(s, 3), src |-> FieldAt(s, 5),
            radius |-> s[7], route |-> route.value, aux |-> sec.value, size |-> 7 + route.size + sec.size]

(* What is read of a frame's NWK header lies inside the frame, wherever    *)
(* that was cut.                                                           *)
HeaderLiesInside(s) ==
  LET h == ParseNwk(s, MacHeaderSize)
  IN  Len(s) >= MacHeaderSize /\ h.ok => MacHeaderSize + h.size <= Len(s)

(* Headers that build wrote on one host, parse reads on the other - if     *)
(* the NWK frame control asks for no optional part, which build omits.     *)
HeaderReadsBack(s) ==
  LET m == ParseMac(s)
      h == ParseNwk(s, MacHeaderSize)
  IN  m.ok /\ h.ok /\ Plain(h.frameControl) =>
        BuildMac(m) \o BuildNwk(h) = SubSeq(s, 1, MacHeaderSize + h.size)

-----------------------------------------------------------------------------
(* Spinel: header, command, property, value.                               *)

Set == 3
Is  == 4
StreamRaw == 97

Spinel(tid, command, prop, value) == <<128 + tid>> \o Field(command) \o Field(prop) \o value
SpinelCommand(s) == FieldAt(s, 2)
SpinelProperty(s) == FieldAt(s, 4)
SpinelValue(s) == Rest(s, 6)

-----------------------------------------------------------------------------
(* HDLC.                                                                   *)

Flag   == 126
Escape == 125
Mask   == 32

(* What a loop over s makes of x; step[b] is what its body does for b.     *)
Loop(step, x, s) ==
  LET after[i \in 0 .. Len(s)] == IF i = 0 THEN x ELSE step[s[i]][after[i - 1]]
  IN  after[Len(s)]

(* crc16Ccitt, a byte at a time and from its high bit. *)
Weights == <<128, 64, 32, 16, 8, 4, 2, 1>>
ShiftIn(crc, bit) ==
  LET s == (2 * crc) % (Byte * Byte)
  IN  IF Bit(crc, 32768) = bit THEN s ELSE Flip(Flip(Flip(s, 4096), 32), 1)
BitIn(b) == [weight \in Nat |-> [crc \in Nat |-> ShiftIn(crc, Bit(b, weight))]]
ByteIn   == [b \in Nat |-> [crc \in Nat |-> Loop(BitIn(b), crc, Weights)]]
Crc(s)   == Loop(ByteIn, 65535, s)

(* Mutant: the escape byte itself is not escaped. *)
StuffFlagsOnly(b) == IF b = Flag THEN <<Escape, Flip(b, Mask)>> ELSE <<b>>

Stuff(b) == IF b \in {Flag, Escape} THEN <<Escape, Flip(b, Mask)>> ELSE <<b>>

StuffIn    == [b \in Nat |-> [out \in Seq(Nat) |-> out \o Stuff(b)]]
Stuffed(s) == Loop(StuffIn, <<>>, s)

HdlcEncode(s) == <<Flag>> \o Stuffed(s \o Field(Crc(s))) \o <<Flag>>

(* Unescaping: whether the byte before was an escape, and what came before. *)
Escaping(u) == [u EXCEPT !.escaping = TRUE]
Taken(u, b) == [escaping |-> FALSE, data |-> Append(u.data, b)]

UnstuffIn ==
  [b \in Nat |-> [u \in [escaping : BOOLEAN, data : Seq(Nat)] |->
    IF u.escaping THEN Taken(u, Flip(b, Mask)) ELSE IF b = Escape THEN Escaping(u) ELSE Taken(u, b)]]
Unstuff(s) == Loop(UnstuffIn, [escaping |-> FALSE, data |-> <<>>], s).data

NotWhole == [ok |-> FALSE, data |-> <<>>]

(* Mutant: the high byte of the CRC is not compared. *)
HdlcDecodeLow(s) ==
  LET u == Unstuff(s)
      n == Len(u) - 2
  IN  IF n < 0 \/ u[n + 1] # Crc(SubSeq(u, 1, n)) % Byte THEN NotWhole
      ELSE [ok |-> TRUE, data |-> SubSeq(u, 1, n)]

HdlcDecode(s) ==
  LET u == Unstuff(s)
      n == Len(u) - 2
  IN  IF n < 0 \/ FieldAt(u, n + 1) # Crc(SubSeq(u, 1, n)) THEN NotWhole
      ELSE [ok |-> TRUE, data |-> SubSeq(u, 1, n)]

(* The bodies between pairs of flags, as rxLoop cuts a line into them, and *)
(* what it decodes of them; and where, between its ends, a line has flags  *)
(* and escapes.                                                            *)
Flags(line)        == {i \in DOMAIN line : line[i] = Flag}
Opens(line, i)     == Cardinality({j \in Flags(line) : j < i}) % 2 = 0
Closes(line, j, i) == i < j /\ \A k \in Flags(line) : ~(i < k /\ k < j)

Bodies(line) ==
  {SubSeq(line, p[1] + 1, p[2] - 1) :
     p \in {q \in Flags(line) \X Flags(line) : Opens(line, q[1]) /\ Closes(line, q[2], q[1])}}
Frames(line) == {HdlcDecode(b).data : b \in {c \in Bodies(line) : HdlcDecode(c).ok}}

Controls(line) == {i \in 2 .. Len(line) - 1 : line[i] \in {Flag, Escape}}
=============================================================================
