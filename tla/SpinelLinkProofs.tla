-------------------------- MODULE SpinelLinkProofs --------------------------
(***************************************************************************)
(* Theorems about SpinelLink, for any frames, properties, values and       *)
(* measurements, and any bytes that a radio writes.                        *)
(*                                                                         *)
(* LinkInv is inductive.  Its core says what is on the line as long as     *)
(* nothing was damaged: the encoding of the call, or of what the radio     *)
(* makes of it.  What the other end then decodes is BytesProofs' theorem.  *)
(***************************************************************************)
EXTENDS SpinelLink, BytesProofs

-----------------------------------------------------------------------------
(* Spinel frames.                                                          *)

LEMMA CommandsAreFields == \A n \in {Set, Is, StreamRaw} : n \in 0 .. Byte * Byte - 1
<1>1. \A n \in {Set, Is, StreamRaw} : n \in Nat /\ n < 65536
  BY DEF Set, Is, StreamRaw
<1>2. Byte * Byte = 65536
  BY DEF Byte
<1>3. \A k \in Nat : \A n \in Nat : n < k => n \in 0 .. k - 1
  OBVIOUS
<1>. QED BY <1>1, <1>2, <1>3, BytePairs

LEMMA SpinelHeaderIsByte ==
  ASSUME NEW tid \in 0 .. 2
  PROVE  <<128 + tid>> \in Bytes /\ Len(<<128 + tid>>) = 1
BY DEF Bytes, Byte

LEMMA SpinelReadsBack ==
  ASSUME NEW tid \in 0 .. 2, NEW command \in 0 .. Byte * Byte - 1, NEW prop \in 0 .. Byte * Byte - 1,
         NEW value \in Bytes
  PROVE  LET s == Spinel(tid, command, prop, value)
         IN  /\ s \in Bytes /\ Len(s) >= 5
             /\ SpinelCommand(s) = command /\ SpinelProperty(s) = prop /\ SpinelValue(s) = value
<1>. DEFINE h == <<128 + tid>>
            c == Field(command)
            p == Field(prop)
            hc == h \o c
            hp == hc \o p
            s == hp \o value
<1>1. h \in Bytes /\ Len(h) = 1
  BY SpinelHeaderIsByte
<1>2. c \in Bytes /\ Len(c) = 2 /\ p \in Bytes /\ Len(p) = 2
  BY FieldIsTwoBytes
<1>3. Len(value) \in Nat
  BY BytesHaveLength
<1>. HIDE DEF h, c, p
<1>4. hc \in Bytes /\ Len(hc) = 3 /\ LiesAt(c, hc, 2)
  <2>1. Len(hc) = Len(h) + Len(c) /\ hc \in Bytes /\ LiesAt(c, hc, Len(h) + 1)
    BY <1>1, <1>2, ConcatOfBytes
  <2>2. Len(h) + Len(c) = 3 /\ Len(h) + 1 = 2
    BY <1>1, <1>2
  <2>. HIDE DEF hc
  <2>. QED BY <2>1, <2>2
<1>. HIDE DEF hc
<1>5. hp \in Bytes /\ Len(hp) = 5 /\ LiesAt(c, hp, 2) /\ LiesAt(p, hp, 4)
  <2>1. Len(hp) = Len(hc) + Len(p) /\ hp \in Bytes /\ LiesAt(p, hp, Len(hc) + 1)
    BY <1>2, <1>4, ConcatOfBytes
  <2>2. Len(hc) + Len(p) = 5 /\ Len(hc) + 1 = 4 /\ 2 \in Nat \ {0} /\ 2 + Len(c) - 1 <= Len(hc)
    BY <1>2, <1>4
  <2>3. LiesAt(c, hp, 2)
    BY <1>2, <1>4, <2>2, LiesInConcat
  <2>. HIDE DEF hp
  <2>. QED BY <2>1, <2>2, <2>3
<1>. HIDE DEF hp
<1>6. s \in Bytes /\ Len(s) = 5 + Len(value) /\ LiesAt(c, s, 2) /\ LiesAt(p, s, 4)
  <2>1. Len(s) = Len(hp) + Len(value) /\ s \in Bytes
    BY <1>5, ConcatOfBytes
  <2>2. 2 \in Nat \ {0} /\ 4 \in Nat \ {0} /\ 2 + Len(c) - 1 <= Len(hp) /\ 4 + Len(p) - 1 <= Len(hp)
    BY <1>2, <1>5
  <2>3. LiesAt(c, s, 2) /\ LiesAt(p, s, 4)
    BY <1>2, <1>5, <2>2, LiesInConcat
  <2>. HIDE DEF s
  <2>. QED BY <1>5, <2>1, <2>3
<1>7. Rest(s, 6) = value
  <2>1. Rest(s, Len(hp) + 1) = value
    BY <1>5, RestOfConcat
  <2>2. Len(hp) + 1 = 6
    BY <1>5
  <2>. HIDE DEF s
  <2>. QED BY <2>1, <2>2
<1>8. s = Spinel(tid, command, prop, value)
  BY DEF Spinel, s, hp, hc, h, c, p
<1>. HIDE DEF s
<1>9. FieldAt(s, 2) = command /\ FieldAt(s, 4) = prop
  <2>1. 2 \in Nat /\ 4 \in Nat
    OBVIOUS
  <2>. QED BY <1>6, <2>1, FieldReads DEF c, p
<1>10. Len(s) >= 5
  BY <1>3, <1>6
<1>. QED BY <1>6, <1>7, <1>8, <1>9, <1>10 DEF SpinelCommand, SpinelProperty, SpinelValue

LEMMA SpinelValueOfBytes ==
  ASSUME NEW s \in Bytes
  PROVE  SpinelValue(s) \in Bytes
<1>1. Len(s) \in Nat
  BY BytesHaveLength
<1>2. CASE 6 <= Len(s) + 1
  BY <1>2, RestOfBytes DEF SpinelValue
<1>3. CASE ~(6 <= Len(s) + 1)
  <2>1. SubSeq(s, 6, Len(s)) = <<>>
    BY <1>1, <1>3, SubSeqEmpty DEF Bytes
  <2>. QED BY <2>1, NothingIsUnflagged DEF SpinelValue, Rest
<1>. QED BY <1>2, <1>3

LEMMA FramesAreBytes ==
  ASSUME NEW x \in Bytes
  PROVE  Frames(x) \subseteq Bytes
<1>1. DOMAIN x = 1 .. Len(x) /\ Len(x) \in Nat
  BY BytesHaveLength
<1>2. \A b \in Bodies(x) : b \in Bytes
  <2>. SUFFICES ASSUME NEW i \in Flags(x), NEW j \in Flags(x), Closes(x, j, i)
                PROVE  SubSeq(x, i + 1, j - 1) \in Bytes
    BY DEF Bodies
  <2>1. i \in 1 .. Len(x) /\ j \in 1 .. Len(x) /\ i < j
    BY <1>1 DEF Flags, Closes
  <2>2. i + 1 \in Nat \ {0} /\ j - 1 \in Nat /\ i + 1 <= j - 1 + 1 /\ j - 1 <= Len(x)
    BY <1>1, <2>1
  <2>. QED BY <2>2, PartOfBytes
<1>3. ASSUME NEW b \in Bytes, HdlcDecode(b).ok
      PROVE  HdlcDecode(b).data \in Bytes
  <2>. DEFINE u == Unstuff(b)
              n == Len(u) - 2
  <2>1. u \in Bytes
    <3>1. b \in Seq(AByte)
      BY DEF Bytes, AByte
    <3>2. \A v \in Unstuffed, c \in AByte : UnstuffIn[c][v] \in Unstuffed
      BY UnstuffLoop
    <3>3. Start \in Unstuffed
      BY UnstuffLoop
    <3>4. Loop(UnstuffIn, Start, b) \in Unstuffed
      BY <3>1, <3>2, <3>3, LoopType
    <3>. QED BY <3>4 DEF Unstuff, Start, Unstuffed
  <2>2. HdlcDecode(b) = IF n < 0 \/ FieldAt(u, n + 1) # Crc(SubSeq(u, 1, n)) THEN NotWhole
                        ELSE [ok |-> TRUE, data |-> SubSeq(u, 1, n)]
    BY DEF HdlcDecode
  <2>. HIDE DEF u
  <2>3. ~(n < 0) /\ HdlcDecode(b).data = SubSeq(u, 1, n)
    BY <1>3, <2>2 DEF NotWhole
  <2>4. n \in 0 .. Len(u)
    BY <2>1, <2>3, BytesHaveLength
  <2>5. SubSeq(u, 1, n) \in Bytes
    BY <2>1, <2>4, CutOfBytes
  <2>. QED BY <2>3, <2>5
<1>. QED BY <1>2, <1>3 DEF Frames

LEMMA EncodedAreBytes ==
  ASSUME NEW s \in Bytes
  PROVE  HdlcEncode(s) \in Bytes
<1>1. PICK x \in Seq(Unflagged) : HdlcEncode(s) = <<Flag>> \o x \o <<Flag>>
  BY EncodedLine
<1>. QED BY <1>1, Framed

LEMMA MetadataOfFrame ==
  ASSUME NEW f \in Bytes
  PROVE  LET v == f \o <<ByteOf(Rssi), Lqi>>
         IN  v \in Bytes /\ Raw(v) = [to |-> "nwk", frame |-> f, rssi |-> Rssi, lqi |-> Lqi]
<1>. DEFINE a == ByteOf(Rssi)
            m == <<a, Lqi>>
            v == f \o m
            n == Len(v) - 2
<1>1. a \in AByte /\ Signed(a) = Rssi
  <2>1. Rssi \in Int /\ -128 <= Rssi /\ Rssi <= 127
    BY ConstantsAssumption
  <2>2. Rssi % 256 \in 0 .. 255 /\ Rssi = IF Rssi % 256 < 128 THEN Rssi % 256 ELSE (Rssi % 256) - 256
    BY <2>1
  <2>. QED BY <2>2 DEF ByteOf, Signed, AByte, Byte
<1>. HIDE DEF a
<1>2. Lqi \in AByte
  BY ConstantsAssumption DEF AByte
<1>3. m \in Bytes /\ Len(m) = 2 /\ m[1] = a /\ m[2] = Lqi
  BY <1>1, <1>2 DEF Bytes, AByte
<1>. HIDE DEF m
<1>4. v \in Bytes /\ Len(v) = Len(f) + 2 /\ LiesAt(f, v, 1) /\ LiesAt(m, v, Len(f) + 1)
  BY <1>3, ConcatOfBytes
<1>5. Len(f) \in Nat
  BY BytesHaveLength
<1>. HIDE DEF v
<1>6. v[Len(f) + 1] = a /\ v[Len(f) + 2] = Lqi
  <2>1. v[Len(f) + 1 + 1 - 1] = m[1] /\ v[Len(f) + 1 + 2 - 1] = m[2]
    BY <1>3, <1>4 DEF LiesAt
  <2>2. Len(f) + 1 + 1 - 1 = Len(f) + 1 /\ Len(f) + 1 + 2 - 1 = Len(f) + 2
    BY <1>5
  <2>. QED BY <1>3, <2>1, <2>2
<1>7. SubSeq(v, 1, Len(f)) = f
  <2>1. Len(f) = 1 + Len(f) - 1 /\ Len(f) <= Len(v) /\ 1 \in Nat \ {0}
    BY <1>4, <1>5
  <2>. QED BY <1>4, <2>1, LiesIsPart
<1>8. n = Len(f) /\ ~(n < 0)
  BY <1>4, <1>5
<1>. HIDE DEF n
<1>9. Raw(v) = [to |-> "nwk", frame |-> SubSeq(v, 1, n), rssi |-> Signed(v[n + 1]), lqi |-> v[n + 2]]
  BY <1>8 DEF Raw, n
<1>10. Raw(v) = [to |-> "nwk", frame |-> f, rssi |-> Rssi, lqi |-> Lqi]
  BY <1>1, <1>6, <1>7, <1>8, <1>9
<1>. QED BY <1>4, <1>10 DEF v, m, a

-----------------------------------------------------------------------------
(* What is on the line, seen from the call: as long as nothing was damaged *)
(* it is what driver or radio made of the call, or a frame of the radio.   *)

Written   == HdlcEncode(Spinel(Tid(asked.prop), Set, asked.prop, asked.value))
Delivered == HdlcEncode(Spinel(0, Is, StreamRaw, asked.value \o <<ByteOf(Rssi), Lqi>>))

LineInv ==
  /\ at = "start" => asked = NoCall /\ line = <<>>
  /\ at = "radio" => asked.prop \in DOMAIN Properties \cup {StreamRaw} /\ (intact => line = Written)
  /\ at = "host" /\ intact => \/ asked = NoCall /\ \E s \in Bytes : line = HdlcEncode(s)
                              \/ asked.prop = StreamRaw /\ line = Delivered
  /\ at = "end" => line = <<>>

LinkInv == TypeOK /\ LineInv /\ CommandsArriveAsGiven

LEMMA LinkStarts == Init => LinkInv
<1>. SUFFICES ASSUME Init
              PROVE  LinkInv
  OBVIOUS
<1>1. <<>> \in Bytes
  BY NothingIsUnflagged
<1>2. radio \in [DOMAIN Properties -> Bytes] /\ line \in Bytes /\ asked.value \in Bytes /\ got.frame \in Bytes
  BY <1>1 DEF Init, NoCall, Nothing
<1>3. got.to \in Targets /\ got.rssi \in -128 .. 127 /\ got.lqi \in 0 .. Byte - 1
  BY DEF Init, Nothing, Targets, Byte
<1>4. at = "start" /\ intact \in BOOLEAN /\ result \in BOOLEAN /\ assoc \in BOOLEAN /\ asked = NoCall /\ line = <<>>
  BY DEF Init
<1>5. TypeOK
  BY <1>2, <1>3, <1>4 DEF TypeOK, Bytes
<1>. QED BY <1>4, <1>5 DEF LinkInv, LineInv, CommandsArriveAsGiven

LEMMA WrittenAreBytes ==
  ASSUME NEW prop \in DOMAIN Properties \cup {StreamRaw}, NEW value \in Bytes
  PROVE  /\ prop \in 0 .. Byte * Byte - 1 /\ Tid(prop) \in 0 .. 2
         /\ Spinel(Tid(prop), Set, prop, value) \in Bytes
         /\ HdlcEncode(Spinel(Tid(prop), Set, prop, value)) \in Bytes
<1>1. prop \in 0 .. Byte * Byte - 1 /\ Set \in 0 .. Byte * Byte - 1
  BY ConstantsAssumption, CommandsAreFields
<1>2. Tid(prop) \in 0 .. 2
  BY DEF Tid
<1>3. Spinel(Tid(prop), Set, prop, value) \in Bytes
  BY <1>1, <1>2, SpinelReadsBack
<1>. QED BY <1>1, <1>2, <1>3, EncodedAreBytes

(* Whatever is called, the line has its frame or a part of it.             *)
LEMMA WriteLeaves ==
  ASSUME NEW prop \in DOMAIN Properties \cup {StreamRaw}, NEW value \in Bytes, Write(prop, value)
  PROVE  /\ at' = "radio" /\ result' \in BOOLEAN /\ intact' \in BOOLEAN /\ line' \in Bytes
         /\ asked' = [prop |-> prop, value |-> value]
         /\ intact' => line' = HdlcEncode(Spinel(Tid(prop), Set, prop, value))
         /\ ~intact' => Decoded' = {}
<1>. DEFINE s == Spinel(Tid(prop), Set, prop, value)
            t == HdlcEncode(s)
<1>1. s \in Bytes /\ t \in Bytes
  BY WrittenAreBytes
<1>. HIDE DEF s
<1>2. PICK n \in {Failed} \cup 0 .. Len(t) :
        /\ line' = SubSeq(t, 1, n) /\ intact' = (n = Len(t)) /\ result' = AsBool(n)
        /\ at' = "radio" /\ asked' = [prop |-> prop, value |-> value]
  BY DEF Write, s
<1>3. Len(t) \in Nat
  BY <1>1, BytesHaveLength
<1>4. n \in Int /\ n <= Len(t) /\ (n \in 0 .. Len(t) \/ n = -1)
  BY <1>3 DEF Failed
<1>5. line' \in Bytes
  <2>1. CASE n \in 0 .. Len(t)
    <3>. HIDE DEF t
    <3>. QED BY <1>1, <1>2, <2>1, CutOfBytes
  <2>2. CASE n = -1
    <3>1. SubSeq(t, 1, n) = <<>>
      <4>. HIDE DEF t
      <4>. QED BY <1>1, <2>2, SubSeqEmpty DEF Bytes
    <3>. QED BY <1>2, <3>1, NothingIsUnflagged
  <2>. QED BY <1>4, <2>1, <2>2
<1>6. intact' => line' = t
  <2>1. SubSeq(t, 1, Len(t)) = t
    BY <1>1, WholeOfBytes
  <2>. HIDE DEF t
  <2>. QED BY <1>2, <2>1
<1>7. ~intact' => Decoded' = {}
  <2>1. SUFFICES ASSUME n # Len(t)
                 PROVE  Frames(line') = {}
    BY <1>2 DEF Decoded
  <2>2. n < Len(t)
    BY <1>3, <1>4, <2>1
  <2>3. Frames(SubSeq(t, 1, n)) = {}
    BY <1>1, <1>4, <2>2, CutLinesAreDropped
  <2>. QED BY <1>2, <2>3
<1>8. result' \in BOOLEAN /\ intact' \in BOOLEAN
  BY <1>2 DEF AsBool
<1>. QED BY <1>2, <1>5, <1>6, <1>7, <1>8 DEF s

LEMMA CallKeeps ==
  ASSUME LinkInv, NEW prop \in DOMAIN Properties \cup {StreamRaw}, NEW value \in Bytes, Call(prop, value)
  PROVE  LinkInv'
<1>1. /\ Write(prop, value) /\ radio' = radio /\ assoc' = assoc /\ got' = got
  BY DEF Call
<1>2. /\ at' = "radio" /\ result' \in BOOLEAN /\ intact' \in BOOLEAN /\ line' \in Bytes
      /\ asked' = [prop |-> prop, value |-> value]
      /\ intact' => line' = HdlcEncode(Spinel(Tid(prop), Set, prop, value))
  BY <1>1, WriteLeaves
<1>3. asked'.prop = prop /\ asked'.value = value
  BY <1>2
<1>4. TypeOK'
  BY <1>1, <1>2, <1>3 DEF LinkInv, TypeOK, Bytes
<1>. QED BY <1>2, <1>3, <1>4 DEF LinkInv, LineInv, CommandsArriveAsGiven, Written

LEMMA IntactLineIsEncoded ==
  ASSUME LinkInv, intact, DOMAIN line # {}
  PROVE  \E s \in Bytes : line = HdlcEncode(s)
<1>1. line # <<>>
  <2>1. ASSUME line = <<>>
        PROVE  DOMAIN line = {}
    <3>1. line \in Bytes /\ Len(line) = 0
      BY <2>1, NothingIsUnflagged
    <3>2. DOMAIN line = 1 .. 0
      BY <3>1, BytesHaveLength
    <3>. QED BY <3>2
  <2>. QED BY <2>1
<1>2. CASE at = "radio"
  <2>1. asked.prop \in DOMAIN Properties \cup {StreamRaw} /\ asked.value \in Bytes /\ line = Written
    BY <1>2 DEF LinkInv, LineInv, TypeOK, Bytes
  <2>. QED BY <2>1, WrittenAreBytes DEF Written
<1>3. CASE at = "host"
  <2>1. CASE asked.prop = StreamRaw /\ line = Delivered
    <3>1. asked.value \in Bytes
      BY DEF LinkInv, TypeOK, Bytes
    <3>2. asked.value \o <<ByteOf(Rssi), Lqi>> \in Bytes
      BY <3>1, MetadataOfFrame
    <3>3. 0 \in 0 .. 2
      OBVIOUS
    <3>4. Spinel(0, Is, StreamRaw, asked.value \o <<ByteOf(Rssi), Lqi>>) \in Bytes
      BY <3>2, <3>3, CommandsAreFields, SpinelReadsBack
    <3>. QED BY <2>1, <3>4 DEF Delivered
  <2>. QED BY <1>3, <2>1 DEF LinkInv, LineInv
<1>. QED BY <1>1, <1>2, <1>3 DEF LinkInv, LineInv, TypeOK

LEMMA EnableKeeps ==
  ASSUME LinkInv, NEW b \in BOOLEAN, EnableMacAssociation(b)
  PROVE  LinkInv'
<1>1. at' = at /\ asked' = asked /\ line' = line /\ intact' = intact /\ result' = result
      /\ radio' = radio /\ got' = got /\ assoc' \in BOOLEAN
  BY DEF EnableMacAssociation
<1>2. TypeOK' /\ CommandsArriveAsGiven'
  BY <1>1 DEF LinkInv, TypeOK, CommandsArriveAsGiven
<1>3. LineInv'
  BY <1>1 DEF LinkInv, LineInv, Written, Delivered
<1>. QED BY <1>2, <1>3 DEF LinkInv

LEMMA FlipKeeps ==
  ASSUME LinkInv, NEW i \in DOMAIN line, NEW w \in ToSet(Weights), FlipBit(i, w)
  PROVE  LinkInv'
<1>1. /\ line' = [line EXCEPT ![i] = Flip(@, w)] /\ intact' = FALSE
      /\ at' = at /\ asked' = asked /\ result' = result /\ radio' = radio /\ assoc' = assoc /\ got' = got
  BY DEF FlipBit
<1>2. line \in Bytes
  BY DEF LinkInv, TypeOK, Bytes
<1>3. i \in 1 .. Len(line) /\ line[i] \in AByte /\ w \in Weight8
  BY <1>2, BytesHaveLength, WeightsAreEight DEF AByte
<1>4. line' \in Bytes
  <2>1. Flip(line[i], w) \in AByte /\ line \in Seq(AByte)
    BY <1>2, <1>3, FlipChanges DEF Bytes, AByte
  <2>2. [line EXCEPT ![i] = Flip(@, w)] \in Seq(AByte)
    BY <1>3, <2>1, ExceptSeq
  <2>. QED BY <1>1, <2>2 DEF Bytes, AByte
<1>5. line # <<>>
  <2>1. ASSUME line = <<>>
        PROVE  Len(line) = 0
    BY <2>1
  <2>. QED BY <1>2, <1>3, <2>1, BytesHaveLength
<1>6. TypeOK'
  BY <1>1, <1>4 DEF LinkInv, TypeOK, Bytes
<1>7. LineInv'
  BY <1>1, <1>5 DEF LinkInv, LineInv
<1>. QED BY <1>1, <1>6, <1>7 DEF LinkInv, CommandsArriveAsGiven

LEMMA RadioSendsKeeps ==
  ASSUME LinkInv, NEW s \in Upward, RadioSends(s)
  PROVE  LinkInv'
<1>1. /\ at = "start" /\ at' = "host" /\ line' = HdlcEncode(s)
      /\ asked' = asked /\ intact' = intact /\ result' = result /\ radio' = radio /\ assoc' = assoc /\ got' = got
  BY DEF RadioSends, RadioWrites
<1>2. s \in Bytes
  BY ConstantsAssumption DEF Bytes
<1>3. line' \in Bytes
  BY <1>1, <1>2, EncodedAreBytes
<1>4. TypeOK'
  BY <1>1, <1>3 DEF LinkInv, TypeOK, Bytes
<1>5. LineInv'
  BY <1>1, <1>2 DEF LinkInv, LineInv
<1>. QED BY <1>1, <1>4, <1>5 DEF LinkInv, CommandsArriveAsGiven

LEMMA WrittenIsDecoded ==
  ASSUME LinkInv, at = "radio", intact
  PROVE  \E s \in Bytes : /\ Decoded = {s}
                          /\ SpinelProperty(s) = asked.prop /\ SpinelValue(s) = asked.value
<1>1. asked.prop \in DOMAIN Properties \cup {StreamRaw} /\ asked.value \in Bytes /\ line = Written
  BY DEF LinkInv, LineInv, TypeOK, Bytes
<1>. DEFINE s == Spinel(Tid(asked.prop), Set, asked.prop, asked.value)
<1>2. s \in Bytes /\ asked.prop \in 0 .. Byte * Byte - 1 /\ Tid(asked.prop) \in 0 .. 2
  BY <1>1, WrittenAreBytes
<1>3. SpinelProperty(s) = asked.prop /\ SpinelValue(s) = asked.value
  BY <1>1, <1>2, CommandsAreFields, SpinelReadsBack
<1>4. Decoded = {s}
  <2>1. line = HdlcEncode(s)
    BY <1>1 DEF Written
  <2>. HIDE DEF s
  <2>. QED BY <1>2, <2>1, EveryFrameArrives DEF Decoded
<1>. QED BY <1>2, <1>3, <1>4

LEMMA RadioReadsKeeps ==
  ASSUME LinkInv, RadioReads
  PROVE  LinkInv'
<1>1. at = "radio" /\ asked' = asked /\ intact' = intact /\ result' = result /\ assoc' = assoc /\ got' = got
  BY DEF RadioReads
<1>2. line \in Bytes /\ radio \in [DOMAIN Properties -> Bytes] /\ asked.value \in Bytes
  BY DEF LinkInv, TypeOK, Bytes
<1>3. intact => asked.prop \in DOMAIN Properties \cup {StreamRaw}
  BY <1>1 DEF LinkInv, LineInv
<1>4. CASE Decoded = {} /\ Idle /\ UNCHANGED radio
  <2>1. ~intact
    BY <1>1, <1>4, WrittenIsDecoded
  <2>2. at' = "end" /\ line' = <<>> /\ radio' = radio
    BY <1>4 DEF Idle
  <2>3. line' \in Bytes
    BY <2>2, NothingIsUnflagged
  <2>4. TypeOK'
    BY <1>1, <2>2, <2>3 DEF LinkInv, TypeOK, Bytes
  <2>. QED BY <1>1, <2>1, <2>2, <2>4 DEF LinkInv, LineInv, CommandsArriveAsGiven
<1>5. ASSUME NEW s \in Decoded
      PROVE  /\ s \in Bytes /\ SpinelValue(s) \in Bytes
             /\ intact => SpinelProperty(s) = asked.prop /\ SpinelValue(s) = asked.value
  <2>1. s \in Bytes
    BY <1>2, FramesAreBytes DEF Decoded
  <2>2. intact => SpinelProperty(s) = asked.prop /\ SpinelValue(s) = asked.value
    BY <1>1, WrittenIsDecoded
  <2>. QED BY <2>1, <2>2, SpinelValueOfBytes
<1>6. ASSUME NEW s \in Decoded, SpinelProperty(s) = StreamRaw, UNCHANGED radio,
             RadioWrites(Spinel(0, Is, StreamRaw, SpinelValue(s) \o <<ByteOf(Rssi), Lqi>>))
      PROVE  LinkInv'
  <2>. DEFINE r == Spinel(0, Is, StreamRaw, SpinelValue(s) \o <<ByteOf(Rssi), Lqi>>)
  <2>1. r \in Bytes
    <3>1. SpinelValue(s) \o <<ByteOf(Rssi), Lqi>> \in Bytes
      BY <1>5, MetadataOfFrame
    <3>2. 0 \in 0 .. 2
      OBVIOUS
    <3>. QED BY <3>1, <3>2, CommandsAreFields, SpinelReadsBack
  <2>2. intact => asked.prop = StreamRaw /\ HdlcEncode(r) = Delivered
    BY <1>5, <1>6 DEF Delivered
  <2>3. at' = "host" /\ line' = HdlcEncode(r) /\ radio' = radio
    BY <1>6 DEF RadioWrites
  <2>. HIDE DEF r
  <2>4. line' \in Bytes
    BY <2>1, <2>3, EncodedAreBytes
  <2>5. TypeOK'
    BY <1>1, <2>3, <2>4 DEF LinkInv, TypeOK, Bytes
  <2>6. Delivered' = Delivered
    BY <1>1 DEF Delivered
  <2>7. LineInv'
    BY <1>1, <2>2, <2>3, <2>6 DEF LineInv
  <2>. QED BY <2>3, <2>5, <2>7 DEF LinkInv, CommandsArriveAsGiven
<1>7. ASSUME NEW s \in Decoded, SpinelProperty(s) # StreamRaw, Idle,
             radio' = [radio EXCEPT ![SpinelProperty(s)] = SpinelValue(s)]
      PROVE  LinkInv'
  <2>1. at' = "end" /\ line' = <<>> /\ line' \in Bytes
    BY <1>7, NothingIsUnflagged DEF Idle
  <2>2. radio' \in [DOMAIN Properties -> Bytes]
    BY <1>2, <1>5, <1>7
  <2>3. TypeOK'
    BY <1>1, <2>1, <2>2 DEF LinkInv, TypeOK, Bytes
  <2>4. intact => asked.prop # StreamRaw /\ radio'[asked.prop] = asked.value
    BY <1>2, <1>3, <1>5, <1>7
  <2>. QED BY <1>1, <2>1, <2>3, <2>4 DEF LinkInv, LineInv, CommandsArriveAsGiven
<1>. QED BY <1>4, <1>6, <1>7 DEF RadioReads

LEMMA ResponseIsBytes == ResponseFrame \in Bytes
<1>. DEFINE a == <<192, 128, 2>>
<1>1. a \in Bytes
  BY DEF Bytes, Byte
<1>2. 64 \in 0 .. Byte * Byte - 1
  BY DEF Byte
<1>3. Field(64) \in Bytes
  BY <1>2, FieldIsTwoBytes
<1>. HIDE DEF a
<1>4. a \o Field(64) \in Bytes
  BY <1>1, <1>3, ConcatOfBytes
<1>. QED BY <1>4 DEF ResponseFrame, a

Received == [to : Targets, frame : Bytes, rssi : -128 .. 127, lqi : 0 .. Byte - 1]

LEMMA RawIsReceived ==
  ASSUME NEW v \in Bytes
  PROVE  Raw(v) \in Received /\ Raw(v).to = "nwk"
<1>. DEFINE n == Len(v) - 2
<1>1. Len(v) \in Nat
  BY BytesHaveLength
<1>2. CASE n < 0
  <2>1. 0 \in -128 .. 127 /\ 0 \in 0 .. Byte - 1
    BY DEF Byte
  <2>. QED BY <1>2, <2>1 DEF Raw, Received, Targets
<1>3. CASE ~(n < 0)
  <2>1. n \in 0 .. Len(v) /\ n + 1 \in 1 .. Len(v) /\ n + 2 \in 1 .. Len(v)
    BY <1>1, <1>3
  <2>. HIDE DEF n
  <2>2. SubSeq(v, 1, n) \in Bytes /\ v[n + 1] \in 0 .. Byte - 1 /\ v[n + 2] \in 0 .. Byte - 1
    BY <2>1, CutOfBytes, BytesHaveLength
  <2>3. Signed(v[n + 1]) \in -128 .. 127
    <3>1. \A b \in 0 .. Byte - 1 : Signed(b) \in -128 .. 127
      BY DEF Signed, Byte
    <3>. QED BY <2>2, <3>1
  <2>4. Raw(v) = [to |-> "nwk", frame |-> SubSeq(v, 1, n), rssi |-> Signed(v[n + 1]), lqi |-> v[n + 2]]
    BY <1>3 DEF Raw, n
  <2>. QED BY <2>2, <2>3, <2>4 DEF Received, Targets
<1>. QED BY <1>2, <1>3

LEMMA InboundIsReceived ==
  ASSUME NEW raw \in Received
  PROVE  /\ HandleInboundRaw(raw) \in Received
         /\ HandleInboundRaw(raw).frame = raw.frame
         /\ HandleInboundRaw(raw).rssi = raw.rssi /\ HandleInboundRaw(raw).lqi = raw.lqi
<1>1. HandleInboundRaw(raw) \in {[raw EXCEPT !.to = "request"], [raw EXCEPT !.to = "response"], raw}
  <2>. DEFINE req == IsAssoc(raw.frame, AssocRequest)
              res == IsAssoc(raw.frame, AssocResponse)
  <2>. HIDE DEF req, res
  <2>1. CASE req
    BY <2>1 DEF HandleInboundRaw, req, res
  <2>2. CASE res /\ ~req
    BY <2>2 DEF HandleInboundRaw, req, res
  <2>3. CASE ~res /\ ~req
    BY <2>3 DEF HandleInboundRaw, req, res
  <2>. QED BY <2>1, <2>2, <2>3
<1>. QED BY <1>1 DEF Received, Targets

LEMMA HandledIsReceived ==
  ASSUME NEW s \in Bytes
  PROVE  HandleSpinelFrame(s) \in Received
<1>1. Nothing \in Received
  <2>1. 0 \in -128 .. 127 /\ 0 \in 0 .. Byte - 1
    BY DEF Byte
  <2>. QED BY <2>1, NothingIsUnflagged DEF Nothing, Received, Targets
<1>2. HandleInboundRaw(Raw(SpinelValue(s))) \in Received
  BY SpinelValueOfBytes, RawIsReceived, InboundIsReceived
<1>3. HandleSpinelEvent(SpinelProperty(s), SpinelValue(s)) \in Received
  <2>1. [Nothing EXCEPT !.to = "txDone"] \in Received /\ [Nothing EXCEPT !.to = "txFailed"] \in Received
    BY <1>1 DEF Received, Targets
  <2>. QED BY <1>1, <2>1 DEF HandleSpinelEvent
<1>. QED BY <1>1, <1>2, <1>3 DEF HandleSpinelFrame

LEMMA DeliveredIsReceived ==
  ASSUME NEW f \in Bytes
  PROVE  LET s == Spinel(0, Is, StreamRaw, f \o <<ByteOf(Rssi), Lqi>>)
         IN  /\ Frames(HdlcEncode(s)) = {s}
             /\ HandleSpinelFrame(s).frame = f
             /\ HandleSpinelFrame(s).rssi = Rssi /\ HandleSpinelFrame(s).lqi = Lqi
<1>. DEFINE v == f \o <<ByteOf(Rssi), Lqi>>
            s == Spinel(0, Is, StreamRaw, v)
<1>1. v \in Bytes /\ Raw(v) = [to |-> "nwk", frame |-> f, rssi |-> Rssi, lqi |-> Lqi]
  BY MetadataOfFrame
<1>. HIDE DEF v
<1>2. 0 \in 0 .. 2
  OBVIOUS
<1>3. s \in Bytes /\ Len(s) >= 5 /\ SpinelCommand(s) = Is /\ SpinelProperty(s) = StreamRaw /\ SpinelValue(s) = v
  BY <1>1, <1>2, CommandsAreFields, SpinelReadsBack
<1>. HIDE DEF s
<1>4. ~(Len(s) < 5 \/ SpinelCommand(s) # Is)
  BY <1>3, BytesHaveLength
<1>5. HandleSpinelFrame(s) = HandleInboundRaw(Raw(v))
  BY <1>3, <1>4 DEF HandleSpinelFrame
<1>6. Raw(v) \in Received
  BY <1>1, RawIsReceived
<1>7. /\ HandleSpinelFrame(s).frame = f
      /\ HandleSpinelFrame(s).rssi = Rssi /\ HandleSpinelFrame(s).lqi = Lqi
  BY <1>1, <1>5, <1>6, InboundIsReceived
<1>8. Frames(HdlcEncode(s)) = {s}
  BY <1>3, EveryFrameArrives
<1>. QED BY <1>7, <1>8 DEF s, v

LEMMA HostReadsKeeps ==
  ASSUME LinkInv, HostReads
  PROVE  LinkInv'
<1>. DEFINE s == CHOOSE x \in Decoded : TRUE
<1>1. at = "host" /\ radio' = radio /\ assoc' = assoc
      /\ got' = IF Decoded = {} THEN Nothing ELSE HandleSpinelFrame(s)
  BY DEF HostReads
<1>2. line \in Bytes /\ radio \in [DOMAIN Properties -> Bytes] /\ asked.value \in Bytes /\ assoc \in BOOLEAN
      /\ intact \in BOOLEAN /\ result \in BOOLEAN
  BY DEF LinkInv, TypeOK, Bytes
<1>3. got' \in Received
  <2>1. CASE Decoded = {}
    <3>1. 0 \in -128 .. 127 /\ 0 \in 0 .. Byte - 1
      BY DEF Byte
    <3>. QED BY <1>1, <2>1, <3>1, NothingIsUnflagged DEF Nothing, Received, Targets
  <2>2. CASE Decoded # {}
    <3>1. s \in Decoded
      BY <2>2
    <3>2. s \in Bytes
      BY <1>2, <3>1, FramesAreBytes DEF Decoded
    <3>. HIDE DEF s
    <3>. QED BY <1>1, <2>2, <3>2, HandledIsReceived
  <2>. QED BY <2>1, <2>2
<1>4. got'.to \in Targets /\ got'.frame \in Bytes /\ got'.rssi \in -128 .. 127 /\ got'.lqi \in 0 .. Byte - 1
  BY <1>3 DEF Received
<1>5. CASE got'.to = "request"
  <2>1. Write(StreamRaw, ResponseFrame)
    BY <1>5 DEF HostReads
  <2>2. /\ at' = "radio" /\ result' \in BOOLEAN /\ intact' \in BOOLEAN /\ line' \in Bytes
        /\ asked' = [prop |-> StreamRaw, value |-> ResponseFrame]
        /\ intact' => line' = HdlcEncode(Spinel(Tid(StreamRaw), Set, StreamRaw, ResponseFrame))
    BY <2>1, ResponseIsBytes, WriteLeaves
  <2>3. asked'.prop = StreamRaw /\ asked'.value = ResponseFrame
    BY <2>2
  <2>4. TypeOK'
    BY <1>1, <1>2, <1>4, <2>2, <2>3, ResponseIsBytes DEF TypeOK, Bytes
  <2>. QED BY <2>2, <2>3, <2>4 DEF LinkInv, LineInv, CommandsArriveAsGiven, Written
<1>6. CASE got'.to # "request"
  <2>1. at' = "end" /\ line' = <<>> /\ line' \in Bytes /\ asked' = asked /\ intact' = intact /\ result' = result
    BY <1>6, NothingIsUnflagged DEF HostReads, Idle
  <2>2. TypeOK'
    BY <1>1, <1>2, <1>4, <2>1 DEF TypeOK, Bytes
  <2>3. intact /\ asked # NoCall =>
          asked.prop = StreamRaw /\ got'.frame = asked.value /\ got'.rssi = Rssi /\ got'.lqi = Lqi
    <3>. SUFFICES ASSUME intact, asked # NoCall
                  PROVE  asked.prop = StreamRaw /\ got'.frame = asked.value /\ got'.rssi = Rssi /\ got'.lqi = Lqi
      OBVIOUS
    <3>1. asked.prop = StreamRaw /\ line = Delivered
      BY <1>1 DEF LinkInv, LineInv
    <3>. DEFINE r == Spinel(0, Is, StreamRaw, asked.value \o <<ByteOf(Rssi), Lqi>>)
    <3>2. /\ Frames(HdlcEncode(r)) = {r} /\ HandleSpinelFrame(r).frame = asked.value
          /\ HandleSpinelFrame(r).rssi = Rssi /\ HandleSpinelFrame(r).lqi = Lqi
      BY <1>2, DeliveredIsReceived
    <3>3. line = HdlcEncode(r)
      BY <3>1 DEF Delivered
    <3>. HIDE DEF r
    <3>4. Decoded = {r}
      BY <3>2, <3>3 DEF Decoded
    <3>5. got' = HandleSpinelFrame(r)
      BY <1>1, <3>4
    <3>. QED BY <3>1, <3>2, <3>5
  <2>. QED BY <2>1, <2>2, <2>3 DEF LinkInv, LineInv, CommandsArriveAsGiven
<1>. QED BY <1>5, <1>6

LEMMA LinkKeeps == LinkInv /\ [Next]_vars => LinkInv'
<1>. SUFFICES ASSUME LinkInv, [Next]_vars
              PROVE  LinkInv'
  OBVIOUS
<1>1. ASSUME NEW f \in RawFrame, Call(StreamRaw, f)
      PROVE  LinkInv'
  <2>1. f \in Bytes
    BY ConstantsAssumption DEF Bytes
  <2>. QED BY <1>1, <2>1, CallKeeps
<1>2. ASSUME NEW p \in DOMAIN Properties, NEW v \in Properties[p], Call(p, v)
      PROVE  LinkInv'
  <2>1. v \in Bytes
    BY ConstantsAssumption DEF Bytes
  <2>. QED BY <1>2, <2>1, CallKeeps
<1>3. ASSUME NEW s \in Upward, RadioSends(s)
      PROVE  LinkInv'
  BY <1>3, RadioSendsKeeps
<1>4. ASSUME NEW b \in BOOLEAN, EnableMacAssociation(b)
      PROVE  LinkInv'
  BY <1>4, EnableKeeps
<1>5. ASSUME NEW i \in DOMAIN line, NEW w \in ToSet(Weights), FlipBit(i, w)
      PROVE  LinkInv'
  BY <1>5, FlipKeeps
<1>6. CASE RadioReads
  BY <1>6, RadioReadsKeeps
<1>7. CASE HostReads
  BY <1>7, HostReadsKeeps
<1>8. CASE UNCHANGED vars
  BY <1>8 DEF vars, LinkInv, TypeOK, LineInv, CommandsArriveAsGiven, Written, Delivered
<1>. QED BY <1>1, <1>2, <1>3, <1>4, <1>5, <1>6, <1>7, <1>8 DEF Next

(* The line keeps its invariant.                                           *)
THEOREM LinkInvariant == Spec => []LinkInv
BY LinkStarts, LinkKeeps, PTL DEF Spec

(* Whatever is called and whatever a line does to it, every variable has   *)
(* its type: also what a radio or a host makes of damaged bytes.           *)
THEOREM LinkTyped == Spec => []TypeOK
<1>1. LinkInv => TypeOK
  BY DEF LinkInv
<1>. QED BY <1>1, LinkInvariant, PTL

(* sendRawFrame and the property calls, through driver, line and radio:    *)
(* what was given arrives, for all frames, properties and values.          *)
THEOREM CommandsAlwaysArrive == Spec => []CommandsArriveAsGiven
<1>1. LinkInv => CommandsArriveAsGiven
  BY DEF LinkInv
<1>. QED BY <1>1, LinkInvariant, PTL

(* Both header parsers, on whatever a host is handed.                      *)
THEOREM LinkHeadersSound == Spec => []HeadersAreSound
<1>1. LinkInv => HeadersAreSound
  <2>1. LinkInv => got.frame \in Bytes
    BY DEF LinkInv, TypeOK, Bytes
  <2>. QED BY <2>1, HeadersAlwaysLieInside, HeadersAlwaysReadBack DEF HeadersAreSound
<1>. QED BY <1>1, LinkInvariant, PTL

LEMMA DamageStep ==
  ASSUME LinkInv, Next, intact, ~intact'
  PROVE  Decoded' = {} \/ (at' = at /\ Controls(line') # Controls(line))
<1>1. ASSUME NEW prop \in DOMAIN Properties \cup {StreamRaw}, NEW value \in Bytes, Write(prop, value)
      PROVE  Decoded' = {}
  BY <1>1, WriteLeaves
<1>2. ASSUME NEW f \in RawFrame, Call(StreamRaw, f)
      PROVE  Decoded' = {}
  <2>1. f \in Bytes
    BY ConstantsAssumption DEF Bytes
  <2>. QED BY <1>1, <1>2, <2>1 DEF Call
<1>3. ASSUME NEW p \in DOMAIN Properties, NEW v \in Properties[p], Call(p, v)
      PROVE  Decoded' = {}
  <2>1. v \in Bytes
    BY ConstantsAssumption DEF Bytes
  <2>. QED BY <1>1, <1>3, <2>1 DEF Call
<1>4. ASSUME NEW i \in DOMAIN line, NEW w \in ToSet(Weights), FlipBit(i, w)
      PROVE  Decoded' = {} \/ (at' = at /\ Controls(line') # Controls(line))
  <2>1. line' = [line EXCEPT ![i] = Flip(@, w)] /\ at' = at
    BY <1>4 DEF FlipBit
  <2>2. PICK s \in Bytes : line = HdlcEncode(s)
    BY IntactLineIsEncoded
  <2>3. Controls(line') = Controls(line) => Frames(line') = {}
    BY <2>1, <2>2, FlippedLinesAreDropped
  <2>. QED BY <2>1, <2>3 DEF Decoded
<1>5. CASE HostReads
  BY <1>1, <1>5, ResponseIsBytes DEF HostReads
<1>6. ~RadioReads /\ (\A s \in Upward : ~RadioSends(s)) /\ \A b \in BOOLEAN : ~EnableMacAssociation(b)
  BY DEF RadioReads, RadioSends, EnableMacAssociation
<1>. QED BY <1>2, <1>3, <1>4, <1>5, <1>6 DEF Next

(* A line that was cut anywhere, or of which one bit was flipped without a *)
(* flag or an escape coming or going, is never taken for a frame, by radio *)
(* or host, whatever frame it carried.                                     *)
THEOREM DamageIsAlwaysNoticed == Spec => DamageIsNoticed
<1>1. LinkInv /\ [Next]_vars =>
        [intact /\ ~intact' => Decoded' = {} \/ (at' = at /\ Controls(line') # Controls(line))]_vars
  BY DamageStep
<1>. QED BY <1>1, LinkInvariant, PTL DEF Spec, DamageIsNoticed
=============================================================================
