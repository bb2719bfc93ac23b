-------------------------- MODULE NwkFramesProofs --------------------------
(***************************************************************************)
(* ZigbeeNwk's frames and route table, for any nodes, routes and data: the *)
(* hops of a route, the payload and the place where a frame is cut are     *)
(* arbitrary.                                                              *)
(***************************************************************************)
EXTENDS NwkFrames, BytesProofs

(* A source route as long as the count in a frame can say. *)
Countable(p) == p \in Seq(0 .. Broadcast) /\ Len(p) < CountRange

EndsAt(p, a) == p # <<>> => Last(p) = a

(* The routes in the table, and the one that the rx thread is about to     *)
(* write into it, lead to their destination.                               *)
RoutesOK ==
  /\ \A a \in Dest : Countable(route[a]) /\ EndsAt(route[a], a)
  /\ Countable(learned.path) /\ EndsAt(learned.path, learned.dst)
  /\ rx # "idle" => learned.dst \in Dest

(* What the sender has, at each place. *)
SenderOK ==
  /\ pc \in {"lookup", "discover", "mark", "copy"} => want.dst \in Dest
  /\ pc # "idle" => want \in Messages
  /\ pc \notin {"build", "sent"} => path = <<>>
  /\ Countable(path)
  /\ ~torn => EndsAt(path, want.dst)
  /\ pc = "sent" =>
       \E radius \in 1 .. Byte - 1, seqNum \in 0 .. Byte - 1 :
         frame = BuildNwkFrame(want.payload, want.dst, Own, radius, seqNum, path)

RepairOK == rpc # "idle" => broken \in Dest

TableInv == TypeOK /\ RoutesOK /\ SenderOK /\ RepairOK

(* What a thread that has asked for a discovery knows of the state, which  *)
(* it read and others write: the rx thread, that it is in progress; anyone *)
(* who found it was not, that no repair has begun since unawares.          *)
ProgressOK ==
  /\ rx = "discover" => state[learned.dst] \in InProgress
  /\ \A a \in Dest : state[a] = "repair" => Deciding(a) \subseteq overtaken

(* The inductive invariant. *)
FramesInv == TableInv /\ ProgressOK

-----------------------------------------------------------------------------
(* The layout of a frame: the fixed header, the source route, the payload. *)

FixedPart(flag, seqNum, dstAddr, srcAddr, radius) ==
  <<flag, seqNum>> \o Field(dstAddr) \o Field(srcAddr) \o <<radius>>

Hops(p) == IF p = <<>> THEN <<>> ELSE <<Extension, Len(p) % CountRange>> \o Fields(p)

FlagOf(p) == IF p = <<>> THEN 0 ELSE RouteFlag

LEMMA Small ==
  /\ Broadcast = Byte * Byte - 1
  /\ <<>> \in Bytes /\ Len(<<>>) = 0
  /\ \A a \in 0 .. Byte - 1 : <<a>> \in Bytes /\ Len(<<a>>) = 1 /\ <<a>>[1] = a
  /\ \A a, b \in 0 .. Byte - 1 :
       <<a, b>> \in Bytes /\ Len(<<a, b>>) = 2 /\ <<a, b>>[1] = a /\ <<a, b>>[2] = b
<1>1. Broadcast = Byte * Byte - 1
  BY DEF Byte, Broadcast
<1>2. <<>> \in Bytes /\ Len(<<>>) = 0
  BY DEF Bytes
<1>3. ASSUME NEW a \in 0 .. Byte - 1
      PROVE  <<a>> \in Bytes /\ Len(<<a>>) = 1 /\ <<a>>[1] = a
  BY DEF Bytes
<1>4. ASSUME NEW a \in 0 .. Byte - 1, NEW b \in 0 .. Byte - 1
      PROVE  <<a, b>> \in Bytes /\ Len(<<a, b>>) = 2 /\ <<a, b>>[1] = a /\ <<a, b>>[2] = b
  BY DEF Bytes
<1>. QED BY <1>1, <1>2, <1>3, <1>4

LEMMA FixedPartLayout ==
  ASSUME NEW flag \in 0 .. Byte - 1, NEW seqNum \in 0 .. Byte - 1, NEW radius \in 0 .. Byte - 1,
         NEW dstAddr \in 0 .. Broadcast, NEW srcAddr \in 0 .. Broadcast
  PROVE  LET h == FixedPart(flag, seqNum, dstAddr, srcAddr, radius)
         IN  /\ h \in Bytes /\ Len(h) = 7
             /\ h[1] = flag /\ h[2] = seqNum /\ h[7] = radius
             /\ LiesAt(Field(dstAddr), h, 3) /\ LiesAt(Field(srcAddr), h, 5)
<1>. DEFINE a == <<flag, seqNum>>
            b == Field(dstAddr)
            c == Field(srcAddr)
            d == <<radius>>
<1>1. /\ a \in Bytes /\ Len(a) = 2 /\ a[1] = flag /\ a[2] = seqNum
      /\ d \in Bytes /\ Len(d) = 1 /\ d[1] = radius
  BY Small
<1>2. b \in Bytes /\ Len(b) = 2 /\ c \in Bytes /\ Len(c) = 2
  BY Small, FieldIsTwoBytes
<1>3. FixedPart(flag, seqNum, dstAddr, srcAddr, radius) = ((a \o b) \o c) \o d
  BY DEF FixedPart
<1>. HIDE DEF a, b, c, d
<1>4. a \o b \in Bytes /\ Len(a \o b) = 4 /\ LiesAt(a, a \o b, 1) /\ LiesAt(b, a \o b, 3)
  <2>1. a \in Bytes /\ b \in Bytes /\ 4 = Len(a) + Len(b) /\ 3 = Len(a) + 1
    BY <1>1, <1>2
  <2>. QED BY <2>1, PlacesInConcat
<1>. DEFINE ab == a \o b
<1>. HIDE DEF ab
<1>5. /\ ab \o c \in Bytes /\ Len(ab \o c) = 6
      /\ LiesAt(ab, ab \o c, 1) /\ LiesAt(c, ab \o c, 5)
  <2>1. ab \in Bytes /\ c \in Bytes /\ 6 = Len(ab) + Len(c) /\ 5 = Len(ab) + 1
    BY <1>2, <1>4 DEF ab
  <2>. QED BY <2>1, PlacesInConcat
<1>6. LiesAt(a, ab \o c, 1) /\ LiesAt(b, ab \o c, 3)
  <2>1. /\ ab \in Bytes /\ c \in Bytes /\ a \in Bytes /\ b \in Bytes
        /\ 1 + Len(a) - 1 <= Len(ab) /\ 3 + Len(b) - 1 <= Len(ab)
        /\ 1 \in Nat \ {0} /\ 3 \in Nat \ {0} /\ LiesAt(a, ab, 1) /\ LiesAt(b, ab, 3)
    BY <1>1, <1>2, <1>4 DEF ab
  <2>. QED BY <2>1, PlacesInConcat
<1>. DEFINE abc == ab \o c
<1>. HIDE DEF abc
<1>7. /\ abc \o d \in Bytes /\ Len(abc \o d) = 7
      /\ LiesAt(d, abc \o d, 7)
  <2>1. abc \in Bytes /\ d \in Bytes /\ 7 = Len(abc) + Len(d) /\ 7 = Len(abc) + 1
    BY <1>1, <1>5 DEF abc
  <2>. QED BY <2>1, PlacesInConcat
<1>8. LiesAt(a, abc \o d, 1) /\ LiesAt(b, abc \o d, 3) /\ LiesAt(c, abc \o d, 5)
  <2>1. /\ abc \in Bytes /\ d \in Bytes /\ a \in Bytes /\ b \in Bytes /\ c \in Bytes
        /\ 1 + Len(a) - 1 <= Len(abc) /\ 3 + Len(b) - 1 <= Len(abc) /\ 5 + Len(c) - 1 <= Len(abc)
        /\ 1 \in Nat \ {0} /\ 3 \in Nat \ {0} /\ 5 \in Nat \ {0}
        /\ LiesAt(a, abc, 1) /\ LiesAt(b, abc, 3) /\ LiesAt(c, abc, 5)
    BY <1>1, <1>2, <1>5, <1>6 DEF abc
  <2>. QED BY <2>1, PlacesInConcat
<1>. DEFINE h == abc \o d
<1>. HIDE DEF h
<1>9. h[1] = flag /\ h[2] = seqNum /\ h[7] = radius
  <2>1. h[1 + 1 - 1] = a[1] /\ h[1 + 2 - 1] = a[2] /\ h[7 + 1 - 1] = d[1]
    BY <1>1, <1>7, <1>8 DEF LiesAt, h
  <2>. QED BY <1>1, <2>1
<1>. QED BY <1>3, <1>7, <1>8, <1>9 DEF h, abc, ab, b, c

LEMMA CountableIsFields ==
  ASSUME NEW p, Countable(p)
  PROVE  /\ p \in Fields16 /\ Len(p) \in 0 .. CountRange - 1 /\ Len(p) \in 0 .. Byte - 1
         /\ Len(p) % CountRange = Len(p)
<1>1. p \in Fields16 /\ Len(p) \in Nat
  BY LenProperties, Small DEF Countable, Fields16
<1>2. CountRange \in 1 .. Byte /\ Len(p) < CountRange
  BY ConstantsAssumption DEF Countable
<1>3. CountRange \in Nat \ {0} /\ CountRange <= Byte /\ Byte \in Nat
  BY <1>2 DEF Byte
<1>4. Len(p) \in 0 .. CountRange - 1 /\ Len(p) \in 0 .. Byte - 1
  BY <1>1, <1>2, <1>3
<1>5. \A m \in Nat \ {0}, n \in Nat : n < m => n % m = n
  OBVIOUS
<1>. QED BY <1>1, <1>2, <1>3, <1>4, <1>5

(* A list of hops: its length, then the hops. *)
LEMMA ListLayout ==
  ASSUME NEW c \in 0 .. Byte - 1, NEW p, Countable(p)
  PROVE  LET w == <<c, Len(p)>> \o Fields(p)
         IN  /\ w \in Bytes /\ Len(w) = 2 + 2 * Len(p)
             /\ w[1] = c /\ w[2] = Len(p) /\ LiesAt(Fields(p), w, 3)
<1>. DEFINE a == <<c, Len(p)>>
            F == Fields(p)
            w == a \o F
<1>1. p \in Fields16 /\ Len(p) \in 0 .. Byte - 1
  BY CountableIsFields
<1>2. a \in Bytes /\ Len(a) = 2 /\ a[1] = c /\ a[2] = Len(p)
  BY <1>1, Small
<1>3. F \in Bytes /\ Len(F) = 2 * Len(p)
  BY <1>1, FieldsAreBytes
<1>. HIDE DEF a, F
<1>4. w \in Bytes /\ Len(w) = 2 + 2 * Len(p) /\ LiesAt(a, w, 1) /\ LiesAt(F, w, 3)
  <2>1. a \in Bytes /\ F \in Bytes /\ 2 + 2 * Len(p) = Len(a) + Len(F) /\ 3 = Len(a) + 1
    BY <1>1, <1>2, <1>3
  <2>. QED BY <2>1, PlacesInConcat
<1>. HIDE DEF w
<1>5. w[1] = c /\ w[2] = Len(p)
  <2>1. w[1 + 1 - 1] = a[1] /\ w[1 + 2 - 1] = a[2]
    BY <1>2, <1>4 DEF LiesAt
  <2>. QED BY <1>2, <2>1
<1>. QED BY <1>4, <1>5 DEF w, a, F

LEMMA HopsLayout ==
  ASSUME NEW p, Countable(p), p # <<>>
  PROVE  /\ Hops(p) \in Bytes /\ Len(Hops(p)) = 2 + 2 * Len(p)
         /\ Hops(p)[1] = Extension /\ Hops(p)[2] = Len(p)
         /\ LiesAt(Fields(p), Hops(p), 3)
<1>1. Hops(p) = <<Extension, Len(p)>> \o Fields(p)
  BY CountableIsFields DEF Hops
<1>2. Extension \in 0 .. Byte - 1
  BY DEF Extension, Byte
<1>. QED BY <1>1, <1>2, ListLayout

(* Everything before the payload. *)
BeforePayload(seqNum, dstAddr, srcAddr, radius, p) == FixedPart(FlagOf(p), seqNum, dstAddr, srcAddr, radius) \o Hops(p)

LengthBefore(p) == IF p = <<>> THEN 7 ELSE 9 + 2 * Len(p)

LEMMA BeforePayloadLayout ==
  ASSUME NEW seqNum \in 0 .. Byte - 1, NEW radius \in 0 .. Byte - 1,
         NEW dstAddr \in 0 .. Broadcast, NEW srcAddr \in 0 .. Broadcast, NEW p, Countable(p)
  PROVE  LET h == BeforePayload(seqNum, dstAddr, srcAddr, radius, p)
         IN  /\ h \in Bytes /\ Len(h) = LengthBefore(p) /\ LengthBefore(p) \in Nat \ (0 .. 6)
             /\ h[1] = FlagOf(p) /\ h[2] = seqNum /\ h[7] = radius
             /\ LiesAt(Field(dstAddr), h, 3) /\ LiesAt(Field(srcAddr), h, 5)
             /\ p # <<>> => h[8] = Extension /\ h[9] = Len(p) /\ LiesAt(Fields(p), h, 10)
<1>. DEFINE a == FixedPart(FlagOf(p), seqNum, dstAddr, srcAddr, radius)
            b == Hops(p)
            h == a \o b
<1>1. FlagOf(p) \in 0 .. Byte - 1
  BY DEF FlagOf, RouteFlag, Byte
<1>2. /\ a \in Bytes /\ Len(a) = 7 /\ a[1] = FlagOf(p) /\ a[2] = seqNum /\ a[7] = radius
      /\ LiesAt(Field(dstAddr), a, 3) /\ LiesAt(Field(srcAddr), a, 5)
  BY <1>1, FixedPartLayout
<1>3. /\ Field(dstAddr) \in Bytes /\ Len(Field(dstAddr)) = 2
      /\ Field(srcAddr) \in Bytes /\ Len(Field(srcAddr)) = 2
  BY Small, FieldIsTwoBytes
<1>4. /\ p = <<>> => b \in Bytes /\ Len(b) = 0
      /\ p # <<>> =>
           /\ b \in Bytes /\ Len(b) = 2 + 2 * Len(p) /\ b[1] = Extension /\ b[2] = Len(p)
           /\ LiesAt(Fields(p), b, 3)
  BY Small, HopsLayout DEF Hops
<1>5. /\ p \in Fields16 /\ Len(p) \in Nat
      /\ Fields(p) \in Bytes /\ Len(Fields(p)) = 2 * Len(p)
  BY CountableIsFields, FieldsAreBytes
<1>. HIDE DEF a, b
<1>6. /\ h \in Bytes /\ Len(h) = 7 + Len(b) /\ LiesAt(a, h, 1) /\ LiesAt(b, h, 8)
  <2>1. a \in Bytes /\ b \in Bytes /\ 7 + Len(b) = Len(a) + Len(b) /\ 8 = Len(a) + 1
    BY <1>2, <1>4
  <2>. QED BY <2>1, PlacesInConcat
<1>7. LiesAt(Field(dstAddr), h, 3) /\ LiesAt(Field(srcAddr), h, 5)
  <2>1. /\ a \in Bytes /\ b \in Bytes
        /\ 3 + Len(Field(dstAddr)) - 1 <= Len(a) /\ 5 + Len(Field(srcAddr)) - 1 <= Len(a)
        /\ 3 \in Nat \ {0} /\ 5 \in Nat \ {0}
    BY <1>2, <1>3, <1>4
  <2>. QED BY <1>2, <1>3, <2>1, PlacesInConcat
<1>8. p # <<>> => LiesAt(Fields(p), h, 10)
  <2>1. ASSUME p # <<>>
        PROVE  LiesAt(Fields(p), h, 10)
    <3>1. 3 + Len(Fields(p)) - 1 <= Len(b) /\ 7 + 3 = 10 /\ 3 \in Nat \ {0}
      BY <1>4, <1>5, <2>1
    <3>2. LiesAt(Fields(p), h, Len(a) + 3)
      BY <1>2, <1>4, <1>5, <2>1, <3>1, LiesInConcat
    <3>. QED BY <1>2, <3>1, <3>2
  <2>. QED BY <2>1
<1>. HIDE DEF h
<1>9. h[1] = FlagOf(p) /\ h[2] = seqNum /\ h[7] = radius
  <2>1. h[1 + 1 - 1] = a[1] /\ h[1 + 2 - 1] = a[2] /\ h[1 + 7 - 1] = a[7]
    BY <1>2, <1>6 DEF LiesAt
  <2>. QED BY <1>2, <2>1
<1>10. p # <<>> => h[8] = Extension /\ h[9] = Len(p)
  <2>1. ASSUME p # <<>>
        PROVE  h[8 + 1 - 1] = b[1] /\ h[8 + 2 - 1] = b[2]
    BY <1>4, <1>5, <1>6, <2>1 DEF LiesAt
  <2>. QED BY <1>4, <2>1
<1>11. Len(h) = LengthBefore(p) /\ LengthBefore(p) \in Nat \ (0 .. 6)
  <2>1. CASE p = <<>>
    BY <1>4, <1>6, <2>1 DEF LengthBefore
  <2>2. CASE p # <<>>
    <3>1. Len(b) = 2 + 2 * Len(p)
      BY <1>4, <2>2
    <3>2. Len(h) = 9 + 2 * Len(p) /\ 9 + 2 * Len(p) \in Nat \ (0 .. 6)
      BY <1>5, <1>6, <3>1
    <3>. QED BY <2>2, <3>2 DEF LengthBefore
  <2>. QED BY <2>1, <2>2
<1>12. h = BeforePayload(seqNum, dstAddr, srcAddr, radius, p)
  BY DEF BeforePayload, h, a, b
<1>. QED BY <1>6, <1>7, <1>8, <1>9, <1>10, <1>11, <1>12

-----------------------------------------------------------------------------
(* What parseNwkHeader makes of a frame that is cut after n bytes.         *)

LEMMA RestOfShort ==
  /\ \A f \in Bytes : Len(f) = 7 => Rest(f, 8) = <<>>
  /\ \A f \in Bytes : Len(f) = 8 => Rest(f, 8) = <<f[8]>>
<1>1. ASSUME NEW f \in Bytes, Len(f) = 7
      PROVE  Rest(f, 8) = <<>>
  BY <1>1 DEF Rest, Bytes
<1>2. ASSUME NEW f \in Bytes, Len(f) = 8
      PROVE  Rest(f, 8) = <<f[8]>>
  <2>. DEFINE r == SubSeq(f, 8, 8)
  <2>1. \A i \in 8 .. 8 : f[i] \in 0 .. Byte - 1
    BY <1>2, BytesHaveLength
  <2>2. /\ r \in Bytes /\ Len(r) = IF 8 <= 8 THEN 8 - 8 + 1 ELSE 0
        /\ \A i \in 1 .. 8 - 8 + 1 : r[i] = f[8 + i - 1]
    BY <2>1, SubSeqProperties DEF Bytes
  <2>3. Len(r) = 1 /\ 1 \in 1 .. 8 - 8 + 1 /\ 8 + 1 - 1 = 8
    BY <2>2
  <2>4. r[1] = f[8]
    BY <2>2, <2>3
  <2>. HIDE DEF r
  <2>5. r = <<f[8]>>
    BY <2>2, <2>3, <2>4 DEF Bytes
  <2>. QED BY <1>2, <2>5 DEF Rest, r
<1>. QED BY <1>1, <1>2

LEMMA FrameLayout ==
  ASSUME NEW s \in Bytes, NEW seqNum \in 0 .. Byte - 1, NEW radius \in 0 .. Byte - 1,
         NEW dstAddr \in 0 .. Broadcast, NEW srcAddr \in 0 .. Broadcast, NEW p, Countable(p)
  PROVE  LET b == BeforePayload(seqNum, dstAddr, srcAddr, radius, p)
             w == BuildNwkFrame(s, dstAddr, srcAddr, radius, seqNum, p)
         IN  /\ b \in Bytes /\ Len(b) = LengthBefore(p) /\ LengthBefore(p) \in Nat \ (0 .. 6)
             /\ w = b \o s /\ w \in Bytes /\ Len(w) = LengthBefore(p) + Len(s)
             /\ w[1] = FlagOf(p) /\ w[2] = seqNum /\ w[7] = radius
             /\ LiesAt(Field(dstAddr), w, 3) /\ LiesAt(Field(srcAddr), w, 5)
             /\ p # <<>> => w[8] = Extension /\ w[9] = Len(p) /\ LiesAt(Fields(p), w, 10)
<1>. DEFINE b == BeforePayload(seqNum, dstAddr, srcAddr, radius, p)
            w == b \o s
<1>1. /\ b \in Bytes /\ Len(b) = LengthBefore(p) /\ LengthBefore(p) \in Nat \ (0 .. 6)
      /\ b[1] = FlagOf(p) /\ b[2] = seqNum /\ b[7] = radius
      /\ LiesAt(Field(dstAddr), b, 3) /\ LiesAt(Field(srcAddr), b, 5)
      /\ p # <<>> => b[8] = Extension /\ b[9] = Len(p) /\ LiesAt(Fields(p), b, 10)
  BY BeforePayloadLayout
<1>2. w = BuildNwkFrame(s, dstAddr, srcAddr, radius, seqNum, p)
  BY DEF w, b, BeforePayload, BuildNwkFrame, FixedPart, Hops, FlagOf
<1>3. /\ Len(Field(dstAddr)) = 2 /\ Field(dstAddr) \in Bytes
      /\ Len(Field(srcAddr)) = 2 /\ Field(srcAddr) \in Bytes
      /\ Len(Fields(p)) = 2 * Len(p) /\ Fields(p) \in Bytes /\ Len(p) \in Nat /\ Len(s) \in Nat
  BY Small, FieldIsTwoBytes, CountableIsFields, FieldsAreBytes, BytesHaveLength
<1>4. p # <<>> => LengthBefore(p) = 9 + 2 * Len(p)
  BY DEF LengthBefore
<1>. HIDE DEF b
<1>5. /\ w \in Bytes /\ Len(w) = LengthBefore(p) + Len(s) /\ LiesAt(b, w, 1)
  BY <1>1, ConcatOfBytes
<1>6. LiesAt(Field(dstAddr), w, 3) /\ LiesAt(Field(srcAddr), w, 5)
  <2>1. /\ 3 + Len(Field(dstAddr)) - 1 <= Len(b) /\ 5 + Len(Field(srcAddr)) - 1 <= Len(b)
        /\ 3 \in Nat \ {0} /\ 5 \in Nat \ {0}
    BY <1>1, <1>3
  <2>. QED BY <1>1, <1>3, <2>1, LiesInConcat
<1>7. p # <<>> => LiesAt(Fields(p), w, 10)
  <2>1. p # <<>> => 10 + Len(Fields(p)) - 1 <= Len(b) /\ 10 \in Nat \ {0}
    BY <1>1, <1>3, <1>4
  <2>. QED BY <1>1, <1>3, <2>1, LiesInConcat
<1>. HIDE DEF w
<1>8. w[1] = FlagOf(p) /\ w[2] = seqNum /\ w[7] = radius
  <2>1. w[1 + 1 - 1] = b[1] /\ w[1 + 2 - 1] = b[2] /\ w[1 + 7 - 1] = b[7]
    BY <1>1, <1>5 DEF LiesAt
  <2>. QED BY <1>1, <2>1
<1>9. p # <<>> => w[8] = Extension /\ w[9] = Len(p)
  <2>1. p # <<>> => 8 \in 1 .. Len(b) /\ 9 \in 1 .. Len(b)
    BY <1>1, <1>3, <1>4
  <2>2. p # <<>> => w[1 + 8 - 1] = b[8] /\ w[1 + 9 - 1] = b[9]
    BY <1>5, <2>1 DEF LiesAt
  <2>. QED BY <1>1, <2>2
<1>. QED BY <1>1, <1>2, <1>5, <1>6, <1>7, <1>8, <1>9 DEF w, b

LEMMA FlagIsBit ==
  ASSUME NEW p
  PROVE  Bit(FlagOf(p), RouteFlag) <=> p # <<>>
BY DEF FlagOf, Bit, RouteFlag

(* A cut frame is refused, or taken for one without a source route that    *)
(* carries one byte at most, or nothing but its payload is cut.            *)
LEMMA CutFrameParses ==
  ASSUME NEW s \in Bytes, NEW seqNum \in 0 .. Byte - 1, NEW radius \in 0 .. Byte - 1,
         NEW dstAddr \in 0 .. Broadcast, NEW srcAddr \in 0 .. Broadcast, NEW p, Countable(p),
         NEW n \in 0 .. LengthBefore(p) + Len(s)
  PROVE  LET h == ParseNwkHeader(SubSeq(BuildNwkFrame(s, dstAddr, srcAddr, radius, seqNum, p), 1, n))
         IN  /\ n < LengthBefore(p) => h = Refused \/ (h.ok /\ h.payload \in {<<>>, <<Extension>>})
             /\ n >= LengthBefore(p) =>
                  h = [ok |-> TRUE, seq |-> seqNum, dst |-> dstAddr, src |-> srcAddr, radius |-> radius,
                       path |-> p, payload |-> SubSeq(s, 1, n - LengthBefore(p))]
<1>. DEFINE b == BeforePayload(seqNum, dstAddr, srcAddr, radius, p)
            w == BuildNwkFrame(s, dstAddr, srcAddr, radius, seqNum, p)
            f == SubSeq(w, 1, n)
            h == ParseNwkHeader(f)
<1>1. /\ b \in Bytes /\ Len(b) = LengthBefore(p) /\ LengthBefore(p) \in Nat \ (0 .. 6)
      /\ w = b \o s /\ w \in Bytes /\ Len(w) = LengthBefore(p) + Len(s)
      /\ w[1] = FlagOf(p) /\ w[2] = seqNum /\ w[7] = radius
      /\ LiesAt(Field(dstAddr), w, 3) /\ LiesAt(Field(srcAddr), w, 5)
      /\ p # <<>> => w[8] = Extension /\ w[9] = Len(p) /\ LiesAt(Fields(p), w, 10)
  BY FrameLayout
<1>2. /\ Len(Field(dstAddr)) = 2 /\ Field(dstAddr) \in Bytes /\ dstAddr \in 0 .. Byte * Byte - 1
      /\ Len(Field(srcAddr)) = 2 /\ Field(srcAddr) \in Bytes /\ srcAddr \in 0 .. Byte * Byte - 1
      /\ Len(Fields(p)) = 2 * Len(p) /\ Fields(p) \in Bytes /\ Len(p) \in Nat /\ p \in Fields16
      /\ Len(s) \in Nat
  BY Small, FieldIsTwoBytes, CountableIsFields, FieldsAreBytes, BytesHaveLength
<1>3. (p = <<>> => LengthBefore(p) = 7) /\ (p # <<>> => LengthBefore(p) = 9 + 2 * Len(p))
  BY DEF LengthBefore
<1>. HIDE DEF w, b
<1>4. f \in Bytes /\ Len(f) = n /\ n \in Nat /\ \A i \in 1 .. n : f[i] = w[i]
  <2>1. n \in 0 .. Len(w) /\ n \in Nat
    BY <1>1, <1>2
  <2>. QED BY <1>1, <2>1, CutOfBytes
<1>5. n >= 10 + Len(Fields(p)) - 1 /\ p # <<>> => LiesAt(Fields(p), f, 10)
  <2>1. 10 \in Nat \ {0} /\ n \in 0 .. Len(w)
    BY <1>1, <1>2
  <2>2. n >= 10 + Len(Fields(p)) - 1 => 10 + Len(Fields(p)) - 1 <= n
    BY <1>2, <1>4
  <2>. QED BY <1>1, <1>2, <2>1, <2>2, LiesInCut
<1>6. n >= 7 => LiesAt(Field(dstAddr), f, 3) /\ LiesAt(Field(srcAddr), f, 5)
  <2>1. ASSUME n >= 7
        PROVE  /\ 3 \in Nat \ {0} /\ 5 \in Nat \ {0} /\ n \in 0 .. Len(w)
               /\ 3 + Len(Field(dstAddr)) - 1 <= n /\ 5 + Len(Field(srcAddr)) - 1 <= n
    BY <1>1, <1>2, <1>4, <2>1
  <2>. QED BY <1>1, <1>2, <2>1, LiesInCut
<1>7. n >= LengthBefore(p) => Rest(f, LengthBefore(p) + 1) = SubSeq(s, 1, n - LengthBefore(p))
  <2>1. ASSUME n >= LengthBefore(p)
        PROVE  Rest(f, LengthBefore(p) + 1) = SubSeq(s, 1, n - LengthBefore(p))
    <3>. DEFINE k == n - LengthBefore(p)
    <3>1. k \in 0 .. Len(s) /\ n = Len(b) + k
      <4>1. LengthBefore(p) \in Nat /\ n <= LengthBefore(p) + Len(s)
        BY <1>1, <1>2
      <4>2. \A x, y, z \in Nat : x <= y + z /\ x >= y => x - y \in 0 .. z /\ x = y + (x - y)
        OBVIOUS
      <4>3. k \in 0 .. Len(s) /\ n = LengthBefore(p) + k
        BY <1>2, <1>4, <2>1, <4>1, <4>2
      <4>. QED BY <1>1, <4>3
    <3>. HIDE DEF k
    <3>2. Rest(SubSeq(b \o s, 1, Len(b) + k), Len(b) + 1) = SubSeq(s, 1, k)
      BY <1>1, <3>1, RestOfCut
    <3>. QED BY <1>1, <3>1, <3>2 DEF k
  <2>. QED BY <2>1
<1>. HIDE DEF f
<1>8. n >= 7 => /\ f[1] = FlagOf(p) /\ f[2] = seqNum /\ f[7] = radius
                /\ FieldAt(f, 3) = dstAddr /\ FieldAt(f, 5) = srcAddr
  <2>1. ASSUME n >= 7
        PROVE  1 \in 1 .. n /\ 2 \in 1 .. n /\ 7 \in 1 .. n /\ 3 \in Nat /\ 5 \in Nat
    BY <1>4, <2>1
  <2>2. n >= 7 => f[1] = FlagOf(p) /\ f[2] = seqNum /\ f[7] = radius
    BY <1>1, <1>4, <2>1
  <2>3. n >= 7 => FieldAt(f, 3) = dstAddr /\ FieldAt(f, 5) = srcAddr
    BY <1>2, <1>6, <2>1, FieldReads
  <2>. QED BY <2>2, <2>3
<1>9. CASE n < 7
  <2>1. h = Refused
    BY <1>4, <1>9 DEF ParseNwkHeader
  <2>2. ~(n >= LengthBefore(p))
    <3>1. \A k \in Nat \ (0 .. 6) : ~(n >= k)
      BY <1>4, <1>9
    <3>. QED BY <1>1, <3>1
  <2>. QED BY <2>1, <2>2 DEF f, w
<1>10. CASE n >= 7 /\ p = <<>>
  <2>1. ~Extended(f) /\ ~(Len(f) < 7) /\ LengthBefore(p) = 7 /\ n >= LengthBefore(p)
    BY <1>3, <1>4, <1>8, <1>10, FlagIsBit DEF Extended
  <2>2. h = Header(f, <<>>, Rest(f, 8))
    BY <2>1 DEF ParseNwkHeader
  <2>3. Rest(f, 8) = SubSeq(s, 1, n - LengthBefore(p)) /\ ~(n < LengthBefore(p))
    BY <1>1, <1>4, <1>7, <2>1
  <2>4. h = [ok |-> TRUE, seq |-> seqNum, dst |-> dstAddr, src |-> srcAddr, radius |-> radius,
             path |-> p, payload |-> SubSeq(s, 1, n - LengthBefore(p))]
    BY <1>8, <1>10, <2>2, <2>3 DEF Header
  <2>. QED BY <2>3, <2>4 DEF f, w
<1>11. CASE (n = 7 \/ n = 8) /\ p # <<>>
  <2>1. ~Extended(f) /\ ~(Len(f) < 7) /\ ~(n >= LengthBefore(p)) /\ n >= 7
    BY <1>2, <1>3, <1>4, <1>11 DEF Extended
  <2>2. h = Header(f, <<>>, Rest(f, 8))
    BY <2>1 DEF ParseNwkHeader
  <2>3. n = 8 => f[8] = Extension
    <3>1. ASSUME n = 8
          PROVE  8 \in 1 .. n
      BY <3>1
    <3>. QED BY <1>1, <1>4, <1>11, <3>1
  <2>4. Rest(f, 8) \in {<<>>, <<Extension>>}
    BY <1>4, <1>11, <2>3, RestOfShort
  <2>5. h.ok /\ h.payload \in {<<>>, <<Extension>>}
    BY <2>2, <2>4 DEF Header
  <2>. QED BY <2>1, <2>5 DEF f, w
<1>12. CASE n >= 9 /\ p # <<>>
  <2>1. n >= 7 /\ 8 \in 1 .. n /\ 9 \in 1 .. n
    BY <1>4, <1>12
  <2>2. f[8] = Extension /\ f[9] = Len(p)
    BY <1>1, <1>4, <1>12, <2>1
  <2>3. Extended(f) /\ Len(f) >= 7 /\ ~(Len(f) < 7)
    <3>1. Len(f) > 8 /\ Len(f) >= 7 /\ ~(Len(f) < 7)
      BY <1>4, <1>12
    <3>2. Bit(f[1], RouteFlag)
      BY <1>8, <1>12, <2>1, FlagIsBit
    <3>. QED BY <2>2, <3>1, <3>2 DEF Extended
  <2>4. h = IF Len(f) < 9 + 2 * f[9] THEN Refused
            ELSE Header(f, FieldsAt(f, 10, f[9]), Rest(f, 10 + 2 * f[9]))
    BY <2>3 DEF ParseNwkHeader
  <2>5. CASE n < LengthBefore(p)
    <3>1. Len(f) < 9 + 2 * f[9] /\ ~(n >= LengthBefore(p))
      BY <1>2, <1>3, <1>4, <1>12, <2>2, <2>5
    <3>2. h = Refused
      BY <2>4, <3>1
    <3>. QED BY <3>1, <3>2 DEF f, w
  <2>6. CASE ~(n < LengthBefore(p))
    <3>1. /\ ~(Len(f) < 9 + 2 * f[9]) /\ n >= LengthBefore(p) /\ 10 + 2 * f[9] = LengthBefore(p) + 1
          /\ n >= 10 + Len(Fields(p)) - 1 /\ 10 \in Nat
      BY <1>2, <1>3, <1>4, <1>12, <2>2, <2>6
    <3>2. FieldsAt(f, 10, Len(p)) = p
      BY <1>2, <1>5, <1>12, <3>1, FieldsRead
    <3>3. Rest(f, 10 + 2 * f[9]) = SubSeq(s, 1, n - LengthBefore(p))
      BY <1>7, <3>1
    <3>4. h = Header(f, p, SubSeq(s, 1, n - LengthBefore(p)))
      BY <2>2, <2>4, <3>1, <3>2, <3>3
    <3>5. h = [ok |-> TRUE, seq |-> seqNum, dst |-> dstAddr, src |-> srcAddr, radius |-> radius,
               path |-> p, payload |-> SubSeq(s, 1, n - LengthBefore(p))]
      BY <1>8, <2>1, <3>4 DEF Header
    <3>. QED BY <2>6, <3>5 DEF f, w
  <2>. QED BY <2>5, <2>6
<1>13. n < 7 \/ (n >= 7 /\ p = <<>>) \/ ((n = 7 \/ n = 8) /\ p # <<>>) \/ (n >= 9 /\ p # <<>>)
  BY <1>4
<1>. QED BY <1>9, <1>10, <1>11, <1>12, <1>13

-----------------------------------------------------------------------------
(* What is sent and heard: the payloads.                                   *)

LEMMA ConstantTypes ==
  /\ Dest \subseteq 0 .. Broadcast - 1 /\ Own \in 0 .. Broadcast - 1
  /\ Addr \subseteq 0 .. Broadcast /\ Own \notin Addr
  /\ \A p \in Path : Countable(p)
  /\ CountRange \in 1 .. Byte /\ SeqRange \in 1 .. Byte /\ Radius \in 1 .. Byte - 1
  /\ \A x \in 0 .. Broadcast - 1 : x \in 0 .. Broadcast
<1>1. /\ Dest \subseteq 0 .. Broadcast - 1 /\ Own \in (0 .. Broadcast - 1) \ Dest
      /\ CountRange \in 1 .. Byte /\ SeqRange \in 1 .. Byte /\ Radius \in 1 .. Byte - 1
  BY ConstantsAssumption
<1>2. Broadcast \in Nat
  BY DEF Broadcast, Byte
<1>3. Addr \subseteq 0 .. Broadcast /\ Own \notin Addr
  <2>1. \A a \in 0 .. Broadcast - 1 : a \in 0 .. Broadcast /\ a # Broadcast
    BY <1>2
  <2>2. Broadcast \in 0 .. Broadcast
    BY <1>2
  <2>. QED BY <1>1, <2>1, <2>2 DEF Addr
<1>4. \A p \in Path : Countable(p)
  BY ConstantsAssumption DEF Countable
<1>5. \A x \in 0 .. Broadcast - 1 : x \in 0 .. Broadcast
  BY <1>2
<1>. QED BY <1>1, <1>3, <1>4, <1>5

LEMMA DataTypes ==
  ASSUME NEW d \in Data
  PROVE  /\ d.secure \in BOOLEAN /\ d.dstEp \in 0 .. Byte - 1 /\ d.srcEp \in 0 .. Byte - 1
         /\ d.cluster \in 0 .. Broadcast /\ d.payload \in Bytes
         /\ d = [secure |-> d.secure, dstEp |-> d.dstEp, cluster |-> d.cluster, srcEp |-> d.srcEp,
                 payload |-> d.payload]
BY ConstantsAssumption DEF Bytes

(* The layout of a frame of the APS.                                       *)
LEMMA ApsLayout ==
  ASSUME NEW c \in 0 .. Byte - 1, NEW dstEp \in 0 .. Byte - 1, NEW srcEp \in 0 .. Byte - 1,
         NEW cluster \in 0 .. Broadcast, NEW P \in Bytes
  PROVE  LET w == <<c, ApsCounter, dstEp>> \o Field(cluster) \o <<srcEp>> \o P
         IN  /\ w \in Bytes /\ Len(w) \in Nat \ (0 .. 5)
             /\ w[1] = c /\ w[3] = dstEp /\ FieldAt(w, 4) = cluster /\ w[6] = srcEp
             /\ Rest(w, 7) = P
<1>. DEFINE t == <<c, ApsCounter, dstEp>>
            F == Field(cluster)
            e == <<srcEp>>
<1>1. t \in Bytes /\ Len(t) = 3 /\ t[1] = c /\ t[3] = dstEp
  <2>1. \A x, y, z \in 0 .. Byte - 1 :
          <<x, y, z>> \in Bytes /\ Len(<<x, y, z>>) = 3 /\ <<x, y, z>>[1] = x /\ <<x, y, z>>[3] = z
    BY DEF Bytes
  <2>2. ApsCounter \in 0 .. Byte - 1
    BY DEF ApsCounter, Byte
  <2>. QED BY <2>1, <2>2
<1>2. F \in Bytes /\ Len(F) = 2 /\ cluster \in 0 .. Byte * Byte - 1
  BY Small, FieldIsTwoBytes
<1>3. e \in Bytes /\ Len(e) = 1 /\ e[1] = srcEp
  BY Small
<1>. HIDE DEF t, e
<1>. DEFINE tF  == t \o F
            tFe == tF \o e
            w   == tFe \o P
<1>. HIDE DEF F
<1>4. tF \in Bytes /\ Len(tF) = 5 /\ LiesAt(t, tF, 1) /\ LiesAt(F, tF, 4)
  <2>1. t \in Bytes /\ F \in Bytes /\ 5 = Len(t) + Len(F) /\ 4 = Len(t) + 1
    BY <1>1, <1>2
  <2>. QED BY <2>1, PlacesInConcat
<1>. HIDE DEF tF
<1>5. /\ tFe \in Bytes /\ Len(tFe) = 6 /\ LiesAt(t, tFe, 1) /\ LiesAt(F, tFe, 4) /\ LiesAt(e, tFe, 6)
  <2>1. /\ tF \in Bytes /\ e \in Bytes /\ 6 = Len(tF) + Len(e) /\ 6 = Len(tF) + 1
        /\ 1 + Len(t) - 1 <= Len(tF) /\ 4 + Len(F) - 1 <= Len(tF)
        /\ 1 \in Nat \ {0} /\ 4 \in Nat \ {0}
    BY <1>1, <1>2, <1>3, <1>4
  <2>2. tFe \in Bytes /\ Len(tFe) = 6 /\ LiesAt(e, tFe, 6)
    BY <2>1, PlacesInConcat
  <2>3. LiesAt(t, tFe, 1) /\ LiesAt(F, tFe, 4)
    BY <1>1, <1>2, <1>4, <2>1, LiesInConcat
  <2>. QED BY <2>2, <2>3
<1>. HIDE DEF tFe
<1>6. /\ w \in Bytes /\ Len(w) \in Nat \ (0 .. 5)
      /\ LiesAt(t, w, 1) /\ LiesAt(F, w, 4) /\ LiesAt(e, w, 6)
  <2>1. /\ 1 + Len(t) - 1 <= Len(tFe) /\ 4 + Len(F) - 1 <= Len(tFe) /\ 6 + Len(e) - 1 <= Len(tFe)
        /\ 1 \in Nat \ {0} /\ 4 \in Nat \ {0} /\ 6 \in Nat \ {0}
    BY <1>1, <1>2, <1>3, <1>5
  <2>2. w \in Bytes
    BY <1>5, ConcatOfBytes
  <2>3. LiesAt(t, w, 1) /\ LiesAt(F, w, 4) /\ LiesAt(e, w, 6)
    BY <1>1, <1>2, <1>3, <1>5, <2>1, LiesInConcat
  <2>4. Len(w) = Len(tFe) + Len(P) /\ Len(P) \in Nat
    BY <1>5, ConcatOfBytes, BytesHaveLength
  <2>5. Len(w) \in Nat \ (0 .. 5)
    BY <1>5, <2>4
  <2>. QED BY <2>2, <2>3, <2>5
<1>7. Rest(w, 7) = P
  <2>1. Rest(w, Len(tFe) + 1) = P
    BY <1>5, RestOfConcat
  <2>2. Len(tFe) + 1 = 7
    BY <1>5
  <2>. QED BY <2>1, <2>2
<1>8. w = <<c, ApsCounter, dstEp>> \o Field(cluster) \o <<srcEp>> \o P
  BY DEF w, tFe, tF, t, F, e
<1>. HIDE DEF w
<1>9. w[1] = c /\ w[3] = dstEp /\ w[6] = srcEp
  <2>1. w[1 + 1 - 1] = t[1] /\ w[1 + 3 - 1] = t[3] /\ w[6 + 1 - 1] = e[1]
    BY <1>1, <1>3, <1>6 DEF LiesAt
  <2>. QED BY <1>1, <1>3, <2>1
<1>10. FieldAt(w, 4) = cluster
  BY <1>2, <1>6, FieldReads DEF F
<1>. QED BY <1>6, <1>7, <1>8, <1>9, <1>10

(* handleNwkPayload finds in a frame of the APS what was put into it.      *)
LEMMA ApsFrameReads ==
  ASSUME NEW d \in Data
  PROVE  /\ ApsFrame(d) \in Bytes /\ Len(ApsFrame(d)) \in Nat \ (0 .. 5)
         /\ ApsFrame(d)[1] \in {0, ApsSecurity}
         /\ ApsIndication(ApsFrame(d)) = d
<1>. DEFINE c == IF d.secure THEN ApsSecurity ELSE 0
            w == ApsFrame(d)
<1>1. /\ d.secure \in BOOLEAN /\ d.dstEp \in 0 .. Byte - 1 /\ d.srcEp \in 0 .. Byte - 1
      /\ d.cluster \in 0 .. Broadcast /\ d.payload \in Bytes
      /\ d = [secure |-> d.secure, dstEp |-> d.dstEp, cluster |-> d.cluster, srcEp |-> d.srcEp,
              payload |-> d.payload]
  BY DataTypes
<1>2. c \in {0, ApsSecurity} /\ c \in 0 .. Byte - 1
  BY DEF ApsSecurity, Byte
<1>3. Bit(c, ApsSecurity) <=> d.secure
  <2>1. Bit(64, 64) /\ ~Bit(0, 64)
    BY DEF Bit
  <2>2. CASE d.secure
    BY <2>1, <2>2 DEF ApsSecurity
  <2>3. CASE ~d.secure
    BY <2>1, <2>3 DEF ApsSecurity
  <2>. QED BY <2>2, <2>3
<1>4. w = <<c, ApsCounter, d.dstEp>> \o Field(d.cluster) \o <<d.srcEp>> \o d.payload
  BY DEF ApsFrame
<1>. HIDE DEF c, w
<1>5. /\ w \in Bytes /\ Len(w) \in Nat \ (0 .. 5)
      /\ w[1] = c /\ w[3] = d.dstEp /\ FieldAt(w, 4) = d.cluster /\ w[6] = d.srcEp
      /\ Rest(w, 7) = d.payload
  <2>1. LET v == <<c, ApsCounter, d.dstEp>> \o Field(d.cluster) \o <<d.srcEp>> \o d.payload
        IN  /\ v \in Bytes /\ Len(v) \in Nat \ (0 .. 5)
            /\ v[1] = c /\ v[3] = d.dstEp /\ FieldAt(v, 4) = d.cluster /\ v[6] = d.srcEp
            /\ Rest(v, 7) = d.payload
    BY <1>1, <1>2, ApsLayout, SMTT(20)
  <2>. QED BY <1>4, <2>1
<1>6. Bit(w[1], ApsSecurity) = d.secure
  <2>1. Bit(w[1], ApsSecurity) <=> d.secure
    BY <1>3, <1>5
  <2>2. Bit(w[1], ApsSecurity) \in BOOLEAN
    BY DEF Bit
  <2>. QED BY <1>1, <2>1, <2>2, Zenon
<1>7. ApsIndication(w) = [secure |-> d.secure, dstEp |-> d.dstEp, cluster |-> d.cluster,
                          srcEp |-> d.srcEp, payload |-> d.payload]
  BY <1>5, <1>6, Zenon DEF ApsIndication
<1>. QED BY <1>1, <1>2, <1>5, <1>7 DEF w

LEMMA CommandOf ==
  ASSUME NEW h, h.ok
  PROVE  /\ h.payload = <<>> => Command(h) = 0
         /\ h.payload # <<>> /\ h.payload[1] \notin 1 .. 6 => Command(h) = 0
         /\ h.payload # <<>> /\ h.payload[1] \in 1 .. 6 => Command(h) = h.payload[1]
BY DEF Command, RouteRequest, LinkStatus

(* Only commands are handled, and none that is shorter than two bytes.     *)
LEMMA ShortIsIncomplete ==
  /\ ~Complete(Refused)
  /\ \A h : Complete(h) => /\ Command(h) \in {ManyToOne, RouteRecord, RouteError, LinkStatus}
                           /\ h.ok /\ h.payload # <<>> /\ h.payload[1] = Command(h)
  /\ \A h : Complete(h) /\ h.payload \in Bytes => Len(h.payload) >= 2
<1>1. ASSUME NEW h, Complete(h)
      PROVE  /\ Command(h) \in {ManyToOne, RouteRecord, RouteError, LinkStatus}
             /\ h.ok /\ h.payload # <<>> /\ h.payload[1] = Command(h)
  BY <1>1 DEF Complete, ManyToOneIsLong, RouteRecordIsLong, RouteErrorIsLong, LinkStatusIsLong,
     Command, ManyToOne, RouteRecord, RouteError, LinkStatus
<1>2. ASSUME NEW h, Complete(h), h.payload \in Bytes
      PROVE  Len(h.payload) >= 2
  <2>1. Len(h.payload) \in Nat
    BY <1>2, BytesHaveLength
  <2>. QED BY <1>2, <2>1 DEF Complete, ManyToOneIsLong, RouteRecordIsLong, RouteErrorIsLong, LinkStatusIsLong
<1>3. ~Complete(Refused)
  BY DEF Complete, ManyToOneIsLong, RouteRecordIsLong, RouteErrorIsLong, LinkStatusIsLong,
     Command, Refused, ManyToOne, RouteRecord, RouteError, LinkStatus
<1>. QED BY <1>1, <1>2, <1>3

(* Two bytes and an address, and a byte after that. *)
LEMMA FourByteLayout ==
  ASSUME NEW c \in 0 .. Byte - 1, NEW x \in 0 .. Byte - 1, NEW a \in 0 .. Broadcast
  PROVE  LET w == <<c, x>> \o Field(a)
         IN  w \in Bytes /\ Len(w) = 4 /\ w[1] = c /\ w[2] = x
<1>. DEFINE t == <<c, x>>
            F == Field(a)
            w == t \o F
<1>1. t \in Bytes /\ Len(t) = 2 /\ t[1] = c /\ t[2] = x
  BY Small
<1>2. F \in Bytes /\ Len(F) = 2
  BY Small, FieldIsTwoBytes
<1>. HIDE DEF t, F
<1>3. w \in Bytes /\ Len(w) = 4 /\ LiesAt(t, w, 1)
  <2>1. 4 = Len(t) + Len(F)
    BY <1>1, <1>2
  <2>. QED BY <1>1, <1>2, <2>1, PlacesInConcat
<1>. HIDE DEF w
<1>4. w[1] = c /\ w[2] = x
  <2>1. w[1 + 1 - 1] = t[1] /\ w[1 + 2 - 1] = t[2]
    BY <1>1, <1>3 DEF LiesAt
  <2>. QED BY <1>1, <2>1
<1>. QED BY <1>3, <1>4 DEF w, t, F

LEMMA FiveByteLayout ==
  ASSUME NEW c \in 0 .. Byte - 1, NEW x \in 0 .. Byte - 1, NEW y \in 0 .. Byte - 1,
         NEW a \in 0 .. Broadcast
  PROVE  LET w == <<c, x>> \o Field(a) \o <<y>>
         IN  w \in Bytes /\ Len(w) = 5 /\ w[1] = c /\ w[2] = x
<1>. DEFINE t == <<c, x>> \o Field(a)
            e == <<y>>
            w == t \o e
<1>1. t \in Bytes /\ Len(t) = 4 /\ t[1] = c /\ t[2] = x
  BY FourByteLayout
<1>2. e \in Bytes /\ Len(e) = 1
  BY Small
<1>. HIDE DEF t, e
<1>3. w \in Bytes /\ Len(w) = 5 /\ LiesAt(t, w, 1)
  <2>1. 5 = Len(t) + Len(e)
    BY <1>1, <1>2
  <2>. QED BY <1>1, <1>2, <2>1, PlacesInConcat
<1>. HIDE DEF w
<1>4. w[1] = c /\ w[2] = x
  <2>1. w[1 + 1 - 1] = t[1] /\ w[1 + 2 - 1] = t[2]
    BY <1>1, <1>3 DEF LiesAt
  <2>. QED BY <1>1, <2>1
<1>. QED BY <1>3, <1>4 DEF w, t, e

LEMMA RouteErrorLayout ==
  ASSUME NEW a \in 0 .. Broadcast, NEW b \in 0 .. Broadcast
  PROVE  LET w == <<RouteError>> \o Field(a) \o Field(b)
         IN  w \in Bytes /\ Len(w) = 5 /\ w[1] = RouteError /\ FieldAt(w, 4) = b
<1>. DEFINE t == <<RouteError>>
            F == Field(a)
            G == Field(b)
            v == t \o F
            w == v \o G
<1>1. t \in Bytes /\ Len(t) = 1 /\ t[1] = RouteError
  <2>1. RouteError \in 0 .. Byte - 1
    BY DEF RouteError, Byte
  <2>. QED BY <2>1, Small
<1>2. F \in Bytes /\ Len(F) = 2 /\ G \in Bytes /\ Len(G) = 2 /\ b \in 0 .. Byte * Byte - 1
  BY Small, FieldIsTwoBytes
<1>. HIDE DEF t, F, G
<1>3. v \in Bytes /\ Len(v) = 3 /\ LiesAt(t, v, 1)
  <2>1. 3 = Len(t) + Len(F)
    BY <1>1, <1>2
  <2>. QED BY <1>1, <1>2, <2>1, PlacesInConcat
<1>. HIDE DEF v
<1>4. w \in Bytes /\ Len(w) = 5 /\ LiesAt(t, w, 1) /\ LiesAt(G, w, 4)
  <2>1. /\ 5 = Len(v) + Len(G) /\ 4 = Len(v) + 1
        /\ 1 \in Nat \ {0} /\ 1 + Len(t) - 1 <= Len(v)
    BY <1>1, <1>2, <1>3
  <2>2. w \in Bytes /\ Len(w) = 5 /\ LiesAt(G, w, 4)
    BY <1>2, <1>3, <2>1, PlacesInConcat
  <2>3. LiesAt(t, w, 1)
    BY <1>1, <1>2, <1>3, <2>1, LiesInConcat
  <2>. QED BY <2>2, <2>3
<1>. HIDE DEF w
<1>5. w[1] = RouteError
  <2>1. w[1 + 1 - 1] = t[1]
    BY <1>1, <1>4 DEF LiesAt
  <2>. QED BY <1>1, <2>1
<1>6. FieldAt(w, 4) = b
  BY <1>2, <1>4, FieldReads DEF G
<1>. QED BY <1>4, <1>5, <1>6 DEF w, v, t, F, G

(* The payloads that are sent. *)
LEMMA SentPayloads ==
  ASSUME NEW m \in Messages
  PROVE  /\ m.dst \in Addr /\ m.radius \in {0, 2}
         /\ \/ \E d \in Data : m.payload = ApsFrame(d)
            \/ m.payload = <<ManyToOne, 5>>
            \/ \E a \in Dest : m.payload = <<LinkStatus, 1>> \o Field(a) \o <<200>>
            \/ \E a \in Dest : m.payload = <<RouteRequest, 1>> \o Field(a)
<1>1. CASE m \in DataMessage
  BY <1>1 DEF DataMessage, Message
<1>2. CASE m = Message(Broadcast, <<ManyToOne, 5>>, 0)
  BY <1>2 DEF Message, Addr
<1>3. CASE m \in {Message(Broadcast, <<LinkStatus, 1>> \o Field(a) \o <<200>>, 2) : a \in Dest}
  <2>1. PICK a \in Dest : m = Message(Broadcast, <<LinkStatus, 1>> \o Field(a) \o <<200>>, 2)
    BY <1>3
  <2>2. /\ m.payload = <<LinkStatus, 1>> \o Field(a) \o <<200>>
        /\ m.dst = Broadcast /\ m.radius = 2
    BY <2>1, Zenon DEF Message
  <2>. QED BY <2>2 DEF Addr
<1>4. CASE m \in {Discovery(a) : a \in Dest}
  <2>1. PICK a \in Dest : m = Discovery(a)
    BY <1>4
  <2>2. m.payload = <<RouteRequest, 1>> \o Field(a) /\ m.dst = Broadcast /\ m.radius = 0
    BY <2>1, Zenon DEF Discovery, Message
  <2>. QED BY <2>2 DEF Addr
<1>5. \/ m \in DataMessage \/ m = Message(Broadcast, <<ManyToOne, 5>>, 0)
      \/ m \in {Message(Broadcast, <<LinkStatus, 1>> \o Field(a) \o <<200>>, 2) : a \in Dest}
      \/ m \in {Discovery(a) : a \in Dest}
  BY Zenon DEF Messages, CommandMessage
<1>. QED BY <1>1, <1>2, <1>3, <1>4, <1>5

(* They are bytes, and no command among them is acted upon before its last *)
(* byte has come.                                                          *)
LEMMA CutMessageIsIncomplete ==
  ASSUME NEW m \in Messages
  PROVE  /\ m.payload \in Bytes
         /\ \A n \in 0 .. Len(m.payload) - 1 : \A h :
              h.ok /\ h.payload = SubSeq(m.payload, 1, n) => ~Complete(h)
<1>. DEFINE s == m.payload
            Cut(n) == SubSeq(s, 1, n)
            Safe == \A n \in 0 .. Len(s) - 1 : \A h : h.ok /\ h.payload = Cut(n) => ~Complete(h)
<1>1. ASSUME s \in Bytes, NEW n \in 0 .. Len(s) - 1
      PROVE  /\ Cut(n) \in Bytes /\ Len(Cut(n)) = n /\ n \in Nat /\ n < Len(s)
             /\ (n >= 1 => Cut(n)[1] = s[1]) /\ (n >= 2 => Cut(n)[2] = s[2])
             /\ Cut(n) # <<>> => n >= 1
  <2>1. Len(s) \in Nat
    BY <1>1, BytesHaveLength
  <2>2. n \in 0 .. Len(s) /\ n \in Nat /\ n < Len(s)
    BY <1>1, <2>1
  <2>3. Cut(n) \in Bytes /\ Len(Cut(n)) = n /\ \A i \in 1 .. n : Cut(n)[i] = s[i]
    BY <1>1, <2>2, CutOfBytes
  <2>4. n >= 1 => 1 \in 1 .. n
    BY <2>2
  <2>5. n >= 2 => 2 \in 1 .. n
    BY <2>2
  <2>6. n = 0 => Cut(n) = <<>>
    BY <2>3 DEF Bytes
  <2>7. Cut(n) # <<>> => n >= 1
    BY <2>2, <2>6
  <2>. QED BY <2>2, <2>3, <2>4, <2>5, <2>7
<1>. HIDE DEF s, Cut
<1>2. ASSUME s \in Bytes, s[1] \notin {ManyToOne, RouteRecord, RouteError, LinkStatus}
      PROVE  Safe
  <2>1. ASSUME NEW n \in 0 .. Len(s) - 1, NEW h, h.ok, h.payload = Cut(n), Complete(h)
        PROVE  FALSE
    BY <1>1, <1>2, <2>1, ShortIsIncomplete
  <2>. QED BY <2>1
<1>3. ASSUME NEW d \in Data, s = ApsFrame(d)
      PROVE  s \in Bytes /\ Safe
  <2>1. s \in Bytes /\ s[1] \in {0, ApsSecurity}
    BY <1>3, ApsFrameReads
  <2>. QED BY <1>2, <2>1 DEF ApsSecurity, ManyToOne, RouteRecord, RouteError, LinkStatus
<1>4. ASSUME s = <<ManyToOne, 5>>
      PROVE  s \in Bytes /\ Safe
  <2>1. ManyToOne \in 0 .. Byte - 1 /\ 5 \in 0 .. Byte - 1
    BY DEF ManyToOne, Byte
  <2>2. s \in Bytes /\ Len(s) = 2
    BY <1>4, <2>1, Small
  <2>3. ASSUME NEW n \in 0 .. Len(s) - 1, NEW h, h.ok, h.payload = Cut(n), Complete(h)
        PROVE  FALSE
    <3>1. Cut(n) \in Bytes /\ Len(Cut(n)) < 2
      BY <1>1, <2>2
    <3>2. Len(Cut(n)) >= 2 /\ Len(Cut(n)) \in Nat
      BY <2>3, <3>1, ShortIsIncomplete, BytesHaveLength
    <3>. QED BY <3>1, <3>2
  <2>. QED BY <2>2, <2>3
<1>5. \A a \in Dest : s = <<LinkStatus, 1>> \o Field(a) \o <<200>> => s \in Bytes /\ Safe
  <2>. TAKE a \in Dest
  <2>. HAVE s = <<LinkStatus, 1>> \o Field(a) \o <<200>>
  <2>1. LinkStatus \in 0 .. Byte - 1 /\ 1 \in 0 .. Byte - 1 /\ 200 \in 0 .. Byte - 1
    BY DEF LinkStatus, Byte
  <2>2. a \in 0 .. Broadcast
    BY ConstantTypes DEF Addr
  <2>3. s \in Bytes /\ Len(s) = 5 /\ s[1] = LinkStatus /\ s[2] = 1
    BY <2>1, <2>2, FiveByteLayout
  <2>4. ASSUME NEW n \in 0 .. Len(s) - 1, NEW h, h.ok, h.payload = Cut(n), Complete(h)
        PROVE  FALSE
    <3>1. Cut(n) \in Bytes /\ Len(Cut(n)) = n /\ n \in Nat /\ n < 5 /\ n >= 2
      <4>1. Cut(n) \in Bytes /\ Len(Cut(n)) = n /\ n \in Nat /\ n < 5
        BY <1>1, <2>3
      <4>2. Len(Cut(n)) >= 2
        BY <2>4, <4>1, ShortIsIncomplete
      <4>. QED BY <4>1, <4>2
    <3>2. Cut(n)[1] = LinkStatus /\ Cut(n)[2] = 1
      BY <1>1, <2>3, <3>1
    <3>3. Command(h) = LinkStatus
      BY <2>4, <3>2, ShortIsIncomplete
    <3>4. n >= 2 + 3 * 1
      BY <2>4, <3>1, <3>2, <3>3 DEF Complete, ManyToOneIsLong, RouteRecordIsLong, RouteErrorIsLong, LinkStatusIsLong,
         ManyToOne, RouteRecord, RouteError, LinkStatus
    <3>. QED BY <3>1, <3>4
  <2>. QED BY <2>3, <2>4
<1>6. ASSUME NEW a \in Dest, s = <<RouteRequest, 1>> \o Field(a)
      PROVE  s \in Bytes /\ Safe
  <2>1. RouteRequest \in 0 .. Byte - 1 /\ 1 \in 0 .. Byte - 1
    BY DEF RouteRequest, Byte
  <2>2. a \in 0 .. Broadcast
    BY ConstantTypes DEF Addr
  <2>3. s \in Bytes /\ s[1] = RouteRequest
    BY <1>6, <2>1, <2>2, FourByteLayout
  <2>. QED BY <1>2, <2>3 DEF RouteRequest, ManyToOne, RouteRecord, RouteError, LinkStatus
<1>7. s \in Bytes /\ Safe
  <2>1. \/ \E d \in Data : s = ApsFrame(d)
        \/ s = <<ManyToOne, 5>>
        \/ \E a \in Dest : s = <<LinkStatus, 1>> \o Field(a) \o <<200>>
        \/ \E a \in Dest : s = <<RouteRequest, 1>> \o Field(a)
    BY SentPayloads DEF s
  <2>. QED BY <1>3, <1>4, <1>5, <1>6, <2>1
<1>. QED BY <1>7 DEF s, Cut

(* What arrives of the news of node a is acted upon only when it is whole. *)
LEMMA CutNews ==
  ASSUME NEW a \in Dest, NEW s \in News(a)
  PROVE  /\ s \in Bytes
         /\ \A n \in 0 .. Len(s) : \A h :
              h.ok /\ h.payload = SubSeq(s, 1, n) /\ Complete(h) =>
                /\ Command(h) = RouteRecord => FieldsAt(h.payload, 3, h.payload[2]) \in PathsOf(a)
                /\ Command(h) = RouteError => FieldAt(h.payload, 4) \in Dest
<1>. DEFINE Cut(n) == SubSeq(s, 1, n)
            Good(h) == /\ Command(h) = RouteRecord => FieldsAt(h.payload, 3, h.payload[2]) \in PathsOf(a)
                       /\ Command(h) = RouteError => FieldAt(h.payload, 4) \in Dest
            Safe == \A n \in 0 .. Len(s) : \A h : h.ok /\ h.payload = Cut(n) /\ Complete(h) => Good(h)
<1>1. ASSUME s \in Bytes, NEW n \in 0 .. Len(s), NEW h, h.ok, h.payload = Cut(n), Complete(h)
      PROVE  /\ h.payload \in Bytes /\ Len(h.payload) = n /\ n \in Nat /\ n >= 2 /\ n <= Len(s)
             /\ h.payload[1] = s[1] /\ h.payload[2] = s[2] /\ Command(h) = s[1]
             /\ (n = Len(s) => h.payload = s)
  <2>1. Len(s) \in Nat
    BY <1>1, BytesHaveLength
  <2>2. n \in Nat /\ n <= Len(s)
    BY <1>1, <2>1
  <2>3. Cut(n) \in Bytes /\ Len(Cut(n)) = n /\ \A i \in 1 .. n : Cut(n)[i] = s[i]
    BY <1>1, CutOfBytes
  <2>4. n >= 2
    <3>1. h.payload \in Bytes /\ Len(h.payload) = n
      BY <1>1, <2>3
    <3>2. Len(h.payload) >= 2
      BY <1>1, <3>1, ShortIsIncomplete
    <3>. QED BY <3>1, <3>2
  <2>5. 1 \in 1 .. n /\ 2 \in 1 .. n
    BY <2>2, <2>4
  <2>6. Command(h) = h.payload[1]
    BY <1>1, ShortIsIncomplete
  <2>7. n = Len(s) => Cut(n) = s
    BY <1>1, WholeOfBytes
  <2>. HIDE DEF Cut
  <2>. QED BY <1>1, <2>2, <2>3, <2>4, <2>5, <2>6, <2>7
<1>. HIDE DEF Cut
<1>2. ASSUME NEW p \in PathsOf(a), s = <<RouteRecord, Len(p)>> \o Fields(p)
      PROVE  s \in Bytes /\ Safe
  <2>1. Countable(p) /\ p \in Path
    BY ConstantTypes DEF PathsOf
  <2>2. RouteRecord \in 0 .. Byte - 1
    BY DEF RouteRecord, Byte
  <2>3. /\ s \in Bytes /\ Len(s) = 2 + 2 * Len(p)
        /\ s[1] = RouteRecord /\ s[2] = Len(p) /\ LiesAt(Fields(p), s, 3)
    BY <1>2, <2>1, <2>2, ListLayout
  <2>4. p \in Fields16 /\ Len(p) \in Nat
    BY <2>1, CountableIsFields, BytesHaveLength
  <2>5. ASSUME NEW n \in 0 .. Len(s), NEW h, h.ok, h.payload = Cut(n), Complete(h)
        PROVE  Good(h)
    <3>1. /\ Len(h.payload) = n /\ n \in Nat /\ n <= Len(s) /\ h.payload[2] = s[2]
          /\ Command(h) = RouteRecord /\ (n = Len(s) => h.payload = s)
      BY <1>1, <2>3, <2>5
    <3>2. n >= 2 + 2 * Len(p)
      BY <2>3, <2>5, <3>1 DEF Complete, ManyToOneIsLong, RouteRecordIsLong, RouteErrorIsLong, LinkStatusIsLong,
         ManyToOne, RouteRecord, RouteError, LinkStatus
    <3>3. n = Len(s)
      BY <2>3, <2>4, <3>1, <3>2
    <3>4. h.payload = s
      BY <3>1, <3>3
    <3>5. FieldsAt(s, 3, s[2]) = p
      BY <2>3, <2>4, FieldsRead
    <3>. QED BY <3>1, <3>4, <3>5 DEF RouteRecord, RouteError
  <2>. QED BY <2>3, <2>5
<1>3. ASSUME s = <<ManyToOne, 1>>
      PROVE  s \in Bytes /\ Safe
  <2>1. ManyToOne \in 0 .. Byte - 1 /\ 1 \in 0 .. Byte - 1
    BY DEF ManyToOne, Byte
  <2>2. s \in Bytes /\ s[1] = ManyToOne
    BY <1>3, <2>1, Small
  <2>3. ASSUME NEW n \in 0 .. Len(s), NEW h, h.ok, h.payload = Cut(n), Complete(h)
        PROVE  Good(h)
    <3>1. Command(h) = ManyToOne
      <4>1. Command(h) = s[1]
        BY <1>1, <2>2, <2>3
      <4>. QED BY <2>2, <4>1
    <3>. QED BY <3>1 DEF ManyToOne, RouteRecord, RouteError
  <2>. QED BY <2>2, <2>3
<1>4. ASSUME NEW o \in {Own, a}, NEW b \in Dest, s = <<RouteError>> \o Field(o) \o Field(b)
      PROVE  s \in Bytes /\ Safe
  <2>1. o \in 0 .. Broadcast /\ b \in 0 .. Broadcast
    <3>1. \A x \in 0 .. Broadcast - 1 : x \in 0 .. Broadcast
      BY ConstantTypes
    <3>. QED BY <3>1, ConstantTypes
  <2>2. s \in Bytes /\ Len(s) = 5 /\ s[1] = RouteError /\ FieldAt(s, 4) = b
    BY <1>4, <2>1, RouteErrorLayout
  <2>3. ASSUME NEW n \in 0 .. Len(s), NEW h, h.ok, h.payload = Cut(n), Complete(h)
        PROVE  Good(h)
    <3>1. /\ Len(h.payload) = n /\ n \in Nat /\ n <= Len(s)
          /\ Command(h) = RouteError /\ (n = Len(s) => h.payload = s)
      BY <1>1, <2>2, <2>3
    <3>2. n >= 5
      BY <2>2, <2>3, <3>1 DEF Complete, ManyToOneIsLong, RouteRecordIsLong, RouteErrorIsLong, LinkStatusIsLong,
         ManyToOne, RouteRecord, RouteError, LinkStatus
    <3>3. n = Len(s)
      BY <2>2, <3>1, <3>2
    <3>. QED BY <2>2, <3>1, <3>3 DEF RouteRecord, RouteError
  <2>. QED BY <2>2, <2>3
<1>5. \/ \E p \in PathsOf(a) : s = <<RouteRecord, Len(p)>> \o Fields(p)
      \/ s = <<ManyToOne, 1>>
      \/ \E o \in {Own, a}, b \in Dest : s = <<RouteError>> \o Field(o) \o Field(b)
  <2>. DEFINE A == {<<RouteRecord, Len(p)>> \o Fields(p) : p \in PathsOf(a)}
              B == {<<RouteError>> \o Field(o) \o Field(b) : o \in {Own, a}, b \in Dest}
  <2>1. News(a) = A \cup {<<ManyToOne, 1>>} \cup B
    BY DEF News
  <2>2. s \in A => \E p \in PathsOf(a) : s = <<RouteRecord, Len(p)>> \o Fields(p)
    BY Zenon
  <2>3. s \in B => \E o \in {Own, a}, b \in Dest : s = <<RouteError>> \o Field(o) \o Field(b)
    OBVIOUS
  <2>. HIDE DEF A, B
  <2>4. s \in A \/ s = <<ManyToOne, 1>> \/ s \in B
    BY <2>1
  <2>. QED BY <2>2, <2>3, <2>4
<1>6. s \in Bytes /\ Safe
  BY <1>2, <1>3, <1>4, <1>5
<1>. QED BY <1>6 DEF Cut

LEMMA HeardFrames ==
  ASSUME NEW f \in Heard, Complete(ParseNwkHeader(f))
  PROVE  LET h == ParseNwkHeader(f)
         IN  /\ h.src \in Dest
             /\ Command(h) = RouteRecord => FieldsAt(h.payload, 3, h.payload[2]) \in PathsOf(h.src)
             /\ Command(h) = RouteError => FieldAt(h.payload, 4) \in Dest
<1>1. PICK w \in WholeFrames : \E n \in 0 .. Len(w) : f = SubSeq(w, 1, n)
  BY DEF Heard
<1>2. PICK n \in 0 .. Len(w) : f = SubSeq(w, 1, n)
  BY <1>1
<1>3. PICK a \in Dest : \E s \in News(a) : w = BuildNwkFrame(s, Own, a, 1, 0, <<>>)
  BY DEF WholeFrames
<1>4. PICK s \in News(a) : w = BuildNwkFrame(s, Own, a, 1, 0, <<>>)
  BY <1>3
<1>5. s \in Bytes /\ Len(s) \in Nat
  BY CutNews, BytesHaveLength
<1>6. /\ Own \in 0 .. Broadcast /\ a \in 0 .. Broadcast
      /\ 1 \in 0 .. Byte - 1 /\ 0 \in 0 .. Byte - 1
  <2>1. 1 \in 0 .. Byte - 1 /\ 0 \in 0 .. Byte - 1
    BY DEF Byte
  <2>. QED BY <2>1, ConstantTypes
<1>7. Countable(<<>>) /\ LengthBefore(<<>>) = 7
  BY ConstantTypes DEF Countable, LengthBefore, Byte
<1>8. Len(w) = 7 + Len(s) /\ n \in 0 .. 7 + Len(s)
  <2>1. Len(w) = LengthBefore(<<>>) + Len(s)
    BY <1>4, <1>5, <1>6, <1>7, FrameLayout
  <2>. QED BY <1>7, <2>1
<1>. DEFINE h == ParseNwkHeader(f)
<1>9. /\ n < 7 => h = Refused \/ (h.ok /\ h.payload \in {<<>>, <<Extension>>})
      /\ n >= 7 => h = [ok |-> TRUE, seq |-> 0, dst |-> Own, src |-> a, radius |-> 1,
                        path |-> <<>>, payload |-> SubSeq(s, 1, n - 7)]
  <2>1. n \in 0 .. LengthBefore(<<>>) + Len(s)
    BY <1>7, <1>8
  <2>2. h = ParseNwkHeader(SubSeq(BuildNwkFrame(s, Own, a, 1, 0, <<>>), 1, n))
    BY <1>2, <1>4
  <2>. HIDE DEF h
  <2>3. /\ n < LengthBefore(<<>>) => h = Refused \/ (h.ok /\ h.payload \in {<<>>, <<Extension>>})
        /\ n >= LengthBefore(<<>>) =>
             h = [ok |-> TRUE, seq |-> 0, dst |-> Own, src |-> a, radius |-> 1,
                  path |-> <<>>, payload |-> SubSeq(s, 1, n - LengthBefore(<<>>))]
    BY <1>5, <1>6, <1>7, <2>1, <2>2, CutFrameParses
  <2>. QED BY <1>7, <2>3
<1>. HIDE DEF h
<1>10. Complete(h)
  BY DEF h
<1>11. CASE n < 7
  <2>1. h.payload = <<Extension>>
    BY <1>9, <1>10, <1>11, ShortIsIncomplete
  <2>2. <<Extension>> \in Bytes /\ Len(<<Extension>>) = 1
    <3>1. Extension \in 0 .. Byte - 1
      BY DEF Extension, Byte
    <3>. QED BY <3>1, Small
  <2>3. Len(<<Extension>>) >= 2
    BY <1>10, <2>1, <2>2, ShortIsIncomplete
  <2>. QED BY <2>2, <2>3
<1>12. CASE n >= 7
  <2>1. h.ok /\ h.src = a /\ h.payload = SubSeq(s, 1, n - 7)
    BY <1>9, <1>12
  <2>2. n - 7 \in 0 .. Len(s)
    BY <1>5, <1>8, <1>12
  <2>3. /\ Command(h) = RouteRecord => FieldsAt(h.payload, 3, h.payload[2]) \in PathsOf(a)
        /\ Command(h) = RouteError => FieldAt(h.payload, 4) \in Dest
    BY <1>10, <2>1, <2>2, CutNews
  <2>. QED BY <2>1, <2>3 DEF h
<1>13. n < 7 \/ n >= 7
  BY <1>5, <1>8
<1>. QED BY <1>11, <1>12, <1>13

-----------------------------------------------------------------------------
(* The invariant: what the sender does.                                    *)

LEMMA EmptyRoute ==
  Countable(<<>>) /\ \A a : EndsAt(<<>>, a)
BY ConstantTypes DEF Countable, EndsAt, Byte

LEMMA MessageTypes ==
  ASSUME NEW m \in Messages
  PROVE  /\ m.dst \in Addr /\ m.dst \in 0 .. Broadcast /\ m.payload \in Bytes
         /\ m.radius \in {0, 2} /\ (m.dst # Broadcast => m.dst \in Dest)
BY SentPayloads, CutMessageIsIncomplete, ConstantTypes DEF Addr

(* However the copy of a path is torn, its length can be said in a frame.  *)
LEMMA MixedIsCountable ==
  ASSUME NEW old, NEW new, Countable(old), Countable(new), NEW p \in Mixed(old, new)
  PROVE  Countable(p)
<1>1. PICK n \in {Len(old), Len(new)} : p \in [1 .. n -> Range(old) \cup Range(new)]
  BY DEF Mixed
<1>2. \A q : Countable(q) => Range(q) \subseteq 0 .. Broadcast
  <2>1. \A q : Countable(q) => \A i \in DOMAIN q : q[i] \in 0 .. Broadcast
    BY ElementOfSeq, LenProperties DEF Countable
  <2>. QED BY <2>1, Zenon DEF Range
<1>3. n \in Nat /\ n < CountRange
  BY LenProperties DEF Countable
<1>4. p \in [1 .. n -> 0 .. Broadcast]
  BY <1>1, <1>2
<1>5. p \in Seq(0 .. Broadcast)
  BY <1>3, <1>4, SeqDef
<1>6. Len(p) = n
  BY <1>3, <1>4, <1>5, LenProperties
<1>. QED BY <1>3, <1>5, <1>6 DEF Countable

LEMMA InitFrames ==
  Init => TableInv
<1>. SUFFICES ASSUME Init
              PROVE  TableInv
  OBVIOUS
<1>1. TypeOK
  <2>1. 0 \in 0 .. SeqRange - 1
    BY ConstantTypes DEF Byte
  <2>2. [a \in Dest |-> <<>>] \in [Dest -> Seq(0 .. Broadcast)]
    BY EmptyRoute DEF Countable
  <2>3. <<>> \in Seq(0 .. Broadcast) /\ <<>> \in Seq(0 .. Byte - 1)
    BY EmptyRoute, Small DEF Countable, Bytes
  <2>. QED BY <2>1, <2>2, <2>3 DEF Init, TypeOK, Nowhere, Addr, RouteStates
<1>2. RoutesOK
  BY EmptyRoute DEF Init, RoutesOK, Nowhere
<1>3. SenderOK /\ RepairOK
  BY EmptyRoute DEF Init, SenderOK, RepairOK
<1>. QED BY <1>1, <1>2, <1>3 DEF TableInv

LEMMA SendSteps ==
  ASSUME TableInv, NEW m \in DataMessage \cup CommandMessage, Send(m)
  PROVE  TableInv'
<1>1. m \in Messages
  BY DEF Messages
<1>2. TypeOK'
  BY <1>1 DEF TableInv, TypeOK, Send, radio, repair
<1>3. RoutesOK' /\ RepairOK'
  BY DEF TableInv, RoutesOK, RepairOK, Send, radio, repair
<1>4. SenderOK'
  BY <1>1, MessageTypes, EmptyRoute DEF TableInv, SenderOK, Send
<1>. QED BY <1>2, <1>3, <1>4 DEF TableInv

LEMMA LookupSteps ==
  ASSUME TableInv, LookupRoute
  PROVE  TableInv'
<1>1. TypeOK'
  BY DEF TableInv, TypeOK, LookupRoute, radio, repair
<1>2. RoutesOK' /\ RepairOK'
  BY DEF TableInv, RoutesOK, RepairOK, LookupRoute, radio, repair
<1>3. SenderOK'
  BY EmptyRoute DEF TableInv, SenderOK, LookupRoute
<1>. QED BY <1>1, <1>2, <1>3 DEF TableInv

LEMMA EnteredState ==
  ASSUME state \in [Dest -> RouteStates], NEW a
  PROVE  /\ Entered(a) \in [Dest -> RouteStates]
         /\ \A b \in Dest : Entered(a)[b] = state[b] \/ (state[b] = "absent" /\ Entered(a)[b] = "idle")
BY DEF Entered, RouteStates

LEMMA SenderDiscoversSteps ==
  ASSUME TableInv, SenderDiscovers \/ SenderMarks
  PROVE  TableInv'
<1>1. TypeOK'
  <2>1. /\ state \in [Dest -> RouteStates]
        /\ state' = Entered(want.dst) \/ state' = [state EXCEPT ![want.dst] = "discovery"]
        /\ overtaken' \subseteq {"sender", "caller"}
    BY DEF TableInv, TypeOK, SenderDiscovers, SenderMarks, MarkDiscovery
  <2>2. state' \in [Dest -> RouteStates]
    BY <2>1, EnteredState DEF RouteStates
  <2>. QED BY <2>1, <2>2 DEF TableInv, TypeOK, SenderDiscovers, SenderMarks, radio, repair
<1>2. RoutesOK' /\ RepairOK'
  BY DEF TableInv, RoutesOK, RepairOK, SenderDiscovers, SenderMarks, radio, repair
<1>3. SenderOK'
  BY EmptyRoute DEF TableInv, SenderOK, SenderDiscovers, SenderMarks
<1>. QED BY <1>1, <1>2, <1>3 DEF TableInv

LEMMA CopySteps ==
  ASSUME TableInv, CopyRoute \/ CopyTornRoute
  PROVE  TableInv'
<1>1. pc = "copy" /\ want.dst \in Dest /\ want \in Messages /\ pc' = "build" /\ want' = want
  BY DEF TableInv, SenderOK, CopyRoute, CopyTornRoute
<1>2. Countable(path')
  <2>1. Countable(route[want.dst]) /\ Countable(learned.path)
    BY <1>1 DEF TableInv, RoutesOK
  <2>. QED BY <2>1, MixedIsCountable DEF CopyRoute, CopyTornRoute
<1>3. ~torn' => EndsAt(path', want.dst)
  BY <1>1 DEF TableInv, RoutesOK, CopyRoute, CopyTornRoute
<1>4. TypeOK'
  BY <1>2 DEF TableInv, TypeOK, CopyRoute, CopyTornRoute, Countable, radio, repair
<1>5. RoutesOK' /\ RepairOK'
  BY DEF TableInv, RoutesOK, RepairOK, CopyRoute, CopyTornRoute, radio, repair
<1>6. SenderOK'
  BY <1>1, <1>2, <1>3 DEF SenderOK
<1>. QED BY <1>4, <1>5, <1>6 DEF TableInv

LEMMA BuildSteps ==
  ASSUME TableInv, BuildFrame
  PROVE  TableInv'
<1>. DEFINE R == IF want.radius = 0 THEN Radius ELSE want.radius
            w == BuildNwkFrame(want.payload, want.dst, Own, R, seq, path)
<1>1. /\ pc = "build" /\ want \in Messages /\ Countable(path) /\ (~torn => EndsAt(path, want.dst))
      /\ frame' = w /\ pc' = "sent" /\ want' = want /\ path' = path /\ torn' = torn
      /\ seq' = (seq + 1) % SeqRange
  BY DEF TableInv, SenderOK, BuildFrame
<1>2. seq \in 0 .. SeqRange - 1 /\ SeqRange \in 1 .. Byte
  BY ConstantTypes DEF TableInv, TypeOK
<1>3. R \in 1 .. Byte - 1 /\ R \in 0 .. Byte - 1
  <2>1. Radius \in 1 .. Byte - 1 /\ want.radius \in {0, 2}
    BY <1>1, MessageTypes, ConstantTypes
  <2>2. 2 \in 1 .. Byte - 1 /\ \A x \in 1 .. Byte - 1 : x \in 0 .. Byte - 1
    BY DEF Byte
  <2>. QED BY <2>1, <2>2
<1>4. seq \in 0 .. Byte - 1 /\ seq' \in 0 .. SeqRange - 1
  BY <1>1, <1>2 DEF Byte
<1>5. w \in Bytes
  <2>1. Own \in 0 .. Broadcast /\ want.dst \in 0 .. Broadcast /\ want.payload \in Bytes
    BY <1>1, MessageTypes, ConstantTypes
  <2>. HIDE DEF R
  <2>. QED BY <1>1, <1>3, <1>4, <2>1, FrameLayout
<1>6. \E radius \in 1 .. Byte - 1, seqNum \in 0 .. Byte - 1 :
        frame' = BuildNwkFrame(want.payload, want.dst, Own, radius, seqNum, path)
  BY <1>1, <1>3, <1>4
<1>. HIDE DEF w, R
<1>7. TypeOK'
  BY <1>1, <1>4, <1>5 DEF TableInv, TypeOK, BuildFrame, Bytes, radio, repair
<1>8. RoutesOK' /\ RepairOK'
  BY DEF TableInv, RoutesOK, RepairOK, BuildFrame, radio, repair
<1>9. SenderOK'
  BY <1>1, <1>6 DEF SenderOK
<1>. QED BY <1>7, <1>8, <1>9 DEF TableInv

LEMMA SendReturnsSteps ==
  ASSUME TableInv, SendReturns
  PROVE  TableInv'
<1>1. TypeOK'
  BY EmptyRoute, Small DEF TableInv, TypeOK, SendReturns, Countable, Bytes, radio, repair
<1>2. RoutesOK' /\ RepairOK'
  BY DEF TableInv, RoutesOK, RepairOK, SendReturns, radio, repair
<1>3. SenderOK'
  BY EmptyRoute DEF SenderOK, SendReturns
<1>. QED BY <1>1, <1>2, <1>3 DEF TableInv

-----------------------------------------------------------------------------
(* The invariant: what the rx thread does, and repairRoute.                *)

LEMMA SenderUndisturbed ==
  ASSUME SenderOK, UNCHANGED sender
  PROVE  SenderOK'
BY DEF SenderOK, sender

LEMMA PathsAreRoutes ==
  ASSUME NEW a \in Dest, NEW p \in PathsOf(a)
  PROVE  Countable(p) /\ EndsAt(p, a)
BY ConstantTypes DEF PathsOf, EndsAt

(* setRoute is only called for another node, with a path to it. *)
LEMMA LearnSteps ==
  ASSUME TableInv, NEW a \in Dest, NEW p, Countable(p), EndsAt(p, a),
         Learn([dst |-> a, path |-> p])
  PROVE  TableInv'
<1>1. learned' = [dst |-> a, path |-> p] /\ rx' = "enter"
  BY DEF Learn
<1>2. TypeOK'
  <2>1. learned' \in [dst : Addr, path : Seq(0 .. Broadcast)]
    BY <1>1 DEF Countable, Addr
  <2>. QED BY <1>1, <2>1 DEF TableInv, TypeOK, Learn, sender, repair
<1>3. RoutesOK' /\ RepairOK'
  BY <1>1 DEF TableInv, RoutesOK, RepairOK, Learn, sender, repair
<1>4. SenderOK'
  BY SenderUndisturbed DEF TableInv, Learn
<1>. QED BY <1>2, <1>3, <1>4 DEF TableInv

LEMMA HearSteps ==
  ASSUME TableInv, NEW f \in Heard, HearRouteRecord(f) \/ HearManyToOne(f) \/ HearRouteError(f)
  PROVE  TableInv'
<1>. DEFINE h == ParseNwkHeader(f)
<1>1. Complete(h)
  BY DEF HearRouteRecord, HearManyToOne, HearRouteError
<1>2. /\ h.src \in Dest
      /\ Command(h) = RouteRecord => FieldsAt(h.payload, 3, h.payload[2]) \in PathsOf(h.src)
      /\ Command(h) = RouteError => FieldAt(h.payload, 4) \in Dest
  BY <1>1, HeardFrames
<1>3. CASE HearRouteRecord(f)
  <2>. DEFINE p == FieldsAt(h.payload, 3, h.payload[2])
  <2>1. Command(h) = RouteRecord /\ Learn([dst |-> h.src, path |-> p])
    BY <1>3 DEF HearRouteRecord
  <2>2. p \in PathsOf(h.src)
    BY <1>2, <2>1
  <2>. HIDE DEF p, h
  <2>. QED BY <1>2, <2>1, <2>2, PathsAreRoutes, LearnSteps
<1>4. CASE HearManyToOne(f)
  <2>1. Learn([dst |-> h.src, path |-> <<>>])
    BY <1>4 DEF HearManyToOne
  <2>. HIDE DEF h
  <2>. QED BY <1>2, <2>1, EmptyRoute, LearnSteps
<1>5. CASE HearRouteError(f)
  <2>. DEFINE b == FieldAt(h.payload, 4)
  <2>1. /\ Command(h) = RouteError /\ rx' = "repair" /\ learned' = [dst |-> b, path |-> <<>>]
        /\ state' = [state EXCEPT ![b] = "failed"] /\ UNCHANGED <<route, sender, repair, overtaken>>
    BY <1>5 DEF HearRouteError
  <2>2. b \in Dest
    BY <1>2, <2>1
  <2>. HIDE DEF b, h
  <2>3. TypeOK'
    <3>1. learned' \in [dst : Addr, path : Seq(0 .. Broadcast)]
      BY <2>1, <2>2, EmptyRoute DEF Countable, Addr
    <3>2. state' \in [Dest -> RouteStates]
      BY <2>1 DEF TableInv, TypeOK, RouteStates
    <3>. QED BY <2>1, <3>1, <3>2 DEF TableInv, TypeOK, sender, repair
  <2>4. RoutesOK' /\ RepairOK'
    BY <2>1, <2>2, EmptyRoute DEF TableInv, RoutesOK, RepairOK, repair
  <2>5. SenderOK'
    BY <2>1, SenderUndisturbed DEF TableInv
  <2>. QED BY <2>3, <2>4, <2>5 DEF TableInv
<1>. QED BY <1>3, <1>4, <1>5

LEMMA SetRouteSteps ==
  ASSUME TableInv, EnterRoute \/ ActivateRoute \/ AssignRoute
  PROVE  TableInv'
<1>1. learned.dst \in Dest /\ Countable(learned.path) /\ EndsAt(learned.path, learned.dst)
  BY DEF TableInv, RoutesOK, EnterRoute, ActivateRoute, AssignRoute
<1>2. SenderOK'
  BY SenderUndisturbed DEF TableInv, EnterRoute, ActivateRoute, AssignRoute
<1>3. CASE EnterRoute \/ ActivateRoute
  <2>1. TypeOK'
    <3>1. /\ state \in [Dest -> RouteStates]
          /\ state' = Entered(learned.dst) \/ state' = [state EXCEPT ![learned.dst] = "active"]
      BY <1>3 DEF TableInv, TypeOK, EnterRoute, ActivateRoute
    <3>2. state' \in [Dest -> RouteStates]
      BY <3>1, EnteredState DEF RouteStates
    <3>. QED BY <1>3, <3>2 DEF TableInv, TypeOK, EnterRoute, ActivateRoute, sender, repair
  <2>2. RoutesOK' /\ RepairOK'
    BY <1>3 DEF TableInv, RoutesOK, RepairOK, EnterRoute, ActivateRoute, repair
  <2>. QED BY <1>2, <2>1, <2>2 DEF TableInv
<1>4. CASE AssignRoute
  <2>1. route' = [route EXCEPT ![learned.dst] = learned.path] /\ route \in [Dest -> Seq(0 .. Broadcast)]
    BY <1>4 DEF TableInv, TypeOK, AssignRoute
  <2>2. learned' = [dst |-> Broadcast, path |-> <<>>] /\ rx' = "idle"
    BY <1>4 DEF AssignRoute, Nowhere
  <2>3. TypeOK'
    <3>1. learned' \in [dst : Addr, path : Seq(0 .. Broadcast)]
      BY <2>2, EmptyRoute DEF Countable, Addr
    <3>2. route' \in [Dest -> Seq(0 .. Broadcast)]
      BY <1>1, <2>1 DEF Countable
    <3>. QED BY <1>4, <2>2, <3>1, <3>2 DEF TableInv, TypeOK, AssignRoute, sender, repair
  <2>4. \A a \in Dest : Countable(route'[a]) /\ EndsAt(route'[a], a)
    BY <1>1, <2>1 DEF TableInv, RoutesOK
  <2>5. RoutesOK'
    BY <2>2, <2>4, EmptyRoute DEF RoutesOK
  <2>6. RepairOK'
    BY <1>4 DEF TableInv, RepairOK, AssignRoute, repair
  <2>. QED BY <1>2, <2>3, <2>5, <2>6 DEF TableInv
<1>. QED BY <1>3, <1>4

LEMMA RxRepairSteps ==
  ASSUME TableInv, ProgressOK, RxRepairs \/ RxDiscovers
  PROVE  TableInv'
<1>1. SenderOK'
  BY SenderUndisturbed DEF TableInv, RxRepairs, RxDiscovers
<1>2. TypeOK'
  <2>1. Nowhere \in [dst : Addr, path : Seq(0 .. Broadcast)]
    BY EmptyRoute DEF Nowhere, Addr, Countable
  <2>2. learned' \in [dst : Addr, path : Seq(0 .. Broadcast)]
    BY <2>1 DEF TableInv, TypeOK, RxRepairs, RxDiscovers
  <2>3. state' \in [Dest -> RouteStates] /\ overtaken' \subseteq {"sender", "caller"}
    BY DEF TableInv, TypeOK, RxRepairs, RxDiscovers, MarkRepair, Deciding, RouteStates
  <2>4. rx' \in {"discover", "idle"}
    BY DEF RxRepairs, RxDiscovers, ProgressOK
  <2>. QED BY <2>2, <2>3, <2>4 DEF TableInv, TypeOK, RxRepairs, RxDiscovers, sender, repair
<1>3. RoutesOK' /\ RepairOK'
  BY EmptyRoute DEF TableInv, RoutesOK, RepairOK, RxRepairs, RxDiscovers, Nowhere, repair
<1>. QED BY <1>1, <1>2, <1>3 DEF TableInv

LEMMA RepairSteps ==
  ASSUME TableInv, (\E a \in Dest : RepairRoute(a)) \/ RepairDiscovers \/ RepairMarks
  PROVE  TableInv'
<1>1. SenderOK'
  BY SenderUndisturbed DEF TableInv, RepairRoute, RepairDiscovers, RepairMarks
<1>2. TypeOK'
  <2>1. /\ state' \in [Dest -> RouteStates] /\ UNCHANGED <<route, sender, radio>>
        /\ rpc' \in {"idle", "discover", "mark", "request"} /\ broken' \in Addr
        /\ overtaken' \subseteq {"sender", "caller"}
    BY DEF TableInv, TypeOK, RepairRoute, RepairDiscovers, RepairMarks, MarkRepair, MarkDiscovery,
       Deciding, RouteStates, Addr
  <2>. QED BY <2>1 DEF TableInv, TypeOK, sender, radio
<1>3. RoutesOK' /\ RepairOK'
  BY DEF TableInv, RoutesOK, RepairOK, RepairRoute, RepairDiscovers, RepairMarks, radio
<1>. QED BY <1>1, <1>2, <1>3 DEF TableInv

LEMMA RepairRequestsSteps ==
  ASSUME TableInv, RepairRequests
  PROVE  TableInv'
<1>1. broken \in Dest /\ want' = Discovery(broken) /\ pc' = "build" /\ rpc' = "idle" /\ broken' = Broadcast
  BY DEF TableInv, RepairOK, RepairRequests
<1>2. want' \in Messages
  BY <1>1 DEF Messages
<1>3. TypeOK'
  BY <1>1, <1>2 DEF TableInv, TypeOK, RepairRequests, Addr, radio
<1>4. RoutesOK' /\ RepairOK'
  BY <1>1 DEF TableInv, RoutesOK, RepairOK, RepairRequests, radio
<1>5. SenderOK'
  BY <1>1, <1>2, EmptyRoute DEF TableInv, SenderOK, RepairRequests
<1>. QED BY <1>3, <1>4, <1>5 DEF TableInv

LEMMA TableStep ==
  FramesInv /\ [Next]_vars => TableInv'
<1>. SUFFICES ASSUME TableInv, ProgressOK, [Next]_vars
              PROVE  TableInv'
  BY DEF FramesInv
<1>1. CASE SenderStep
  BY <1>1, SendSteps, LookupSteps, SenderDiscoversSteps, CopySteps, BuildSteps, SendReturnsSteps
  DEF SenderStep
<1>2. CASE RxStep
  BY <1>2, HearSteps, SetRouteSteps, RxRepairSteps DEF RxStep
<1>3. CASE RepairStep
  BY <1>3, RepairSteps, RepairRequestsSteps DEF RepairStep
<1>4. CASE UNCHANGED vars
  <2>1. UNCHANGED <<sender, radio, repair, state, route>>
    BY <1>4 DEF vars, sender, radio, repair
  <2>2. TypeOK'
    BY <1>4 DEF TableInv, TypeOK, vars
  <2>3. RoutesOK' /\ RepairOK'
    BY <1>4 DEF TableInv, RoutesOK, RepairOK, vars
  <2>4. SenderOK'
    BY <2>1, SenderUndisturbed DEF TableInv
  <2>. QED BY <2>2, <2>3, <2>4 DEF TableInv
<1>. QED BY <1>1, <1>2, <1>3, <1>4 DEF Next

-----------------------------------------------------------------------------
(* The invariant: discoveries and repairs that overlap.                    *)

(* A step that begins no repair and lets no thread decide on a discovery.  *)
LEMMA NoRepairBegins ==
  ASSUME ProgressOK, overtaken' = overtaken,
         \A a \in Dest : state'[a] = "repair" => state[a] = "repair",
         \A a \in Dest : state'[a] = "repair" => Deciding(a)' \subseteq Deciding(a),
         rx' = "discover" => rx = "discover" /\ learned' = learned /\ state'[learned.dst] \in InProgress
  PROVE  ProgressOK'
BY DEF ProgressOK

LEMMA SenderProgress ==
  ASSUME TableInv, ProgressOK, SenderStep
  PROVE  ProgressOK'
<1>0. /\ state \in [Dest -> RouteStates] /\ rx' = rx /\ learned' = learned
      /\ rpc' = rpc /\ broken' = broken
      /\ rx = "discover" => learned.dst \in Dest
  BY DEF TableInv, TypeOK, RoutesOK, SenderStep, Send, LookupRoute, SenderDiscovers, SenderMarks, CopyRoute,
     CopyTornRoute, BuildFrame, SendReturns, radio, repair
<1>1. CASE SenderMarks
  <2>1. /\ state' = [state EXCEPT ![want.dst] = "discovery"] /\ overtaken' = overtaken \ {"sender"}
        /\ pc' = "hung"
    BY <1>1 DEF SenderMarks, MarkDiscovery
  <2>2. \A a \in Dest : Deciding(a)' \subseteq Deciding(a) \ {"sender"}
    BY <1>0, <2>1 DEF Deciding
  <2>3. \A a \in Dest : state'[a] = "repair" => state[a] = "repair"
    BY <1>0, <2>1
  <2>4. rx' = "discover" => state'[learned'.dst] \in InProgress
    BY <1>0, <2>1 DEF ProgressOK, InProgress
  <2>. QED BY <2>1, <2>2, <2>3, <2>4 DEF ProgressOK
<1>2. CASE SenderDiscovers
  <2>1. /\ state' = Entered(want.dst) /\ overtaken' = overtaken
        /\ IF state[want.dst] \in InProgress
           THEN pc' = "idle"
           ELSE pc' = "mark" /\ want' = want
    BY <1>2 DEF SenderDiscovers
  <2>2. \A a \in Dest : state'[a] = state[a] \/ (state[a] = "absent" /\ state'[a] = "idle")
    BY <1>0, <2>1, EnteredState
  <2>3. \A a \in Dest : state'[a] = "repair" => Deciding(a)' \subseteq Deciding(a)
    BY <1>0, <2>1, <2>2 DEF Deciding, InProgress
  <2>4. rx' = "discover" => state'[learned.dst] \in InProgress
    BY <1>0, <2>2 DEF ProgressOK, InProgress
  <2>. QED BY <1>0, <2>1, <2>2, <2>3, <2>4, NoRepairBegins
<1>3. CASE \/ \E m \in DataMessage \cup CommandMessage : Send(m)
           \/ LookupRoute \/ CopyRoute \/ CopyTornRoute \/ BuildFrame \/ SendReturns
  <2>1. state' = state /\ overtaken' = overtaken /\ pc' # "mark"
    BY <1>3 DEF Send, LookupRoute, CopyRoute, CopyTornRoute, BuildFrame, SendReturns
  <2>2. \A a \in Dest : Deciding(a)' \subseteq Deciding(a)
    BY <1>0, <2>1 DEF Deciding
  <2>3. rx' = "discover" => state'[learned.dst] \in InProgress
    BY <1>0, <2>1 DEF ProgressOK
  <2>. QED BY <1>0, <2>1, <2>2, <2>3, NoRepairBegins
<1>. QED BY <1>1, <1>2, <1>3 DEF SenderStep

(* A repair that begins takes note of who has decided on a discovery. *)
LEMMA RepairBegins ==
  ASSUME TableInv, ProgressOK, NEW b \in Dest, MarkRepair(b), UNCHANGED sender,
         \A a \in Dest : Deciding(a)' \subseteq Deciding(a),
         rx' = "discover" => learned'.dst = b \/ (rx = "discover" /\ learned' = learned)
  PROVE  ProgressOK'
<1>1. /\ state' = [state EXCEPT ![b] = "repair"] /\ overtaken' = overtaken \cup Deciding(b)
      /\ state \in [Dest -> RouteStates]
  BY DEF MarkRepair, TableInv, TypeOK
<1>2. rx = "discover" => learned.dst \in Dest
  BY DEF TableInv, RoutesOK
<1>3. rx' = "discover" => state'[learned'.dst] \in InProgress
  BY <1>1, <1>2 DEF ProgressOK, InProgress
<1>4. \A a \in Dest : state'[a] = "repair" => Deciding(a)' \subseteq overtaken'
  BY <1>1 DEF ProgressOK
<1>. QED BY <1>3, <1>4 DEF ProgressOK

LEMMA RxProgress ==
  ASSUME TableInv, ProgressOK, RxStep
  PROVE  ProgressOK'
<1>0. /\ state \in [Dest -> RouteStates] /\ UNCHANGED <<sender, repair>>
      /\ pc' = pc /\ want' = want /\ rpc' = rpc /\ broken' = broken
  BY DEF TableInv, TypeOK, RxStep, HearRouteRecord, HearManyToOne, HearRouteError, Learn, EnterRoute,
     ActivateRoute, AssignRoute, RxRepairs, RxDiscovers, sender, repair
<1>1. \A a \in Dest : Deciding(a)' = Deciding(a)
  BY <1>0 DEF Deciding
<1>2. CASE RxRepairs
  <2>1. learned.dst \in Dest /\ MarkRepair(learned.dst) /\ learned' = learned
    BY <1>2 DEF TableInv, RoutesOK, RxRepairs
  <2>. QED BY <1>0, <1>1, <2>1, RepairBegins
<1>3. CASE \/ \E f \in Heard : HearRouteRecord(f) \/ HearManyToOne(f) \/ HearRouteError(f)
           \/ EnterRoute \/ ActivateRoute \/ AssignRoute \/ RxDiscovers
  <2>1. rx' # "discover" /\ overtaken' = overtaken
    BY <1>3 DEF HearRouteRecord, HearManyToOne, HearRouteError, Learn, EnterRoute, ActivateRoute,
       AssignRoute, RxDiscovers
  <2>2. \A a \in Dest : state'[a] = "repair" => state[a] = "repair"
    BY <1>0, <1>3, EnteredState DEF HearRouteRecord, HearManyToOne, HearRouteError, Learn, EnterRoute,
       ActivateRoute, AssignRoute, RxDiscovers
  <2>. QED BY <1>1, <2>1, <2>2, NoRepairBegins
<1>. QED BY <1>2, <1>3 DEF RxStep

LEMMA RepairProgress ==
  ASSUME TableInv, ProgressOK, RepairStep
  PROVE  ProgressOK'
<1>0. /\ state \in [Dest -> RouteStates] /\ rx' = rx /\ learned' = learned
      /\ rx = "discover" => learned.dst \in Dest
  BY DEF TableInv, TypeOK, RoutesOK, RepairStep, RepairRoute, RepairDiscovers, RepairMarks, RepairRequests, radio
<1>1. ASSUME NEW a \in Dest, RepairRoute(a)
      PROVE  ProgressOK'
  <2>1. MarkRepair(a) /\ UNCHANGED sender /\ rpc' = "discover"
    BY <1>1 DEF RepairRoute
  <2>2. \A b \in Dest : Deciding(b)' \subseteq Deciding(b)
    BY <2>1 DEF Deciding, sender
  <2>. QED BY <1>0, <2>1, <2>2, RepairBegins
<1>2. CASE RepairDiscovers
  <2>1. /\ state' = state /\ overtaken' = overtaken /\ pc' = pc /\ want' = want
        /\ IF state[broken] \in InProgress
           THEN rpc' = "idle"
           ELSE rpc' = "mark" /\ broken' = broken
    BY <1>2 DEF RepairDiscovers, sender
  <2>2. \A a \in Dest : state'[a] = "repair" => Deciding(a)' \subseteq Deciding(a)
    BY <2>1 DEF Deciding, InProgress
  <2>3. rx' = "discover" => state'[learned.dst] \in InProgress
    BY <1>0, <2>1 DEF ProgressOK
  <2>. QED BY <1>0, <2>1, <2>2, <2>3, NoRepairBegins
<1>3. CASE RepairMarks
  <2>1. /\ state' = [state EXCEPT ![broken] = "discovery"] /\ overtaken' = overtaken \ {"caller"}
        /\ rpc' = "request" /\ pc' = pc /\ want' = want
    BY <1>3 DEF RepairMarks, MarkDiscovery, sender
  <2>2. \A a \in Dest : Deciding(a)' \subseteq Deciding(a) \ {"caller"}
    BY <2>1 DEF Deciding
  <2>3. \A a \in Dest : state'[a] = "repair" => state[a] = "repair"
    BY <1>0, <2>1
  <2>4. rx' = "discover" => state'[learned'.dst] \in InProgress
    BY <1>0, <2>1 DEF ProgressOK, InProgress
  <2>. QED BY <2>1, <2>2, <2>3, <2>4 DEF ProgressOK
<1>4. CASE RepairRequests
  <2>1. state' = state /\ overtaken' = overtaken /\ pc' = "build" /\ rpc' = "idle"
    BY <1>4 DEF RepairRequests
  <2>2. \A a \in Dest : Deciding(a)' \subseteq Deciding(a)
    BY <2>1 DEF Deciding
  <2>3. rx' = "discover" => state'[learned.dst] \in InProgress
    BY <1>0, <2>1 DEF ProgressOK
  <2>. QED BY <1>0, <2>1, <2>2, <2>3, NoRepairBegins
<1>. QED BY <1>1, <1>2, <1>3, <1>4 DEF RepairStep

LEMMA FramesStep ==
  FramesInv /\ [Next]_vars => FramesInv'
<1>. SUFFICES ASSUME TableInv, ProgressOK, [Next]_vars
              PROVE  TableInv' /\ ProgressOK'
  BY DEF FramesInv
<1>1. TableInv'
  BY TableStep DEF FramesInv
<1>2. CASE UNCHANGED vars
  <2>1. \A a \in Dest : Deciding(a)' = Deciding(a)
    BY <1>2 DEF Deciding, vars
  <2>2. state' = state /\ overtaken' = overtaken /\ rx' = rx /\ learned' = learned
    BY <1>2 DEF vars
  <2>. QED BY <1>1, <2>1, <2>2 DEF ProgressOK
<1>. QED BY <1>1, <1>2, SenderProgress, RxProgress, RepairProgress DEF Next

LEMMA FramesAlways ==
  Spec => []FramesInv
<1>1. Init => FramesInv
  BY InitFrames DEF FramesInv, ProgressOK, Init
<1>. QED BY <1>1, FramesStep, PTL DEF Spec

LEMMA TableAlways ==
  Spec => []TableInv
BY FramesAlways, PTL DEF FramesInv

-----------------------------------------------------------------------------
(* The theorems.                                                           *)

(* Every variable of the route table, the sender and the rx thread has its *)
(* type in every state; in particular no handler ever indexes the table by *)
(* an address that is not a node's.                                        *)
THEOREM FramesTypeCorrect ==
  Spec => []TypeOK
<1>1. TableInv => TypeOK
  BY DEF TableInv
<1>. QED BY <1>1, TableAlways, PTL

(* The table never holds a source route that leads elsewhere, whatever     *)
(* part of a route record arrives, and unless the copy is torn sendNwkFrame *)
(* puts a route to its destination into the frame.                         *)
THEOREM RoutesAlwaysEnd ==
  Spec => []RoutesEndAtTheirDestination
<1>1. TableInv => RoutesEndAtTheirDestination
  BY DEF TableInv, RoutesOK, SenderOK, RoutesEndAtTheirDestination, EndsAt
<1>. QED BY <1>1, TableAlways, PTL

(* A frame that is whole. *)
LEMMA WholeFrameParses ==
  ASSUME NEW s \in Bytes, NEW seqNum \in 0 .. Byte - 1, NEW radius \in 0 .. Byte - 1,
         NEW dstAddr \in 0 .. Broadcast, NEW srcAddr \in 0 .. Broadcast, NEW p, Countable(p)
  PROVE  ParseNwkHeader(BuildNwkFrame(s, dstAddr, srcAddr, radius, seqNum, p)) =
           [ok |-> TRUE, seq |-> seqNum, dst |-> dstAddr, src |-> srcAddr, radius |-> radius,
            path |-> p, payload |-> s]
<1>. DEFINE w == BuildNwkFrame(s, dstAddr, srcAddr, radius, seqNum, p)
            n == LengthBefore(p) + Len(s)
<1>1. w \in Bytes /\ Len(w) = n /\ LengthBefore(p) \in Nat /\ Len(s) \in Nat
  BY FrameLayout, BytesHaveLength
<1>2. n \in 0 .. LengthBefore(p) + Len(s) /\ n >= LengthBefore(p) /\ n - LengthBefore(p) = Len(s)
  BY <1>1
<1>3. ParseNwkHeader(SubSeq(w, 1, n)) =
        [ok |-> TRUE, seq |-> seqNum, dst |-> dstAddr, src |-> srcAddr, radius |-> radius,
         path |-> p, payload |-> SubSeq(s, 1, n - LengthBefore(p))]
  BY <1>2, CutFrameParses
<1>. HIDE DEF w
<1>4. SubSeq(w, 1, n) = w /\ SubSeq(s, 1, n - LengthBefore(p)) = s
  <2>1. SubSeq(w, 1, Len(w)) = w /\ SubSeq(s, 1, Len(s)) = s
    BY <1>1, WholeOfBytes
  <2>. QED BY <1>1, <1>2, <2>1
<1>. QED BY <1>3, <1>4 DEF w

(* What is true of a frame on the air. *)
LEMMA SentFrame ==
  ASSUME TableInv, pc = "sent"
  PROVE  /\ want \in Messages /\ want.payload \in Bytes /\ want.dst \in 0 .. Broadcast
         /\ Own \in 0 .. Broadcast /\ Countable(path)
         /\ \E radius \in 1 .. Byte - 1, seqNum \in 0 .. Byte - 1 :
              /\ radius \in 0 .. Byte - 1
              /\ frame = BuildNwkFrame(want.payload, want.dst, Own, radius, seqNum, path)
<1>1. want \in Messages /\ Countable(path)
  BY DEF TableInv, SenderOK
<1>2. want.payload \in Bytes /\ want.dst \in 0 .. Broadcast /\ Own \in 0 .. Broadcast
  BY <1>1, MessageTypes, ConstantTypes
<1>3. \A x \in 1 .. Byte - 1 : x \in 0 .. Byte - 1
  BY DEF Byte
<1>4. \E radius \in 1 .. Byte - 1, seqNum \in 0 .. Byte - 1 :
        frame = BuildNwkFrame(want.payload, want.dst, Own, radius, seqNum, path)
  BY DEF TableInv, SenderOK
<1>. QED BY <1>1, <1>2, <1>3, <1>4

LEMMA SentFrameParses ==
  ASSUME TableInv, pc = "sent"
  PROVE  LET h == ParseNwkHeader(frame)
         IN  /\ h.ok /\ h.dst = want.dst /\ h.src = Own /\ h.radius > 0
             /\ h.path = path /\ h.payload = want.payload
<1>1. PICK radius \in 1 .. Byte - 1 : \E seqNum \in 0 .. Byte - 1 :
        /\ radius \in 0 .. Byte - 1
        /\ frame = BuildNwkFrame(want.payload, want.dst, Own, radius, seqNum, path)
  BY SentFrame
<1>2. PICK seqNum \in 0 .. Byte - 1 :
        frame = BuildNwkFrame(want.payload, want.dst, Own, radius, seqNum, path)
  BY <1>1
<1>3. /\ radius \in 0 .. Byte - 1 /\ want.payload \in Bytes
      /\ want.dst \in 0 .. Broadcast /\ Own \in 0 .. Broadcast /\ Countable(path)
  BY <1>1, SentFrame
<1>4. ParseNwkHeader(frame) =
        [ok |-> TRUE, seq |-> seqNum, dst |-> want.dst, src |-> Own, radius |-> radius,
         path |-> path, payload |-> want.payload]
  <2>1. PICK m \in Bytes, d \in 0 .. Broadcast : m = want.payload /\ d = want.dst
    BY <1>3
  <2>2. ParseNwkHeader(BuildNwkFrame(m, d, Own, radius, seqNum, path)) =
          [ok |-> TRUE, seq |-> seqNum, dst |-> d, src |-> Own, radius |-> radius,
           path |-> path, payload |-> m]
    BY <1>3, WholeFrameParses
  <2>. QED BY <1>2, <2>1, <2>2
<1>5. radius > 0
  BY DEF Byte
<1>. QED BY <1>4, <1>5

(* Whatever route the table held and however it changed meanwhile,         *)
(* parseNwkHeader finds in a frame of sendNwkFrame what went into it: the  *)
(* hop count, the flag and the lengths agree for routes of any length.     *)
THEOREM FramesAlwaysParseBack ==
  Spec => []FrameParsesBack
<1>1. TableInv => FrameParsesBack
  BY SentFrameParses DEF FrameParsesBack
<1>. QED BY <1>1, TableAlways, PTL

(* The APS frame that apsDataRequest builds is never taken for a network   *)
(* command, and its endpoints, cluster and payload, of any length, reach   *)
(* the indication as they were given.                                      *)
THEOREM DataAlwaysIndicated ==
  Spec => []DataIsIndicated
<1>1. TableInv => DataIsIndicated
  <2>. SUFFICES ASSUME TableInv, pc = "sent", NEW d \in Data, want.payload = ApsFrame(d)
                PROVE  LET h == ParseNwkHeader(frame)
                       IN  Command(h) = 0 /\ ApsIndication(h.payload) = d
    BY DEF DataIsIndicated
  <2>. DEFINE h == ParseNwkHeader(frame)
  <2>1. h.ok /\ h.payload = ApsFrame(d)
    BY SentFrameParses
  <2>2. ApsFrame(d)[1] \in {0, ApsSecurity} /\ ApsIndication(ApsFrame(d)) = d
    BY ApsFrameReads
  <2>3. h.payload[1] \notin 1 .. 6
    BY <2>1, <2>2 DEF ApsSecurity
  <2>. HIDE DEF h
  <2>4. Command(h) = 0
    BY <2>1, <2>3, CommandOf
  <2>. QED BY <2>1, <2>2, <2>4 DEF h
<1>. QED BY <1>1, TableAlways, PTL

(* The length checks of parseNwkHeader and of the handlers are enough: a   *)
(* frame cut anywhere is refused, or keeps its source route and carries no *)
(* command that is acted upon.                                             *)
THEOREM CutFramesAlwaysHarmless ==
  Spec => []CutFramesAreHarmless
<1>1. TableInv => CutFramesAreHarmless
  <2>. SUFFICES ASSUME TableInv, pc = "sent", NEW n \in 0 .. Len(frame) - 1
                PROVE  LET h == ParseNwkHeader(SubSeq(frame, 1, n))
                       IN  /\ ~Complete(h)
                           /\ h.ok => h.path = path \/ h.payload \in {<<>>, <<Extension>>}
    BY DEF CutFramesAreHarmless
  <2>. DEFINE h == ParseNwkHeader(SubSeq(frame, 1, n))
              s == want.payload
              L == LengthBefore(path)
  <2>1. PICK radius \in 1 .. Byte - 1 : \E seqNum \in 0 .. Byte - 1 :
          /\ radius \in 0 .. Byte - 1
          /\ frame = BuildNwkFrame(s, want.dst, Own, radius, seqNum, path)
    BY SentFrame
  <2>2. PICK seqNum \in 0 .. Byte - 1 : frame = BuildNwkFrame(s, want.dst, Own, radius, seqNum, path)
    BY <2>1
  <2>3. /\ radius \in 0 .. Byte - 1 /\ s \in Bytes /\ want \in Messages
        /\ want.dst \in 0 .. Broadcast /\ Own \in 0 .. Broadcast /\ Countable(path)
    BY <2>1, SentFrame
  <2>4. s \in Bytes /\ Len(s) \in Nat /\ L \in Nat /\ Len(frame) = L + Len(s)
    <3>1. /\ LengthBefore(path) \in Nat \ (0 .. 6)
          /\ Len(BuildNwkFrame(s, want.dst, Own, radius, seqNum, path)) = LengthBefore(path) + Len(s)
      <4>1. \A m \in Bytes, d \in 0 .. Broadcast, r \in 0 .. Byte - 1 : \A p :
              Countable(p) =>
                /\ LengthBefore(p) \in Nat \ (0 .. 6)
                /\ Len(BuildNwkFrame(m, d, Own, r, seqNum, p)) = LengthBefore(p) + Len(m)
        BY <2>3, FrameLayout
      <4>. QED BY <2>3, <4>1
    <3>. QED BY <2>2, <2>3, <3>1, BytesHaveLength
  <2>5. n \in 0 .. L + Len(s) /\ n \in Nat /\ n < L + Len(s)
    BY <2>4
  <2>6. /\ n < L => h = Refused \/ (h.ok /\ h.payload \in {<<>>, <<Extension>>})
        /\ n >= L => h = [ok |-> TRUE, seq |-> seqNum, dst |-> want.dst, src |-> Own, radius |-> radius,
                          path |-> path, payload |-> SubSeq(s, 1, n - L)]
    BY <2>2, <2>5, <2>3, CutFrameParses
  <2>. HIDE DEF h, L, s
  <2>7. CASE n < L
    <3>1. <<Extension>> \in Bytes /\ Len(<<Extension>>) = 1
      <4>1. Extension \in 0 .. Byte - 1
        BY DEF Extension, Byte
      <4>. QED BY <4>1, Small
    <3>2. ~Complete(h)
      <4>1. SUFFICES ASSUME Complete(h)
                     PROVE  FALSE
        OBVIOUS
      <4>2. h.payload = <<Extension>>
        BY <2>6, <2>7, <4>1, ShortIsIncomplete
      <4>3. Len(<<Extension>>) >= 2
        BY <3>1, <4>1, <4>2, ShortIsIncomplete
      <4>. QED BY <3>1, <4>3
    <3>3. h.ok => h.payload \in {<<>>, <<Extension>>}
      BY <2>6, <2>7 DEF Refused
    <3>. QED BY <3>2, <3>3 DEF h
  <2>8. CASE n >= L
    <3>1. h.ok /\ h.path = path /\ h.payload = SubSeq(s, 1, n - L)
      BY <2>6, <2>8
    <3>2. n - L \in 0 .. Len(s) - 1
      BY <2>4, <2>5, <2>8
    <3>3. ~Complete(h)
      BY <3>1, <3>2, SentFrame, CutMessageIsIncomplete DEF s
    <3>. QED BY <3>1, <3>3 DEF h
  <2>. QED BY <2>4, <2>5, <2>7, <2>8
<1>. QED BY <1>1, TableAlways, PTL

(* A repair that is in progress ends by news of the destination, or by a   *)
(* discovery that a thread had decided on before it began: every test of   *)
(* initiateRouteDiscovery made while it lasts comes out as in progress,    *)
(* however many sends and repairs overlap.                                 *)
THEOREM RepairsEndByNewsOrOverlap ==
  Spec => RepairEndsByNewsOrOverlap
<1>. DEFINE Ends(a) ==
       \/ learned'.dst = a /\ state'[a] \in {"active", "failed"}
       \/ state'[a] = "discovery" /\ \E t \in overtaken : t \in Deciding(a) /\ t \notin Deciding(a)'
<1>1. ASSUME FramesInv, Next, NEW a \in Dest, state[a] = "repair", state'[a] # "repair"
      PROVE  Ends(a)
  <2>1. /\ state \in [Dest -> RouteStates] /\ Deciding(a) \subseteq overtaken
    BY <1>1 DEF FramesInv, TableInv, TypeOK, ProgressOK
  <2>2. CASE SenderMarks
    <3>1. /\ state' = [state EXCEPT ![want.dst] = "discovery"] /\ pc = "mark" /\ pc' = "hung"
      BY <2>2 DEF SenderMarks, MarkDiscovery
    <3>2. want.dst = a /\ state'[a] = "discovery"
      BY <1>1, <2>1, <3>1
    <3>3. "sender" \in Deciding(a) /\ "sender" \notin Deciding(a)'
      BY <3>1, <3>2 DEF Deciding
    <3>. QED BY <2>1, <3>2, <3>3
  <2>3. CASE RepairMarks
    <3>1. /\ state' = [state EXCEPT ![broken] = "discovery"] /\ rpc = "mark" /\ rpc' = "request"
      BY <2>3 DEF RepairMarks, MarkDiscovery
    <3>2. broken = a /\ state'[a] = "discovery"
      BY <1>1, <2>1, <3>1
    <3>3. "caller" \in Deciding(a) /\ "caller" \notin Deciding(a)'
      BY <3>1, <3>2 DEF Deciding
    <3>. QED BY <2>1, <3>2, <3>3
  <2>4. CASE SenderStep /\ ~SenderMarks
    <3>1. state'[a] = state[a] \/ state[a] = "absent"
      BY <2>1, <2>4, EnteredState DEF SenderStep, Send, LookupRoute, SenderDiscovers, CopyRoute, CopyTornRoute,
         BuildFrame, SendReturns
    <3>. QED BY <1>1, <3>1
  <2>5. CASE \E f \in Heard : HearRouteRecord(f) \/ HearManyToOne(f) \/ HearRouteError(f)
    BY <1>1, <2>1, <2>5 DEF HearRouteRecord, HearManyToOne, HearRouteError, Learn
  <2>6. CASE EnterRoute \/ ActivateRoute \/ AssignRoute \/ RxRepairs \/ RxDiscovers
    BY <1>1, <2>1, <2>6, EnteredState DEF EnterRoute, ActivateRoute, AssignRoute, RxRepairs, RxDiscovers, MarkRepair
  <2>7. CASE (\E b \in Dest : RepairRoute(b)) \/ RepairDiscovers \/ RepairRequests
    BY <1>1, <2>1, <2>7 DEF RepairRoute, RepairDiscovers, RepairRequests, MarkRepair
  <2>. QED BY <1>1, <2>2, <2>3, <2>4, <2>5, <2>6, <2>7 DEF Next, RxStep, RepairStep
<1>2. FramesInv /\ [Next]_vars =>
        [\A a \in Dest : state[a] = "repair" /\ state'[a] # "repair" => Ends(a)]_vars
  BY <1>1
<1>. QED BY <1>2, FramesAlways, PTL DEF Spec, RepairEndsByNewsOrOverlap
=============================================================================
