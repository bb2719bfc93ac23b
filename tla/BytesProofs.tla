---------------------------- MODULE BytesProofs ----------------------------
(***************************************************************************)
(* What the operators on frames return, for frames of any length: a field  *)
(* that was written is read back, wherever in a frame it lies; headers are *)
(* parsed inside the frame and built as they were; and of a line, HDLC     *)
(* takes the frame that was encoded, or nothing if the line was damaged.   *)
(***************************************************************************)
EXTENDS FrameCodecs, FiniteSetTheorems, SequenceTheorems, WellFoundedInduction, TLAPS

Bytes  == Seq(0 .. Byte - 1)
Fields16 == Seq(0 .. Byte * Byte - 1)

(* The bytes of t lie in s from place i. *)
LiesAt(t, s, i) == \A j \in 1 .. Len(t) : s[i + j - 1] = t[j]

LEMMA BytesHaveLength ==
  ASSUME NEW s \in Bytes
  PROVE  /\ Len(s) \in Nat /\ DOMAIN s = 1 .. Len(s)
         /\ \A i \in 1 .. Len(s) : s[i] \in 0 .. Byte - 1
BY LenProperties, ElementOfSeq DEF Bytes

LEMMA ConcatOfBytes ==
  ASSUME NEW s \in Bytes, NEW t \in Bytes
  PROVE  /\ s \o t \in Bytes
         /\ Len(s \o t) = Len(s) + Len(t)
         /\ LiesAt(s, s \o t, 1) /\ LiesAt(t, s \o t, Len(s) + 1)
<1>1. /\ s \o t \in Bytes /\ Len(s \o t) = Len(s) + Len(t)
      /\ \A i \in 1 .. Len(s) + Len(t) : (s \o t)[i] = IF i <= Len(s) THEN s[i] ELSE t[i - Len(s)]
  BY ConcatProperties DEF Bytes
<1>2. Len(s) \in Nat /\ Len(t) \in Nat
  BY BytesHaveLength
<1>. DEFINE u == s \o t
<1>. HIDE DEF u
<1>3. \A j \in 1 .. Len(s) : u[1 + j - 1] = s[j]
  BY <1>1, <1>2 DEF u
<1>4. \A j \in 1 .. Len(t) : u[Len(s) + 1 + j - 1] = t[j]
  <2>1. ASSUME NEW j \in 1 .. Len(t)
        PROVE  /\ Len(s) + 1 + j - 1 \in 1 .. Len(s) + Len(t)
               /\ ~(Len(s) + 1 + j - 1 <= Len(s)) /\ Len(s) + 1 + j - 1 - Len(s) = j
    BY <1>2
  <2>. QED BY <1>1, <2>1 DEF u
<1>. QED BY <1>1, <1>3, <1>4 DEF LiesAt, u

(* What lies in a frame lies in whatever begins with it, and in what it    *)
(* ends.                                                                   *)
LEMMA LiesInConcat ==
  ASSUME NEW s \in Bytes, NEW t \in Bytes, NEW u \in Bytes, NEW i \in Nat \ {0}
  PROVE  /\ LiesAt(u, s, i) /\ i + Len(u) - 1 <= Len(s) => LiesAt(u, s \o t, i)
         /\ LiesAt(u, t, i) /\ i + Len(u) - 1 <= Len(t) => LiesAt(u, s \o t, Len(s) + i)
<1>1. LiesAt(s, s \o t, 1) /\ LiesAt(t, s \o t, Len(s) + 1)
  BY ConcatOfBytes
<1>2. Len(s) \in Nat /\ Len(t) \in Nat /\ Len(u) \in Nat
  BY BytesHaveLength
<1>. DEFINE w == s \o t
<1>. HIDE DEF w
<1>3. ASSUME LiesAt(u, s, i), i + Len(u) - 1 <= Len(s)
      PROVE  LiesAt(u, w, i)
  <2>1. ASSUME NEW j \in 1 .. Len(u)
        PROVE  w[i + j - 1] = u[j]
    <3>1. i + j - 1 \in 1 .. Len(s) /\ 1 + (i + j - 1) - 1 = i + j - 1
      BY <1>2, <1>3
    <3>2. w[i + j - 1] = s[i + j - 1]
      BY <1>1, <3>1 DEF LiesAt, w
    <3>. QED BY <1>3, <3>2 DEF LiesAt
  <2>. QED BY <2>1 DEF LiesAt
<1>4. ASSUME LiesAt(u, t, i), i + Len(u) - 1 <= Len(t)
      PROVE  LiesAt(u, w, Len(s) + i)
  <2>1. ASSUME NEW j \in 1 .. Len(u)
        PROVE  w[Len(s) + i + j - 1] = u[j]
    <3>1. i + j - 1 \in 1 .. Len(t) /\ Len(s) + 1 + (i + j - 1) - 1 = Len(s) + i + j - 1
      BY <1>2, <1>4
    <3>2. w[Len(s) + i + j - 1] = t[i + j - 1]
      BY <1>1, <3>1 DEF LiesAt, w
    <3>. QED BY <1>4, <3>2 DEF LiesAt
  <2>. QED BY <2>1 DEF LiesAt
<1>. QED BY <1>3, <1>4 DEF w

(* The same, for places that are given as numbers. *)
LEMMA PlacesInConcat ==
  ASSUME NEW s \in Bytes, NEW t \in Bytes
  PROVE  /\ s \o t \in Bytes
         /\ \A n : n = Len(s) + Len(t) => Len(s \o t) = n
         /\ LiesAt(s, s \o t, 1)
         /\ \A n : n = Len(s) + 1 => LiesAt(t, s \o t, n)
         /\ \A u \in Bytes, i \in Nat \ {0} :
              LiesAt(u, s, i) /\ i + Len(u) - 1 <= Len(s) => LiesAt(u, s \o t, i)
         /\ \A u \in Bytes, i \in Nat \ {0} : \A n :
              LiesAt(u, t, i) /\ i + Len(u) - 1 <= Len(t) /\ n = Len(s) + i => LiesAt(u, s \o t, n)
<1>1. /\ s \o t \in Bytes /\ Len(s \o t) = Len(s) + Len(t)
      /\ LiesAt(s, s \o t, 1) /\ LiesAt(t, s \o t, Len(s) + 1)
  BY ConcatOfBytes
<1>2. \A u \in Bytes, i \in Nat \ {0} :
        /\ LiesAt(u, s, i) /\ i + Len(u) - 1 <= Len(s) => LiesAt(u, s \o t, i)
        /\ LiesAt(u, t, i) /\ i + Len(u) - 1 <= Len(t) => LiesAt(u, s \o t, Len(s) + i)
  BY LiesInConcat
<1>. QED BY <1>1, <1>2

(* What lies in a frame is a part of it, and its end if it reaches so far. *)
LEMMA LiesIsPart ==
  ASSUME NEW s \in Bytes, NEW t \in Bytes, NEW i \in Nat \ {0}, LiesAt(t, s, i),
         NEW n, n = i + Len(t) - 1, n <= Len(s)
  PROVE  /\ SubSeq(s, i, n) = t
         /\ n = Len(s) => Rest(s, i) = t
<1>. DEFINE r == SubSeq(s, i, n)
<1>1. Len(s) \in Nat /\ Len(t) \in Nat /\ i \in Int /\ n \in Int
  BY BytesHaveLength
<1>2. \A j \in i .. n : s[j] \in 0 .. Byte - 1
  BY <1>1, BytesHaveLength
<1>3. /\ r \in Bytes
      /\ Len(r) = IF i <= n THEN n - i + 1 ELSE 0
      /\ \A j \in 1 .. n - i + 1 : r[j] = s[i + j - 1]
  BY <1>1, <1>2, SubSeqProperties DEF Bytes
<1>4. n - i + 1 = Len(t) /\ (~(i <= n) => Len(t) = 0)
  BY <1>1
<1>5. Len(r) = Len(t)
  BY <1>3, <1>4
<1>6. \A j \in 1 .. Len(t) : r[j] = t[j]
  BY <1>3, <1>4 DEF LiesAt
<1>7. r = t
  BY <1>3, <1>5, <1>6, SeqEqual DEF Bytes
<1>. QED BY <1>7 DEF Rest

(* What follows the first part of a frame is the second. *)
LEMMA RestOfConcat ==
  ASSUME NEW s \in Bytes, NEW t \in Bytes
  PROVE  Rest(s \o t, Len(s) + 1) = t
<1>. DEFINE w == s \o t
            r == SubSeq(w, Len(s) + 1, Len(w))
<1>1. /\ w \in Bytes /\ Len(w) = Len(s) + Len(t) /\ LiesAt(t, w, Len(s) + 1)
  BY ConcatOfBytes
<1>2. Len(s) \in Nat /\ Len(t) \in Nat
  BY BytesHaveLength
<1>. HIDE DEF w
<1>3. \A i \in Len(s) + 1 .. Len(w) : w[i] \in 0 .. Byte - 1
  <2>1. \A i \in Len(s) + 1 .. Len(w) : i \in 1 .. Len(w)
    BY <1>1, <1>2
  <2>. QED BY <1>1, <2>1, BytesHaveLength
<1>4. /\ r \in Bytes
      /\ Len(r) = IF Len(s) + 1 <= Len(w) THEN Len(w) - (Len(s) + 1) + 1 ELSE 0
      /\ \A i \in 1 .. Len(w) - (Len(s) + 1) + 1 : r[i] = w[Len(s) + 1 + i - 1]
  BY <1>1, <1>2, <1>3, SubSeqProperties DEF Bytes
<1>5. Len(r) = Len(t)
  BY <1>1, <1>2, <1>4
<1>6. \A i \in 1 .. Len(t) : r[i] = t[i]
  <2>1. Len(w) - (Len(s) + 1) + 1 = Len(t)
    BY <1>1, <1>2
  <2>. QED BY <1>1, <1>4, <2>1 DEF LiesAt
<1>7. r = t
  BY <1>4, <1>5, <1>6, SeqEqual DEF Bytes
<1>. QED BY <1>7 DEF Rest, w

-----------------------------------------------------------------------------
(* A frame that is cut after its first n bytes.                            *)

LEMMA CutOfBytes ==
  ASSUME NEW s \in Bytes, NEW n \in 0 .. Len(s)
  PROVE  /\ SubSeq(s, 1, n) \in Bytes /\ Len(SubSeq(s, 1, n)) = n
         /\ \A i \in 1 .. n : SubSeq(s, 1, n)[i] = s[i]
<1>. DEFINE r == SubSeq(s, 1, n)
<1>1. Len(s) \in Nat /\ n \in Nat /\ n <= Len(s)
  BY BytesHaveLength
<1>2. \A i \in 1 .. n : s[i] \in 0 .. Byte - 1
  BY <1>1, BytesHaveLength
<1>3. /\ r \in Bytes
      /\ Len(r) = IF 1 <= n THEN n - 1 + 1 ELSE 0
      /\ \A i \in 1 .. n - 1 + 1 : r[i] = s[1 + i - 1]
  BY <1>1, <1>2, SubSeqProperties DEF Bytes
<1>4. n - 1 + 1 = n /\ (~(1 <= n) => n = 0) /\ \A i \in 1 .. n : 1 + i - 1 = i
  BY <1>1
<1>5. Len(r) = n
  BY <1>3, <1>4
<1>6. \A i \in 1 .. n : r[i] = s[i]
  BY <1>3, <1>4
<1>. QED BY <1>3, <1>5, <1>6

LEMMA WholeOfBytes ==
  ASSUME NEW s \in Bytes
  PROVE  SubSeq(s, 1, Len(s)) = s
<1>1. Len(s) \in 0 .. Len(s)
  BY BytesHaveLength
<1>. QED BY <1>1, CutOfBytes, SeqEqual DEF Bytes

LEMMA LiesInCut ==
  ASSUME NEW s \in Bytes, NEW u \in Bytes, NEW n \in 0 .. Len(s), NEW i \in Nat \ {0},
         LiesAt(u, s, i), i + Len(u) - 1 <= n
  PROVE  LiesAt(u, SubSeq(s, 1, n), i)
<1>1. Len(s) \in Nat /\ Len(u) \in Nat
  BY BytesHaveLength
<1>2. \A j \in 1 .. Len(u) : i + j - 1 \in 1 .. n
  BY <1>1
<1>. DEFINE r == SubSeq(s, 1, n)
<1>3. \A k \in 1 .. n : r[k] = s[k]
  BY CutOfBytes
<1>. HIDE DEF r
<1>4. \A j \in 1 .. Len(u) : r[i + j - 1] = u[j]
  BY <1>2, <1>3 DEF LiesAt
<1>. QED BY <1>4 DEF LiesAt, r

(* Cut in its second part, a frame leaves that much of it. *)
LEMMA RestOfCut ==
  ASSUME NEW s \in Bytes, NEW t \in Bytes, NEW k \in 0 .. Len(t)
  PROVE  Rest(SubSeq(s \o t, 1, Len(s) + k), Len(s) + 1) = SubSeq(t, 1, k)
<1>. DEFINE w == s \o t
            c == SubSeq(t, 1, k)
            r == SubSeq(w, 1, Len(s) + k)
<1>1. Len(s) \in Nat /\ Len(t) \in Nat /\ k \in Nat /\ k <= Len(t)
  BY BytesHaveLength
<1>2. w \in Bytes /\ Len(w) = Len(s) + Len(t) /\ LiesAt(s, w, 1) /\ LiesAt(t, w, Len(s) + 1)
  BY ConcatOfBytes
<1>3. c \in Bytes /\ Len(c) = k /\ \A i \in 1 .. k : c[i] = t[i]
  BY CutOfBytes
<1>. HIDE DEF w, c
<1>4. r \in Bytes /\ Len(r) = Len(s) + k /\ \A i \in 1 .. Len(s) + k : r[i] = w[i]
  <2>1. Len(s) + k \in 0 .. Len(w)
    BY <1>1, <1>2
  <2>. QED BY <1>2, <2>1, CutOfBytes
<1>5. /\ s \o c \in Bytes /\ Len(s \o c) = Len(s) + k
      /\ LiesAt(s, s \o c, 1) /\ LiesAt(c, s \o c, Len(s) + 1)
  BY <1>3, ConcatOfBytes
<1>. HIDE DEF r
<1>6. \A i \in 1 .. Len(s) + k : r[i] = (s \o c)[i]
  <2>1. ASSUME NEW i \in 1 .. Len(s) + k, i <= Len(s)
        PROVE  r[i] = (s \o c)[i]
    <3>1. i \in 1 .. Len(s) /\ 1 + i - 1 = i
      BY <1>1, <2>1
    <3>. QED BY <1>2, <1>4, <1>5, <3>1 DEF LiesAt
  <2>2. ASSUME NEW i \in 1 .. Len(s) + k, ~(i <= Len(s))
        PROVE  r[i] = (s \o c)[i]
    <3>1. /\ i - Len(s) \in 1 .. k /\ i - Len(s) \in 1 .. Len(t)
          /\ Len(s) + 1 + (i - Len(s)) - 1 = i
      BY <1>1, <2>2
    <3>2. w[i] = t[i - Len(s)] /\ (s \o c)[i] = c[i - Len(s)]
      BY <1>2, <1>3, <1>5, <3>1 DEF LiesAt
    <3>. QED BY <1>3, <1>4, <3>1, <3>2
  <2>. QED BY <2>1, <2>2
<1>7. r = s \o c
  BY <1>4, <1>5, <1>6, SeqEqual DEF Bytes
<1>8. Rest(s \o c, Len(s) + 1) = c
  BY <1>3, RestOfConcat
<1>. QED BY <1>7, <1>8 DEF r, w, c

-----------------------------------------------------------------------------
(* Fields.                                                                 *)

LEMMA Halves ==
  ASSUME NEW n \in Nat, n < Byte * Byte
  PROVE  /\ n % Byte \in 0 .. Byte - 1 /\ n \div Byte \in 0 .. Byte - 1
         /\ (n % Byte) + Byte * (n \div Byte) = n
<1>1. n < 65536
  BY DEF Byte
<1>2. n % 256 \in 0 .. 255 /\ n \div 256 \in Nat /\ (n % 256) + 256 * (n \div 256) = n
  OBVIOUS
<1>3. n \div 256 < 256
  BY <1>1, <1>2
<1>. QED BY <1>2, <1>3 DEF Byte

LEMMA BytePairs == Byte * Byte \in Nat
BY DEF Byte

LEMMA FieldIsTwoBytes ==
  ASSUME NEW n \in 0 .. Byte * Byte - 1
  PROVE  /\ Field(n) \in Bytes /\ Len(Field(n)) = 2
         /\ Field(n)[1] + Byte * Field(n)[2] = n
<1>1. n % Byte \in 0 .. Byte - 1 /\ n \div Byte \in 0 .. Byte - 1 /\ (n % Byte) + Byte * (n \div Byte) = n
  <2>1. \A k \in Nat : n \in 0 .. k - 1 => n \in Nat /\ n < k
    OBVIOUS
  <2>2. n \in Nat /\ n < Byte * Byte
    BY <2>1, BytePairs
  <2>. QED BY <2>2, Halves
<1>2. \A a, b : a \in 0 .. Byte - 1 /\ b \in 0 .. Byte - 1 => <<a, b>> \in Bytes
  BY DEF Bytes
<1>. QED BY <1>1, <1>2 DEF Field

LEMMA FieldReads ==
  ASSUME NEW n \in 0 .. Byte * Byte - 1, NEW s, NEW i \in Nat, LiesAt(Field(n), s, i)
  PROVE  FieldAt(s, i) = n
<1>1. s[i] = Field(n)[1] /\ s[i + 1] = Field(n)[2]
  <2>1. s[i + 1 - 1] = Field(n)[1] /\ s[i + 2 - 1] = Field(n)[2]
    BY FieldIsTwoBytes DEF LiesAt
  <2>2. i + 1 - 1 = i /\ i + 2 - 1 = i + 1
    OBVIOUS
  <2>. QED BY <2>1, <2>2
<1>. QED BY <1>1, FieldIsTwoBytes DEF FieldAt

LEMMA FieldsAreBytes ==
  ASSUME NEW hops \in Fields16
  PROVE  /\ Len(hops) \in Nat
         /\ Fields(hops) \in Bytes /\ Len(Fields(hops)) = 2 * Len(hops)
         /\ \A k \in 1 .. Len(hops) :
              Fields(hops)[2 * k - 1] = Field(hops[k])[1] /\ Fields(hops)[2 * k] = Field(hops[k])[2]
<1>. DEFINE F == Fields(hops)
            N == 2 * Len(hops)
<1>1. Len(hops) \in Nat /\ \A k \in 1 .. Len(hops) : hops[k] \in 0 .. Byte * Byte - 1
  BY LenProperties, ElementOfSeq DEF Fields16
<1>2. F = [i \in 1 .. N |-> Field(hops[(i + 1) \div 2])[2 - (i % 2)]]
  BY DEF Fields
<1>3. \A i \in 1 .. N : (i + 1) \div 2 \in 1 .. Len(hops) /\ 2 - (i % 2) \in 1 .. 2
  BY <1>1
<1>4. \A i \in 1 .. N : F[i] \in 0 .. Byte - 1
  <2>1. \A k \in 1 .. Len(hops) : Field(hops[k])[1] \in 0 .. Byte - 1 /\ Field(hops[k])[2] \in 0 .. Byte - 1
    BY <1>1, FieldIsTwoBytes, BytesHaveLength
  <2>2. \A j \in 1 .. 2 : j = 1 \/ j = 2
    OBVIOUS
  <2>. QED BY <1>2, <1>3, <2>1, <2>2
<1>5. F \in [1 .. N -> 0 .. Byte - 1] /\ N \in Nat
  BY <1>1, <1>2, <1>4
<1>6. F \in Bytes /\ Len(F) = N
  <2>1. F \in Bytes
    BY <1>5, SeqDef DEF Bytes
  <2>2. DOMAIN F = 1 .. N /\ DOMAIN F = 1 .. Len(F) /\ Len(F) \in Nat
    BY <1>5, <2>1, BytesHaveLength
  <2>. QED BY <1>5, <2>1, <2>2
<1>7. ASSUME NEW k \in 1 .. Len(hops)
      PROVE  F[2 * k - 1] = Field(hops[k])[1] /\ F[2 * k] = Field(hops[k])[2]
  <2>1. /\ 2 * k - 1 \in 1 .. N /\ 2 * k \in 1 .. N
        /\ (2 * k - 1 + 1) \div 2 = k /\ (2 * k + 1) \div 2 = k
        /\ 2 - ((2 * k - 1) % 2) = 1 /\ 2 - ((2 * k) % 2) = 2
    BY <1>1
  <2>. QED BY <1>2, <2>1
<1>. QED BY <1>1, <1>6, <1>7

LEMMA FieldsRead ==
  ASSUME NEW hops \in Fields16, NEW s, NEW i \in Nat, LiesAt(Fields(hops), s, i)
  PROVE  FieldsAt(s, i, Len(hops)) = hops
<1>1. /\ Len(hops) \in Nat /\ Len(Fields(hops)) = 2 * Len(hops)
      /\ \A k \in 1 .. Len(hops) :
           Fields(hops)[2 * k - 1] = Field(hops[k])[1] /\ Fields(hops)[2 * k] = Field(hops[k])[2]
  BY FieldsAreBytes
<1>2. \A k \in 1 .. Len(hops) : hops[k] \in 0 .. Byte * Byte - 1
  BY ElementOfSeq DEF Fields16
<1>. DEFINE G == Fields(hops)
<1>. HIDE DEF G
<1>3. ASSUME NEW k \in 1 .. Len(hops)
      PROVE  FieldAt(s, i + 2 * (k - 1)) = hops[k]
  <2>1. /\ 2 * k - 1 \in 1 .. 2 * Len(hops) /\ 2 * k \in 1 .. 2 * Len(hops)
        /\ i + (2 * k - 1) - 1 = i + 2 * (k - 1) /\ i + 2 * k - 1 = i + 2 * (k - 1) + 1
    BY <1>1
  <2>2. s[i + (2 * k - 1) - 1] = G[2 * k - 1] /\ s[i + 2 * k - 1] = G[2 * k]
    BY <1>1, <2>1 DEF LiesAt, G
  <2>3. s[i + 2 * (k - 1)] = Field(hops[k])[1] /\ s[i + 2 * (k - 1) + 1] = Field(hops[k])[2]
    BY <1>1, <2>1, <2>2 DEF G
  <2>. QED BY <1>2, <2>3, FieldIsTwoBytes DEF FieldAt
<1>4. hops = [k \in 1 .. Len(hops) |-> hops[k]]
  BY LenProperties DEF Fields16
<1>. QED BY <1>3, <1>4 DEF FieldsAt

-----------------------------------------------------------------------------
(* Parts of a frame.                                                       *)
LEMMA PartOfBytes ==
  ASSUME NEW s \in Bytes, NEW i \in Nat \ {0}, NEW n \in Nat, i <= n + 1, n <= Len(s)
  PROVE  /\ SubSeq(s, i, n) \in Bytes /\ Len(SubSeq(s, i, n)) = n - i + 1
         /\ \A j \in 1 .. n - i + 1 : SubSeq(s, i, n)[j] = s[i + j - 1]
<1>1. \A j \in i .. n : s[j] \in 0 .. Byte - 1
  <2>1. \A j \in i .. n : j \in 1 .. Len(s)
    BY BytesHaveLength
  <2>. QED BY <2>1, BytesHaveLength
<1>2. /\ SubSeq(s, i, n) \in Seq(0 .. Byte - 1)
      /\ Len(SubSeq(s, i, n)) = IF i <= n THEN n - i + 1 ELSE 0
      /\ \A j \in 1 .. n - i + 1 : SubSeq(s, i, n)[j] = s[i + j - 1]
  <2>1. i \in Int /\ n \in Int
    OBVIOUS
  <2>. QED BY <1>1, <2>1, SubSeqProperties
<1>. QED BY <1>2 DEF Bytes

LEMMA RestOfBytes ==
  ASSUME NEW s \in Bytes, NEW i \in Nat \ {0}, i <= Len(s) + 1
  PROVE  /\ Rest(s, i) \in Bytes /\ Len(Rest(s, i)) = Len(s) - i + 1
         /\ \A j \in 1 .. Len(s) - i + 1 : Rest(s, i)[j] = s[i + j - 1]
<1>1. Len(s) \in Nat /\ Len(s) <= Len(s)
  BY BytesHaveLength
<1>. QED BY <1>1, PartOfBytes DEF Rest

(* A part and the part after it. *)
LEMMA PartsAreJoined ==
  ASSUME NEW s \in Bytes, NEW i \in Nat \ {0}, NEW m \in Nat, NEW n \in Nat,
         i <= m + 1, m <= n, n <= Len(s)
  PROVE  SubSeq(s, i, m) \o SubSeq(s, m + 1, n) = SubSeq(s, i, n)
<1>. DEFINE a == SubSeq(s, i, m)
            b == SubSeq(s, m + 1, n)
            c == SubSeq(s, i, n)
<1>1. Len(s) \in Nat
  BY BytesHaveLength
<1>2. a \in Bytes /\ Len(a) = m - i + 1 /\ \A j \in 1 .. m - i + 1 : a[j] = s[i + j - 1]
  BY <1>1, PartOfBytes
<1>3. b \in Bytes /\ Len(b) = n - m /\ \A j \in 1 .. n - m : b[j] = s[m + j]
  <2>1. m + 1 \in Nat \ {0} /\ m + 1 <= n + 1 /\ n - (m + 1) + 1 = n - m
    OBVIOUS
  <2>2. /\ b \in Bytes /\ Len(b) = n - (m + 1) + 1
        /\ \A j \in 1 .. n - (m + 1) + 1 : b[j] = s[m + 1 + j - 1]
    BY <1>1, <2>1, PartOfBytes
  <2>3. \A j \in 1 .. n - m : m + 1 + j - 1 = m + j
    OBVIOUS
  <2>. QED BY <2>1, <2>2, <2>3
<1>4. c \in Bytes /\ Len(c) = n - i + 1 /\ \A j \in 1 .. n - i + 1 : c[j] = s[i + j - 1]
  <2>1. i <= n + 1
    OBVIOUS
  <2>. QED BY <1>1, <2>1, PartOfBytes
<1>. HIDE DEF a, b, c
<1>5. /\ a \o b \in Bytes /\ Len(a \o b) = Len(a) + Len(b)
      /\ \A j \in 1 .. Len(a) + Len(b) : (a \o b)[j] = IF j <= Len(a) THEN a[j] ELSE b[j - Len(a)]
  <2>. DEFINE S == 0 .. Byte - 1
  <2>1. a \in Seq(S) /\ b \in Seq(S) /\ Bytes = Seq(S)
    BY <1>2, <1>3 DEF Bytes
  <2>. HIDE DEF S
  <2>. QED BY <2>1, ConcatProperties
<1>6. Len(a \o b) = Len(c)
  BY <1>2, <1>3, <1>4, <1>5
<1>7. ASSUME NEW j \in 1 .. n - i + 1
      PROVE  (a \o b)[j] = c[j]
  <2>1. CASE j <= m - i + 1
    <3>1. j \in 1 .. m - i + 1 /\ j \in 1 .. Len(a) + Len(b)
      BY <1>2, <1>3, <2>1
    <3>. QED BY <1>2, <1>4, <1>5, <2>1, <3>1
  <2>2. CASE ~(j <= m - i + 1)
    <3>1. j - (m - i + 1) \in 1 .. n - m /\ j \in 1 .. Len(a) + Len(b)
      BY <1>2, <1>3, <2>2
    <3>2. m + (j - (m - i + 1)) = i + j - 1
      OBVIOUS
    <3>3. (a \o b)[j] = b[j - (m - i + 1)]
      BY <1>2, <1>5, <2>2, <3>1
    <3>. QED BY <1>3, <1>4, <3>1, <3>2, <3>3
  <2>. QED BY <2>1, <2>2
<1>8. \A j \in 1 .. Len(a \o b) : (a \o b)[j] = c[j]
  BY <1>4, <1>6, <1>7
<1>. QED BY <1>4, <1>5, <1>6, <1>8, SeqEqual DEF a, b, c, Bytes

(* A field that is read is written as it was. *)
LEMMA FieldOfBytes ==
  ASSUME NEW x \in Nat, NEW y \in Nat, x < Byte
  PROVE  Field(x + Byte * y) = <<x, y>>
<1>1. (x + 256 * y) % 256 = x /\ (x + 256 * y) \div 256 = y
  BY DEF Byte
<1>. QED BY <1>1 DEF Field, Byte

LEMMA PairIsPart ==
  ASSUME NEW s \in Bytes, NEW i \in Nat \ {0}, i + 1 <= Len(s)
  PROVE  <<s[i], s[i + 1]>> = SubSeq(s, i, i + 1)
<1>1. /\ SubSeq(s, i, i + 1) \in Bytes /\ Len(SubSeq(s, i, i + 1)) = 2
      /\ SubSeq(s, i, i + 1)[1] = s[i] /\ SubSeq(s, i, i + 1)[2] = s[i + 1]
  <2>1. i + 1 \in Nat /\ i <= i + 1 + 1 /\ i + 1 - i + 1 = 2 /\ i + 1 - 1 = i /\ i + 2 - 1 = i + 1
    OBVIOUS
  <2>2. /\ SubSeq(s, i, i + 1) \in Bytes /\ Len(SubSeq(s, i, i + 1)) = i + 1 - i + 1
        /\ \A j \in 1 .. i + 1 - i + 1 : SubSeq(s, i, i + 1)[j] = s[i + j - 1]
    BY <2>1, PartOfBytes
  <2>3. 1 \in 1 .. 2 /\ 2 \in 1 .. 2
    OBVIOUS
  <2>. QED BY <2>1, <2>2, <2>3
<1>. DEFINE q == SubSeq(s, i, i + 1)
<1>. HIDE DEF q
<1>2. q \in Bytes /\ Len(q) = 2 => q = <<q[1], q[2]>>
  BY DEF Bytes
<1>. QED BY <1>1, <1>2 DEF q

LEMMA FieldIsPart ==
  ASSUME NEW s \in Bytes, NEW i \in Nat \ {0}, i + 1 <= Len(s)
  PROVE  Field(FieldAt(s, i)) = SubSeq(s, i, i + 1)
<1>1. \A k \in Nat : \A x \in 0 .. k - 1 : x \in Nat /\ x < k
  OBVIOUS
<1>2. s[i] \in 0 .. Byte - 1 /\ s[i + 1] \in 0 .. Byte - 1
  <2>1. i \in 1 .. Len(s) /\ i + 1 \in 1 .. Len(s)
    BY BytesHaveLength
  <2>. QED BY <2>1, BytesHaveLength
<1>3. Field(FieldAt(s, i)) = <<s[i], s[i + 1]>>
  <2>1. Byte \in Nat
    BY DEF Byte
  <2>2. s[i] \in Nat /\ s[i] < Byte /\ s[i + 1] \in Nat
    BY <1>1, <1>2, <2>1
  <2>3. PICK x \in Nat, y \in Nat : x = s[i] /\ y = s[i + 1]
    BY <2>2
  <2>4. Field(x + Byte * y) = <<x, y>>
    BY <2>2, <2>3, FieldOfBytes
  <2>. QED BY <2>3, <2>4 DEF FieldAt
<1>. QED BY <1>3, PairIsPart

LEMMA ByteIsPart ==
  ASSUME NEW s \in Bytes, NEW i \in 1 .. Len(s)
  PROVE  <<s[i]>> = SubSeq(s, i, i)
<1>1. Len(s) \in Nat /\ i \in Nat \ {0} /\ i <= i + 1 /\ i <= Len(s) /\ i - i + 1 = 1 /\ i + 1 - 1 = i
  BY BytesHaveLength
<1>. DEFINE q == SubSeq(s, i, i)
<1>2. q \in Bytes /\ Len(q) = i - i + 1 /\ \A j \in 1 .. i - i + 1 : q[j] = s[i + j - 1]
  BY <1>1, PartOfBytes
<1>3. q \in Bytes /\ Len(q) = 1 /\ q[1] = s[i]
  BY <1>1, <1>2
<1>. HIDE DEF q
<1>4. q = <<q[1]>>
  BY <1>3 DEF Bytes
<1>. QED BY <1>3, <1>4 DEF q

-----------------------------------------------------------------------------
(* The headers.                                                            *)

(* An optional part is as long as what is there of it, or shorter.         *)
LEMMA PartsFit ==
  ASSUME NEW s \in Bytes
  PROVE  /\ RoutePart(s).ok => RoutePart(s).size \in Nat /\ RoutePart(s).size <= Len(s)
         /\ SecurityPart(s).ok => SecurityPart(s).size \in Nat /\ SecurityPart(s).size <= Len(s)
<1>1. RoutePart(s).ok => RoutePart(s).size \in Nat /\ RoutePart(s).size <= Len(s)
  <2>1. SUFFICES ASSUME ~(s = <<>> \/ Len(s) < 1 + 2 * s[1])
                 PROVE  RoutePart(s).size \in Nat /\ RoutePart(s).size <= Len(s)
    BY DEF RoutePart, NoPart
  <2>2. RoutePart(s).size = 1 + 2 * s[1]
    BY <2>1 DEF RoutePart
  <2>3. Len(s) \in Nat /\ (s # <<>> => Len(s) # 0)
    BY DEF Bytes
  <2>4. 1 \in 1 .. Len(s)
    BY <2>1, <2>3
  <2>5. s[1] \in Nat
    <3>1. \A k \in Nat : \A x \in 0 .. k - 1 : x \in Nat
      OBVIOUS
    <3>2. Byte \in Nat
      BY DEF Byte
    <3>. QED BY <2>4, <3>1, <3>2, BytesHaveLength
  <2>. QED BY <2>1, <2>2, <2>3, <2>5
<1>2. SecurityPart(s).ok => SecurityPart(s).size \in Nat /\ SecurityPart(s).size <= Len(s)
  <2>. DEFINE size == IF Bit(s[1], 4) \/ Bit(s[1], 8) THEN 6 ELSE 5
  <2>1. SUFFICES ASSUME ~(Len(s) < 5 \/ Len(s) < size)
                 PROVE  SecurityPart(s).size \in Nat /\ SecurityPart(s).size <= Len(s)
    BY DEF SecurityPart, NoPart
  <2>2. SecurityPart(s).size = size
    BY <2>1 DEF SecurityPart
  <2>3. size \in Nat /\ Len(s) \in Nat
    BY BytesHaveLength
  <2>. HIDE DEF size
  <2>. QED BY <2>1, <2>2, <2>3
<1>. QED BY <1>1, <1>2

(* Parsing the NWK header of a frame reads no further than the frame goes, *)
(* whatever its bytes are and wherever it ends: parse of ZigbeeNwkHeader   *)
(* checks the length before each part.                                     *)
THEOREM HeadersAlwaysLieInside == \A s \in Bytes : HeaderLiesInside(s)
<1>. SUFFICES ASSUME NEW s \in Bytes, Len(s) >= MacHeaderSize, ParseNwk(s, MacHeaderSize).ok
              PROVE  MacHeaderSize + ParseNwk(s, MacHeaderSize).size <= Len(s)
  BY DEF HeaderLiesInside
<1>. DEFINE r == Rest(s, MacHeaderSize + 1)
            route == IF Bit(r[1], RouteBit) THEN RoutePart(Rest(r, 8)) ELSE NotSent
            sec   == IF Bit(r[1], SecurityBit) THEN SecurityPart(Rest(r, 8 + route.size)) ELSE NotSent
            h == ParseNwk(s, MacHeaderSize)
<1>1. ~(Len(r) < 7 \/ ~route.ok \/ ~sec.ok) /\ h.size = 7 + route.size + sec.size
  BY DEF ParseNwk, NoHeader
<1>2. MacHeaderSize = 9 /\ Len(s) \in Nat /\ Len(s) >= 9
  BY BytesHaveLength DEF MacHeaderSize
<1>3. r \in Bytes /\ Len(r) = Len(s) - 9
  <2>1. MacHeaderSize + 1 \in Nat \ {0} /\ MacHeaderSize + 1 <= Len(s) + 1
    BY <1>2
  <2>2. r \in Bytes /\ Len(r) = Len(s) - (MacHeaderSize + 1) + 1
    BY <2>1, RestOfBytes
  <2>. QED BY <1>2, <2>2
<1>. HIDE DEF r
<1>4. route.size \in Nat /\ route.size <= Len(r) - 7
  <2>1. CASE Bit(r[1], RouteBit)
    <3>. DEFINE q == Rest(r, 8)
    <3>1. q \in Bytes /\ Len(q) = Len(r) - 7
      <4>1. 8 \in Nat \ {0} /\ 8 <= Len(r) + 1 /\ Len(r) - 8 + 1 = Len(r) - 7
        BY <1>1, <1>2, <1>3
      <4>. QED BY <1>3, <4>1, RestOfBytes
    <3>2. route = RoutePart(q)
      BY <2>1
    <3>. HIDE DEF q, route
    <3>. QED BY <1>1, <3>1, <3>2, PartsFit
  <2>2. CASE ~Bit(r[1], RouteBit)
    BY <1>1, <1>2, <1>3, <2>2 DEF NotSent
  <2>. QED BY <2>1, <2>2
<1>. HIDE DEF route
<1>5. sec.size \in Nat /\ sec.size <= Len(r) - 7 - route.size
  <2>1. CASE Bit(r[1], SecurityBit)
    <3>. DEFINE q == Rest(r, 8 + route.size)
    <3>1. q \in Bytes /\ Len(q) = Len(r) - 7 - route.size
      <4>1. /\ 8 + route.size \in Nat \ {0} /\ 8 + route.size <= Len(r) + 1
            /\ Len(r) - (8 + route.size) + 1 = Len(r) - 7 - route.size
        BY <1>1, <1>2, <1>3, <1>4
      <4>2. q \in Bytes /\ Len(q) = Len(r) - (8 + route.size) + 1
        BY <1>3, <4>1, RestOfBytes
      <4>. QED BY <4>1, <4>2
    <3>2. sec = SecurityPart(q)
      BY <2>1
    <3>. HIDE DEF q, sec
    <3>. QED BY <1>1, <3>1, <3>2, PartsFit
  <2>2. CASE ~Bit(r[1], SecurityBit)
    BY <1>1, <1>2, <1>3, <1>4, <2>2 DEF NotSent
  <2>. QED BY <2>1, <2>2
<1>. HIDE DEF sec, h
<1>6. MacHeaderSize + h.size <= Len(s)
  BY <1>1, <1>2, <1>3, <1>4, <1>5
<1>. QED BY <1>6 DEF h

(* A frame's first part and the byte after it. *)
LEMMA PartThenByte ==
  ASSUME NEW s \in Bytes, NEW i \in Nat \ {0}, NEW m \in Nat, NEW n \in Nat, n = m + 1, i <= n, n <= Len(s)
  PROVE  SubSeq(s, i, m) \o <<s[n]>> = SubSeq(s, i, n)
<1>1. n \in Nat /\ m <= n
  OBVIOUS
<1>2. n \in 1 .. Len(s)
  BY BytesHaveLength
<1>. QED BY <1>1, <1>2, ByteIsPart, PartsAreJoined

(* What build makes of a header that parse has read is what it was read of. *)
LEMMA MacReadsBack ==
  ASSUME NEW s \in Bytes, Len(s) >= 9
  PROVE  BuildMac(ParseMac(s)) = SubSeq(s, 1, 9)
<1>1. BuildMac(ParseMac(s)) =
        Field(FieldAt(s, 1)) \o <<s[3]>> \o Field(FieldAt(s, 4)) \o Field(FieldAt(s, 6)) \o Field(FieldAt(s, 8))
  <2>1. ParseMac(s) = [ok |-> TRUE, frameControl |-> FieldAt(s, 1), seq |-> s[3], destPan |-> FieldAt(s, 4),
                       dest |-> FieldAt(s, 6), src |-> FieldAt(s, 8)]
    <3>1. ~(Len(s) < MacHeaderSize)
      BY BytesHaveLength DEF MacHeaderSize
    <3>. QED BY <3>1 DEF ParseMac
  <2>. QED BY <2>1 DEF BuildMac
<1>2. \A n \in 0 .. 9 : n <= Len(s)
  BY BytesHaveLength
<1>3. Field(FieldAt(s, 1)) = SubSeq(s, 1, 2)
  BY <1>2, FieldIsPart
<1>4. SubSeq(s, 1, 2) \o <<s[3]>> = SubSeq(s, 1, 3)
  BY <1>2, PartThenByte
<1>5. SubSeq(s, 1, 3) \o Field(FieldAt(s, 4)) = SubSeq(s, 1, 5)
  <2>1. Field(FieldAt(s, 4)) = SubSeq(s, 4, 5)
    BY <1>2, FieldIsPart, BytesHaveLength
  <2>2. SubSeq(s, 1, 3) \o SubSeq(s, 4, 5) = SubSeq(s, 1, 5)
    BY <1>2, PartsAreJoined, BytesHaveLength
  <2>. QED BY <2>1, <2>2
<1>6. SubSeq(s, 1, 5) \o Field(FieldAt(s, 6)) = SubSeq(s, 1, 7)
  <2>1. Field(FieldAt(s, 6)) = SubSeq(s, 6, 7)
    BY <1>2, FieldIsPart, BytesHaveLength
  <2>2. SubSeq(s, 1, 5) \o SubSeq(s, 6, 7) = SubSeq(s, 1, 7)
    BY <1>2, PartsAreJoined, BytesHaveLength
  <2>. QED BY <2>1, <2>2
<1>7. SubSeq(s, 1, 7) \o Field(FieldAt(s, 8)) = SubSeq(s, 1, 9)
  <2>1. Field(FieldAt(s, 8)) = SubSeq(s, 8, 9)
    BY <1>2, FieldIsPart, BytesHaveLength
  <2>2. SubSeq(s, 1, 7) \o SubSeq(s, 8, 9) = SubSeq(s, 1, 9)
    BY <1>2, PartsAreJoined, BytesHaveLength
  <2>. QED BY <2>1, <2>2
<1>. QED BY <1>1, <1>3, <1>4, <1>5, <1>6, <1>7

LEMMA NwkReadsBack ==
  ASSUME NEW r \in Bytes, Len(r) >= 7, NEW h,
         h.frameControl = r[1], h.seq = r[2], h.dst = FieldAt(r, 3), h.src = FieldAt(r, 5), h.radius = r[7]
  PROVE  BuildNwk(h) = SubSeq(r, 1, 7)
<1>1. BuildNwk(h) = <<r[1], r[2]>> \o Field(FieldAt(r, 3)) \o Field(FieldAt(r, 5)) \o <<r[7]>>
  BY DEF BuildNwk
<1>2. \A n \in 0 .. 7 : n <= Len(r)
  BY BytesHaveLength
<1>3. <<r[1], r[2]>> = SubSeq(r, 1, 2)
  <2>1. 1 \in Nat \ {0} /\ 1 + 1 = 2 /\ 2 <= Len(r)
    BY <1>2
  <2>. QED BY <2>1, PairIsPart
<1>4. SubSeq(r, 1, 2) \o Field(FieldAt(r, 3)) = SubSeq(r, 1, 4)
  <2>1. Field(FieldAt(r, 3)) = SubSeq(r, 3, 4)
    BY <1>2, FieldIsPart, BytesHaveLength
  <2>2. SubSeq(r, 1, 2) \o SubSeq(r, 3, 4) = SubSeq(r, 1, 4)
    BY <1>2, PartsAreJoined, BytesHaveLength
  <2>. QED BY <2>1, <2>2
<1>5. SubSeq(r, 1, 4) \o Field(FieldAt(r, 5)) = SubSeq(r, 1, 6)
  <2>1. Field(FieldAt(r, 5)) = SubSeq(r, 5, 6)
    BY <1>2, FieldIsPart, BytesHaveLength
  <2>2. SubSeq(r, 1, 4) \o SubSeq(r, 5, 6) = SubSeq(r, 1, 6)
    BY <1>2, PartsAreJoined, BytesHaveLength
  <2>. QED BY <2>1, <2>2
<1>6. SubSeq(r, 1, 6) \o <<r[7]>> = SubSeq(r, 1, 7)
  BY <1>2, PartThenByte
<1>. QED BY <1>1, <1>3, <1>4, <1>5, <1>6

(* The MAC and the NWK header of a frame, parsed by one host and built     *)
(* anew, give the bytes that they were read of: for any frame whose NWK    *)
(* frame control asks for neither a source route nor security.             *)
THEOREM HeadersAlwaysReadBack == \A s \in Bytes : HeaderReadsBack(s)
<1>. SUFFICES ASSUME NEW s \in Bytes, ParseMac(s).ok, ParseNwk(s, MacHeaderSize).ok,
                     Plain(ParseNwk(s, MacHeaderSize).frameControl)
              PROVE  BuildMac(ParseMac(s)) \o BuildNwk(ParseNwk(s, MacHeaderSize)) =
                       SubSeq(s, 1, MacHeaderSize + ParseNwk(s, MacHeaderSize).size)
  BY DEF HeaderReadsBack
<1>. DEFINE r == Rest(s, 10)
            h == ParseNwk(s, MacHeaderSize)
<1>1. Len(s) \in Nat /\ Len(s) >= 9
  BY BytesHaveLength DEF ParseMac, NoHeader, MacHeaderSize
<1>2. r \in Bytes /\ Len(r) = Len(s) - 9 /\ \A j \in 1 .. Len(s) - 9 : r[j] = s[9 + j]
  <2>1. 10 \in Nat \ {0} /\ 10 <= Len(s) + 1 /\ Len(s) - 10 + 1 = Len(s) - 9
    BY <1>1
  <2>2. /\ r \in Bytes /\ Len(r) = Len(s) - 10 + 1
        /\ \A j \in 1 .. Len(s) - 10 + 1 : r[j] = s[10 + j - 1]
    BY <2>1, RestOfBytes
  <2>3. \A j \in 1 .. Len(s) - 9 : 10 + j - 1 = 9 + j
    BY <1>1
  <2>. QED BY <2>1, <2>2, <2>3
<1>3. /\ Len(r) >= 7
      /\ h.frameControl = r[1] /\ h.seq = r[2] /\ h.dst = FieldAt(r, 3) /\ h.src = FieldAt(r, 5)
      /\ h.radius = r[7] /\ h.size = 7
  <2>. DEFINE route == IF Bit(r[1], RouteBit) THEN RoutePart(Rest(r, 8)) ELSE NotSent
              sec   == IF Bit(r[1], SecurityBit) THEN SecurityPart(Rest(r, 8 + route.size)) ELSE NotSent
  <2>1. MacHeaderSize + 1 = 10
    BY DEF MacHeaderSize
  <2>2. ~(Len(r) < 7)
    BY <2>1 DEF ParseNwk, NoHeader
  <2>3. h = [ok |-> TRUE, frameControl |-> r[1], seq |-> r[2], dst |-> FieldAt(r, 3), src |-> FieldAt(r, 5),
             radius |-> r[7], route |-> route.value, aux |-> sec.value, size |-> 7 + route.size + sec.size]
    BY <2>1 DEF ParseNwk, NoHeader
  <2>4. h.frameControl = r[1]
    BY <2>3
  <2>5. route = NotSent /\ sec = NotSent
    BY <2>4 DEF Plain
  <2>. HIDE DEF route, sec, r, h
  <2>6. h.size = 7
    BY <2>3, <2>5 DEF NotSent
  <2>. QED BY <1>1, <1>2, <2>2, <2>3, <2>6
<1>. HIDE DEF r, h
<1>4. BuildNwk(h) = SubSeq(r, 1, 7)
  BY <1>2, <1>3, NwkReadsBack
<1>5. SubSeq(r, 1, 7) = SubSeq(s, 10, 16)
  <2>1. 16 \in Nat /\ 10 \in Nat \ {0} /\ 10 <= 16 + 1 /\ 16 <= Len(s) /\ 7 \in 0 .. Len(r)
    BY <1>1, <1>2, <1>3
  <2>2. /\ SubSeq(s, 10, 16) \in Bytes /\ Len(SubSeq(s, 10, 16)) = 16 - 10 + 1
        /\ \A j \in 1 .. 16 - 10 + 1 : SubSeq(s, 10, 16)[j] = s[10 + j - 1]
    BY <2>1, PartOfBytes
  <2>3. /\ SubSeq(r, 1, 7) \in Bytes /\ Len(SubSeq(r, 1, 7)) = 7
        /\ \A j \in 1 .. 7 : SubSeq(r, 1, 7)[j] = r[j]
    BY <1>2, <2>1, CutOfBytes
  <2>4. \A j \in 1 .. 7 : SubSeq(r, 1, 7)[j] = SubSeq(s, 10, 16)[j]
    BY <1>1, <1>2, <1>3, <2>2, <2>3
  <2>. QED BY <2>2, <2>3, <2>4, SeqEqual DEF Bytes
<1>6. SubSeq(s, 1, 9) \o SubSeq(s, 10, 16) = SubSeq(s, 1, 16)
  <2>1. 9 \in Nat /\ 16 \in Nat /\ 1 <= 9 + 1 /\ 9 <= 16 /\ 16 <= Len(s) /\ 9 + 1 = 10
    BY <1>1, <1>2, <1>3
  <2>. QED BY <2>1, PartsAreJoined
<1>7. BuildMac(ParseMac(s)) = SubSeq(s, 1, 9)
  BY <1>1, MacReadsBack
<1>8. MacHeaderSize + h.size = 16
  BY <1>3 DEF MacHeaderSize
<1>. QED BY <1>4, <1>5, <1>6, <1>7, <1>8 DEF h

-----------------------------------------------------------------------------
(* Loops.                                                                  *)

(* Of a set of numbers one is the least. *)
LEMMA LeastOf ==
  ASSUME NEW B \in SUBSET Nat, B # {}
  PROVE  \E n \in B : \A m \in B : n <= m
<1>. DEFINE R == {p \in Nat \X Nat : p[1] < p[2]}
<1>1. IsWellFoundedOn(R, Nat)
  BY NatLessThanWellFounded DEF OpToRel
<1>2. PICK n \in B : \A m \in B : <<m, n>> \notin R
  <2>. HIDE DEF R
  <2>. QED BY <1>1, WFMin
<1>3. \A m \in B : ~(m < n)
  BY <1>2
<1>4. \A m \in B : n <= m
  <2>1. n \in Nat /\ \A m \in B : m \in Nat
    OBVIOUS
  <2>. QED BY <1>3, <2>1
<1>. QED BY <1>4

(* The values a loop takes, as a function of how far it has come. *)
IsRun(r, S, step, x, s, n) ==
  /\ r \in [0 .. n -> S]
  /\ r[0] = x
  /\ \A i \in 1 .. n : r[i] = step[s[i]][r[i - 1]]

LEMMA RunsExist ==
  ASSUME NEW S, NEW T, NEW step, \A u \in S, b \in T : step[b][u] \in S,
         NEW x \in S, NEW s \in Seq(T), NEW n \in 0 .. Len(s)
  PROVE  \E r : IsRun(r, S, step, x, s, n)
<1>. DEFINE Bad == {k \in 0 .. Len(s) : ~\E r : IsRun(r, S, step, x, s, k)}
<1>1. SUFFICES ASSUME Bad # {}
               PROVE  FALSE
  OBVIOUS
<1>2. Bad \in SUBSET Nat /\ Len(s) \in Nat
  BY LenProperties
<1>3. PICK k \in Bad : \A m \in Bad : k <= m
  <2>. HIDE DEF Bad
  <2>. QED BY <1>1, <1>2, LeastOf
<1>4. k \in Nat /\ k <= Len(s)
  <2>1. k \in 0 .. Len(s)
    OBVIOUS
  <2>. QED BY <1>2, <2>1
<1>5. CASE k = 0
  <2>1. IsRun([i \in 0 .. 0 |-> x], S, step, x, s, 0)
    BY DEF IsRun
  <2>. QED BY <1>5, <2>1
<1>6. CASE k # 0
  <2>1. k - 1 \in 0 .. Len(s) /\ k - 1 \notin Bad
    <3>1. k - 1 \in 0 .. Len(s) /\ ~(k <= k - 1)
      BY <1>2, <1>4, <1>6
    <3>. HIDE DEF Bad
    <3>. QED BY <1>3, <3>1
  <2>2. PICK r : IsRun(r, S, step, x, s, k - 1)
    BY <2>1
  <2>. DEFINE q == [i \in 0 .. k |-> IF i = k THEN step[s[k]][r[k - 1]] ELSE r[i]]
  <2>3. r \in [0 .. k - 1 -> S] /\ r[0] = x /\ \A i \in 1 .. k - 1 : r[i] = step[s[i]][r[i - 1]]
    BY <2>2 DEF IsRun
  <2>4. s[k] \in T /\ r[k - 1] \in S
    <3>1. k \in 1 .. Len(s) /\ k - 1 \in 0 .. k - 1
      BY <1>4, <1>6
    <3>. QED BY <2>3, <3>1, ElementOfSeq
  <2>5. step[s[k]][r[k - 1]] \in S
    BY <2>4
  <2>6. q \in [0 .. k -> S]
    BY <1>4, <2>3, <2>5
  <2>7. q[0] = x
    BY <1>4, <1>6, <2>3
  <2>8. ASSUME NEW i \in 1 .. k
        PROVE  q[i] = step[s[i]][q[i - 1]]
    <3>1. i - 1 \in 0 .. k - 1 /\ i \in 0 .. k /\ i - 1 \in 0 .. k /\ i - 1 # k
      BY <1>4
    <3>2. q[i - 1] = r[i - 1]
      BY <3>1
    <3>3. CASE i = k
      BY <3>1, <3>2, <3>3
    <3>4. CASE i # k
      <4>1. i \in 1 .. k - 1
        BY <1>4, <3>4
      <4>2. q[i] = r[i]
        BY <3>1, <3>4
      <4>. QED BY <2>3, <3>2, <4>1, <4>2
    <3>. QED BY <3>3, <3>4
  <2>. HIDE DEF q
  <2>9. IsRun(q, S, step, x, s, k)
    BY <2>6, <2>7, <2>8 DEF IsRun
  <2>. QED BY <1>3, <2>9
<1>. QED BY <1>5, <1>6

LEMMA LoopIsRun ==
  ASSUME NEW S, NEW T, NEW step, \A u \in S, b \in T : step[b][u] \in S,
         NEW x \in S, NEW s \in Seq(T)
  PROVE  \E r : IsRun(r, S, step, x, s, Len(s)) /\ Loop(step, x, s) = r[Len(s)]
<1>. DEFINE n == Len(s)
            F(r) == [i \in 0 .. n |-> IF i = 0 THEN x ELSE step[s[i]][r[i - 1]]]
            g == CHOOSE r : r = F(r)
<1>1. n \in Nat
  BY LenProperties
<1>2. PICK q : IsRun(q, S, step, x, s, n)
  <2>1. n \in 0 .. Len(s)
    BY <1>1
  <2>. QED BY <2>1, RunsExist
<1>3. q = F(q)
  BY <1>1, <1>2 DEF IsRun
<1>4. g = F(g)
  BY <1>3
<1>5. Loop(step, x, s) = g[n]
  BY DEF Loop
<1>6. g[0] = x /\ \A i \in 1 .. n : g[i] = step[s[i]][g[i - 1]]
  <2>1. \A i \in 0 .. n : F(g)[i] = IF i = 0 THEN x ELSE step[s[i]][g[i - 1]]
    <3>. HIDE DEF g
    <3>. QED OBVIOUS
  <2>2. 0 \in 0 .. n /\ \A i \in 1 .. n : i \in 0 .. n /\ i # 0
    BY <1>1
  <2>. HIDE DEF g, F
  <2>. QED BY <1>4, <2>1, <2>2
<1>7. \A i \in 0 .. n : g[i] = q[i]
  <2>. DEFINE Bad == {i \in 0 .. n : g[i] # q[i]}
  <2>. HIDE DEF g
  <2>1. SUFFICES ASSUME Bad # {}
                 PROVE  FALSE
    OBVIOUS
  <2>2. Bad \in SUBSET Nat
    BY <1>1
  <2>3. PICK i \in Bad : \A m \in Bad : i <= m
    <3>. HIDE DEF Bad
    <3>. QED BY <2>1, <2>2, LeastOf
  <2>4. CASE i = 0
    BY <1>2, <1>6, <2>3, <2>4 DEF IsRun
  <2>5. CASE i # 0
    <3>1. i \in 1 .. n /\ i - 1 \in 0 .. n /\ ~(i <= i - 1)
      BY <1>1, <2>3, <2>5
    <3>2. g[i - 1] = q[i - 1]
      BY <2>3, <3>1
    <3>. QED BY <1>2, <1>6, <2>3, <3>1, <3>2 DEF IsRun
  <2>. QED BY <2>4, <2>5
<1>8. n \in 0 .. n
  BY <1>1
<1>. QED BY <1>2, <1>5, <1>7, <1>8

(* What two loops over sequences of one length keep between them, they     *)
(* have between them in the end.  R is a relation between how far they     *)
(* have come and what they have.                                           *)
LEMMA LoopsRelate ==
  ASSUME NEW S, NEW T,
         NEW f, \A u \in S, b \in T : f[b][u] \in S, NEW x \in S, NEW s \in Seq(T),
         NEW g, \A u \in S, b \in T : g[b][u] \in S, NEW y \in S, NEW t \in Seq(T),
         Len(t) = Len(s),
         NEW R, <<0, x, y>> \in R,
         \A i \in 1 .. Len(s) : \A u, v \in S :
           <<i - 1, u, v>> \in R => <<i, f[s[i]][u], g[t[i]][v]>> \in R
  PROVE  <<Len(s), Loop(f, x, s), Loop(g, y, t)>> \in R
<1>. DEFINE n == Len(s)
<1>1. n \in Nat
  BY LenProperties
<1>2. PICK p : IsRun(p, S, f, x, s, n) /\ Loop(f, x, s) = p[n]
  BY LoopIsRun
<1>3. PICK q : IsRun(q, S, g, y, t, n) /\ Loop(g, y, t) = q[n]
  BY LoopIsRun
<1>. DEFINE Bad == {i \in 0 .. n : <<i, p[i], q[i]>> \notin R}
<1>4. ASSUME Bad # {}
      PROVE  FALSE
  <2>1. Bad \in SUBSET Nat
    BY <1>1
  <2>2. PICK i \in Bad : \A m \in Bad : i <= m
    <3>. HIDE DEF Bad
    <3>. QED BY <1>4, <2>1, LeastOf
  <2>3. CASE i = 0
    BY <1>2, <1>3, <2>2, <2>3 DEF IsRun
  <2>4. CASE i # 0
    <3>1. i \in 1 .. n /\ i - 1 \in 0 .. n /\ ~(i <= i - 1)
      BY <1>1, <2>2, <2>4
    <3>2. <<i - 1, p[i - 1], q[i - 1]>> \in R
      BY <2>2, <3>1
    <3>3. p[i - 1] \in S /\ q[i - 1] \in S
      BY <1>2, <1>3, <3>1 DEF IsRun
    <3>4. <<i, f[s[i]][p[i - 1]], g[t[i]][q[i - 1]]>> \in R
      BY <3>1, <3>2, <3>3
    <3>5. p[i] = f[s[i]][p[i - 1]] /\ q[i] = g[t[i]][q[i - 1]]
      BY <1>2, <1>3, <3>1 DEF IsRun
    <3>. QED BY <2>2, <3>4, <3>5
  <2>. QED BY <2>3, <2>4
<1>5. n \in 0 .. n
  BY <1>1
<1>. QED BY <1>2, <1>3, <1>4, <1>5

LEMMA LoopType ==
  ASSUME NEW S, NEW T, NEW step, \A u \in S, b \in T : step[b][u] \in S, NEW x \in S, NEW s \in Seq(T)
  PROVE  Loop(step, x, s) \in S
<1>1. PICK r : IsRun(r, S, step, x, s, Len(s)) /\ Loop(step, x, s) = r[Len(s)]
  BY LoopIsRun
<1>2. Len(s) \in 0 .. Len(s)
  BY LenProperties
<1>. QED BY <1>1, <1>2 DEF IsRun

(* A loop over one byte more takes one step more. *)
LEMMA LoopOfAppend ==
  ASSUME NEW S, NEW T, NEW step, \A u \in S, b \in T : step[b][u] \in S,
         NEW x \in S, NEW s \in Seq(T), NEW b \in T
  PROVE  Loop(step, x, Append(s, b)) = step[b][Loop(step, x, s)]
<1>. DEFINE t == Append(s, b)
            n == Len(s)
<1>1. t \in Seq(T) /\ Len(t) = n + 1 /\ n \in Nat /\ t[n + 1] = b /\ \A i \in 1 .. n : t[i] = s[i]
  BY AppendProperties, LenProperties
<1>2. PICK p : IsRun(p, S, step, x, s, n) /\ Loop(step, x, s) = p[n]
  BY LoopIsRun
<1>3. PICK q : IsRun(q, S, step, x, t, n + 1) /\ Loop(step, x, t) = q[n + 1]
  <2>. HIDE DEF t
  <2>. QED BY <1>1, LoopIsRun
<1>. HIDE DEF t
<1>. DEFINE Bad == {i \in 0 .. n : p[i] # q[i]}
<1>4. ASSUME Bad # {}
      PROVE  FALSE
  <2>1. Bad \in SUBSET Nat
    BY <1>1
  <2>2. PICK i \in Bad : \A m \in Bad : i <= m
    <3>. HIDE DEF Bad
    <3>. QED BY <1>4, <2>1, LeastOf
  <2>3. CASE i = 0
    BY <1>2, <1>3, <2>2, <2>3 DEF IsRun
  <2>4. CASE i # 0
    <3>1. i \in 1 .. n /\ i \in 1 .. n + 1 /\ i - 1 \in 0 .. n /\ ~(i <= i - 1)
      BY <1>1, <2>2, <2>4
    <3>2. p[i - 1] = q[i - 1]
      BY <2>2, <3>1
    <3>3. p[i] = step[s[i]][p[i - 1]] /\ q[i] = step[t[i]][q[i - 1]]
      BY <1>2, <1>3, <3>1 DEF IsRun
    <3>. QED BY <1>1, <2>2, <3>1, <3>2, <3>3
  <2>. QED BY <2>3, <2>4
<1>5. p[n] = q[n]
  BY <1>1, <1>4
<1>6. q[n + 1] = step[t[n + 1]][q[n]]
  <2>1. n + 1 \in 1 .. n + 1 /\ n + 1 - 1 = n
    BY <1>1
  <2>. QED BY <1>3, <2>1 DEF IsRun
<1>. QED BY <1>1, <1>2, <1>3, <1>5, <1>6 DEF t

-----------------------------------------------------------------------------
(* The CRC.                                                                *)

Word    == {n \in Nat : n < 65536}
Weight8 == {128, 64, 32, 16, 8, 4, 2, 1}

LEMMA FlipOfSet ==
  ASSUME NEW n \in Nat, NEW w \in Nat, NEW m \in Nat, m = n - w, Bit(n, w), ~Bit(m, w)
  PROVE  Flip(n, w) = m /\ Flip(m, w) = n
BY DEF Flip

LEMMA FlipOfByte ==
  ASSUME NEW b \in 0 .. Byte - 1, NEW w \in Weight8
  PROVE  /\ Flip(b, w) \in 0 .. Byte - 1
         /\ Flip(Flip(b, w), w) = b
         /\ Bit(Flip(b, w), w) <=> ~Bit(b, w)
<1>1. b \in Nat /\ b < 256 /\ w \in Nat
  BY DEF Byte, Weight8
<1>2. \/ Bit(b, w) /\ b - w >= 0 /\ ~Bit(b - w, w)
      \/ ~Bit(b, w) /\ b + w < 256 /\ Bit(b + w, w)
  <2>1. CASE w = 128 BY <1>1, <2>1 DEF Bit
  <2>2. CASE w = 64 BY <1>1, <2>2 DEF Bit
  <2>3. CASE w = 32 BY <1>1, <2>3 DEF Bit
  <2>4. CASE w = 16 BY <1>1, <2>4 DEF Bit
  <2>5. CASE w = 8 BY <1>1, <2>5 DEF Bit
  <2>6. CASE w = 4 BY <1>1, <2>6 DEF Bit
  <2>7. CASE w = 2 BY <1>1, <2>7 DEF Bit
  <2>8. CASE w = 1 BY <1>1, <2>8 DEF Bit
  <2>. QED BY <2>1, <2>2, <2>3, <2>4, <2>5, <2>6, <2>7, <2>8 DEF Weight8
<1>3. CASE Bit(b, w) /\ b - w >= 0 /\ ~Bit(b - w, w)
  <2>1. PICK m \in Nat : m = b - w /\ m < 256
    BY <1>1, <1>3
  <2>2. Flip(b, w) = m /\ Flip(m, w) = b
    BY <1>1, <1>3, <2>1, FlipOfSet
  <2>. QED BY <1>3, <2>1, <2>2 DEF Byte
<1>4. CASE ~Bit(b, w) /\ b + w < 256 /\ Bit(b + w, w)
  <2>1. PICK m \in Nat : m = b + w /\ m < 256
    BY <1>1, <1>4
  <2>2. b = m - w
    BY <1>1, <2>1
  <2>3. Flip(m, w) = b /\ Flip(b, w) = m
    BY <1>1, <1>4, <2>1, <2>2, FlipOfSet
  <2>. QED BY <1>4, <2>1, <2>3 DEF Byte
<1>. QED BY <1>2, <1>3, <1>4

LEMMA IsWord ==
  ASSUME NEW n \in Nat, n < 65536
  PROVE  n \in Word
BY DEF Word

LEMMA FlipOfWord ==
  ASSUME NEW c \in Word, NEW w \in {4096, 32, 1}
  PROVE  /\ Flip(c, w) \in Word
         /\ Flip(Flip(c, w), w) = c
         /\ Flip(c, w) % 2 = IF w = 1 THEN 1 - (c % 2) ELSE c % 2
<1>. DEFINE parity == IF w = 1 THEN 1 - (c % 2) ELSE c % 2
<1>1. c \in Nat /\ c < 65536 /\ w \in Nat
  BY DEF Word
<1>2. \/ Bit(c, w) /\ c - w >= 0 /\ ~Bit(c - w, w) /\ (c - w) % 2 = parity
      \/ ~Bit(c, w) /\ c + w < 65536 /\ Bit(c + w, w) /\ (c + w) % 2 = parity
  <2>1. CASE w = 4096 BY <1>1, <2>1 DEF Bit
  <2>2. CASE w = 32 BY <1>1, <2>2 DEF Bit
  <2>3. CASE w = 1 BY <1>1, <2>3 DEF Bit
  <2>. QED BY <2>1, <2>2, <2>3
<1>. HIDE DEF parity
<1>3. CASE Bit(c, w) /\ c - w >= 0 /\ ~Bit(c - w, w) /\ (c - w) % 2 = parity
  <2>1. PICK m \in Nat : m = c - w /\ m < 65536
    BY <1>1, <1>3
  <2>2. Flip(c, w) = m /\ Flip(m, w) = c
    BY <1>1, <1>3, <2>1, FlipOfSet
  <2>3. m \in Word
    BY <2>1, IsWord
  <2>4. m % 2 = parity
    BY <1>3, <2>1
  <2>. QED BY <2>2, <2>3, <2>4 DEF parity
<1>4. CASE ~Bit(c, w) /\ c + w < 65536 /\ Bit(c + w, w) /\ (c + w) % 2 = parity
  <2>1. PICK m \in Nat : m = c + w /\ m < 65536
    BY <1>1, <1>4
  <2>2. c = m - w
    BY <1>1, <2>1
  <2>3. Flip(m, w) = c /\ Flip(c, w) = m
    BY <1>1, <1>4, <2>1, <2>2, FlipOfSet
  <2>4. m \in Word
    BY <2>1, IsWord
  <2>5. m % 2 = parity
    BY <1>4, <2>1
  <2>. QED BY <2>3, <2>4, <2>5 DEF parity
<1>. QED BY <1>2, <1>3, <1>4

Twice(c) == (2 * c) % (Byte * Byte)
Poly(s)  == Flip(Flip(Flip(s, 4096), 32), 1)

LEMMA PolyOfWord ==
  ASSUME NEW s \in Word
  PROVE  Poly(s) \in Word /\ Poly(s) % 2 = 1 - (s % 2)
<1>. DEFINE p == Flip(s, 4096)
            q == Flip(p, 32)
<1>1. p \in Word /\ p % 2 = s % 2
  BY FlipOfWord
<1>. HIDE DEF p
<1>2. q \in Word /\ q % 2 = p % 2
  BY <1>1, FlipOfWord
<1>. HIDE DEF q
<1>3. Flip(q, 1) \in Word /\ Flip(q, 1) % 2 = 1 - (q % 2)
  BY <1>2, FlipOfWord
<1>. QED BY <1>1, <1>2, <1>3 DEF Poly, p, q

LEMMA PolyIsInjective ==
  ASSUME NEW s \in Word, NEW t \in Word, Poly(s) = Poly(t)
  PROVE  s = t
<1>. DEFINE p(x) == Flip(x, 4096)
            q(x) == Flip(p(x), 32)
<1>1. p(s) \in Word /\ p(t) \in Word /\ Flip(p(s), 4096) = s /\ Flip(p(t), 4096) = t
  BY FlipOfWord
<1>. HIDE DEF p
<1>2. q(s) \in Word /\ q(t) \in Word /\ Flip(q(s), 32) = p(s) /\ Flip(q(t), 32) = p(t)
  BY <1>1, FlipOfWord
<1>. HIDE DEF q
<1>3. Flip(Flip(q(s), 1), 1) = q(s) /\ Flip(Flip(q(t), 1), 1) = q(t)
  BY <1>2, FlipOfWord
<1>4. Flip(q(s), 1) = Flip(q(t), 1)
  BY DEF Poly, p, q
<1>. QED BY <1>1, <1>2, <1>3, <1>4

(* The code's shift loses the highest bit, and that only. *)
LEMMA TwiceOfWord ==
  ASSUME NEW c \in Word
  PROVE  /\ Twice(c) \in Word /\ Twice(c) % 2 = 0
         /\ Bit(c, 32768) => c = Twice(c) \div 2 + 32768
         /\ ~Bit(c, 32768) => c = Twice(c) \div 2
<1>1. c \in Nat /\ c < 65536
  BY DEF Word
<1>2. Twice(c) = (2 * c) % 65536
  BY DEF Twice, Byte
<1>3. (2 * c) % 65536 \in Nat /\ (2 * c) % 65536 < 65536 /\ ((2 * c) % 65536) % 2 = 0
  BY <1>1
<1>4. Twice(c) \in Word /\ Twice(c) % 2 = 0
  <2>1. PICK n \in Nat : n = (2 * c) % 65536
    BY <1>3
  <2>2. n < 65536 /\ n % 2 = 0
    BY <1>3, <2>1
  <2>3. n \in Word
    BY <2>2, IsWord
  <2>4. Twice(c) = n
    BY <1>2, <2>1
  <2>. QED BY <2>2, <2>3, <2>4
<1>5. Bit(c, 32768) => c = ((2 * c) % 65536) \div 2 + 32768
  BY <1>1 DEF Bit
<1>6. ~Bit(c, 32768) => c = ((2 * c) % 65536) \div 2
  BY <1>1 DEF Bit
<1>. QED BY <1>2, <1>4, <1>5, <1>6

LEMMA ShiftInOfWord ==
  ASSUME NEW c \in Word, NEW bit \in BOOLEAN
  PROVE  /\ ShiftIn(c, bit) = IF Bit(c, 32768) = bit THEN Twice(c) ELSE Poly(Twice(c))
         /\ ShiftIn(c, bit) \in Word
<1>1. ShiftIn(c, bit) = IF Bit(c, 32768) = bit THEN Twice(c) ELSE Poly(Twice(c))
  BY DEF ShiftIn, Twice, Poly
<1>. QED BY <1>1, TwiceOfWord, PolyOfWord

(* One more bit makes different words of different words, if the bit is    *)
(* the same, and of the same word, if the bit is not.                      *)
LEMMA ShiftInSeparates ==
  ASSUME NEW c \in Word, NEW d \in Word, NEW p \in BOOLEAN, NEW q \in BOOLEAN,
         (c # d /\ p = q) \/ (c = d /\ p # q)
  PROVE  ShiftIn(c, p) # ShiftIn(d, q)
<1>. DEFINE s == Twice(c)
            t == Twice(d)
            top(x) == Bit(x, 32768)
<1>1. /\ s \in Word /\ s % 2 = 0 /\ (top(c) => c = s \div 2 + 32768) /\ (~top(c) => c = s \div 2)
      /\ t \in Word /\ t % 2 = 0 /\ (top(d) => d = t \div 2 + 32768) /\ (~top(d) => d = t \div 2)
  BY TwiceOfWord
<1>2. /\ Poly(s) % 2 = 1 /\ Poly(t) % 2 = 1
  <2>. HIDE DEF s, t
  <2>. QED BY <1>1, PolyOfWord
<1>3. Poly(s) = Poly(t) => s = t
  <2>. HIDE DEF s, t
  <2>. QED BY <1>1, PolyIsInjective
<1>4. /\ ShiftIn(c, p) = IF top(c) = p THEN s ELSE Poly(s)
      /\ ShiftIn(d, q) = IF top(d) = q THEN t ELSE Poly(t)
  BY ShiftInOfWord
<1>5. top(c) \in BOOLEAN /\ top(d) \in BOOLEAN /\ (c = d => s = t /\ top(c) = top(d))
  BY DEF Bit
<1>6. 1 # 0
  OBVIOUS
<1>. HIDE DEF s, t, top
<1>. QED BY <1>1, <1>2, <1>3, <1>4, <1>5, <1>6

LEMMA FlipOthers ==
  ASSUME NEW b \in 0 .. Byte - 1, NEW w \in Weight8, NEW v \in Weight8, v # w
  PROVE  Bit(Flip(b, w), v) = Bit(b, v)
<1>1. b \in Nat /\ b < 256 /\ w \in Nat /\ v \in Weight8 /\ v # w
  BY DEF Byte, Weight8
<1>2. CASE w = 128 BY <1>1, <1>2 DEF Flip, Bit, Weight8
<1>3. CASE w = 64 BY <1>1, <1>3 DEF Flip, Bit, Weight8
<1>4. CASE w = 32 BY <1>1, <1>4 DEF Flip, Bit, Weight8
<1>5. CASE w = 16 BY <1>1, <1>5 DEF Flip, Bit, Weight8
<1>6. CASE w = 8 BY <1>1, <1>6 DEF Flip, Bit, Weight8
<1>7. CASE w = 4 BY <1>1, <1>7 DEF Flip, Bit, Weight8
<1>8. CASE w = 2 BY <1>1, <1>8 DEF Flip, Bit, Weight8
<1>9. CASE w = 1 BY <1>1, <1>9 DEF Flip, Bit, Weight8
<1>. QED BY <1>2, <1>3, <1>4, <1>5, <1>6, <1>7, <1>8, <1>9 DEF Weight8

LEMMA WeightsOfByte ==
  /\ Weights \in Seq(Weight8) /\ Len(Weights) = 8
  /\ \A i, k \in 1 .. 8 : Weights[i] = Weights[k] => i = k
  /\ \A w \in Weight8 : \E k \in 1 .. 8 : Weights[k] = w
<1>1. Weights \in Seq(Weight8) /\ Len(Weights) = 8
  BY DEF Weights, Weight8
<1>2. /\ Weights[1] = 128 /\ Weights[2] = 64 /\ Weights[3] = 32 /\ Weights[4] = 16
      /\ Weights[5] = 8 /\ Weights[6] = 4 /\ Weights[7] = 2 /\ Weights[8] = 1
  BY DEF Weights
<1>3. \A i \in 1 .. 8 : i \in {1, 2, 3, 4, 5, 6, 7, 8}
  OBVIOUS
<1>4. {1, 2, 3, 4, 5, 6, 7, 8} = 1 .. 8
  OBVIOUS
<1>5. \A i, k \in 1 .. 8 : Weights[i] = Weights[k] => i = k
  BY <1>2, <1>3
<1>6. \A w \in Weight8 : \E k \in {1, 2, 3, 4, 5, 6, 7, 8} : Weights[k] = w
  BY <1>2 DEF Weight8
<1>. QED BY <1>1, <1>4, <1>5, <1>6

LEMMA BitInOfWord ==
  ASSUME NEW b \in 0 .. Byte - 1, NEW w \in Weight8, NEW c \in Word
  PROVE  BitIn(b)[w][c] = ShiftIn(c, Bit(b, w)) /\ BitIn(b)[w][c] \in Word
<1>1. w \in Nat /\ c \in Nat
  BY DEF Weight8, Word
<1>2. Bit(b, w) \in BOOLEAN
  BY DEF Bit
<1>3. BitIn(b)[w][c] = ShiftIn(c, Bit(b, w))
  BY <1>1 DEF BitIn
<1>. QED BY <1>2, <1>3, ShiftInOfWord

LEMMA ByteInOfWord ==
  ASSUME NEW b \in 0 .. Byte - 1, NEW c \in Word
  PROVE  ByteIn[b][c] = Loop(BitIn(b), c, Weights) /\ ByteIn[b][c] \in Word
<1>1. b \in Nat /\ c \in Nat
  BY DEF Byte, Word
<1>2. ByteIn[b][c] = Loop(BitIn(b), c, Weights)
  BY <1>1 DEF ByteIn
<1>3. \A u \in Word, w \in Weight8 : BitIn(b)[w][u] \in Word
  BY BitInOfWord
<1>. QED BY <1>2, <1>3, WeightsOfByte, LoopType

(* One more byte does likewise.                                            *)
LEMMA ByteInSeparatesWords ==
  ASSUME NEW b \in 0 .. Byte - 1, NEW c \in Word, NEW d \in Word, c # d
  PROVE  ByteIn[b][c] # ByteIn[b][d]
<1>. DEFINE R == {p \in Nat \X Word \X Word : p[2] # p[3]}
            f == BitIn(b)
<1>1. \A u \in Word, w \in Weight8 : f[w][u] \in Word
  BY BitInOfWord
<1>2. <<0, c, d>> \in R
  OBVIOUS
<1>3. ASSUME NEW i \in 1 .. Len(Weights), NEW u \in Word, NEW v \in Word, <<i - 1, u, v>> \in R
      PROVE  <<i, f[Weights[i]][u], f[Weights[i]][v]>> \in R
  <2>. DEFINE w == Weights[i]
  <2>1. w \in Weight8
    BY WeightsOfByte, ElementOfSeq
  <2>2. i \in Nat /\ u # v
    BY <1>3, WeightsOfByte
  <2>. HIDE DEF w
  <2>3. Bit(b, w) \in BOOLEAN
    BY DEF Bit
  <2>4. ShiftIn(u, Bit(b, w)) # ShiftIn(v, Bit(b, w))
    BY <2>2, <2>3, ShiftInSeparates
  <2>5. BitIn(b)[w][u] # BitIn(b)[w][v] /\ BitIn(b)[w][u] \in Word /\ BitIn(b)[w][v] \in Word
    BY <2>1, <2>4, BitInOfWord
  <2>. QED BY <2>2, <2>5 DEF w
<1>4. <<Len(Weights), Loop(f, c, Weights), Loop(f, d, Weights)>> \in R
  <2>. HIDE DEF R, f
  <2>1. \A i \in 1 .. Len(Weights) : \A u, v \in Word :
          <<i - 1, u, v>> \in R => <<i, f[Weights[i]][u], f[Weights[i]][v]>> \in R
    BY <1>3
  <2>2. Weights \in Seq(Weight8)
    BY WeightsOfByte
  <2>. QED BY <1>1, <1>2, <2>1, <2>2, LoopsRelate
<1>. QED BY <1>4, ByteInOfWord

LEMMA ByteInSeparatesBytes ==
  ASSUME NEW b \in 0 .. Byte - 1, NEW c \in Word, NEW w \in Weight8
  PROVE  ByteIn[Flip(b, w)][c] # ByteIn[b][c]
<1>. DEFINE e == Flip(b, w)
<1>1. PICK k \in 1 .. 8 : Weights[k] = w
  BY WeightsOfByte
<1>. DEFINE R == {p \in Nat \X Word \X Word : IF p[1] < k THEN p[2] = p[3] ELSE p[2] # p[3]}
<1>2. /\ e \in 0 .. Byte - 1 /\ (Bit(e, w) <=> ~Bit(b, w))
      /\ \A v \in Weight8 : v # w => (Bit(e, v) <=> Bit(b, v))
  BY FlipOfByte, FlipOthers
<1>. HIDE DEF e
<1>. DEFINE f == BitIn(e)
            g == BitIn(b)
<1>3. \A u \in Word, v \in Weight8 : f[v][u] \in Word /\ g[v][u] \in Word
  BY <1>2, BitInOfWord
<1>4. <<0, c, c>> \in R
  BY <1>1
<1>5. ASSUME NEW i \in 1 .. Len(Weights), NEW u \in Word, NEW v \in Word, <<i - 1, u, v>> \in R
      PROVE  <<i, f[Weights[i]][u], g[Weights[i]][v]>> \in R
  <2>. DEFINE x == Weights[i]
  <2>1. x \in Weight8 /\ i \in 1 .. 8
    BY WeightsOfByte, ElementOfSeq
  <2>2. x = w <=> i = k
    BY <1>1, <2>1, WeightsOfByte
  <2>. HIDE DEF x
  <2>3. /\ BitIn(e)[x][u] = ShiftIn(u, Bit(e, x)) /\ BitIn(e)[x][u] \in Word
        /\ BitIn(b)[x][v] = ShiftIn(v, Bit(b, x)) /\ BitIn(b)[x][v] \in Word
    BY <1>2, <2>1, BitInOfWord
  <2>4. Bit(e, x) \in BOOLEAN /\ Bit(b, x) \in BOOLEAN
    BY DEF Bit
  <2>5. CASE i < k
    <3>1. u = v /\ x # w
      BY <1>1, <1>5, <2>1, <2>2, <2>5
    <3>2. ShiftIn(u, Bit(e, x)) = ShiftIn(v, Bit(b, x))
      BY <1>2, <2>1, <2>4, <3>1
    <3>. QED BY <2>1, <2>3, <2>5, <3>2 DEF x
  <2>6. CASE i = k
    <3>1. u = v /\ x = w
      BY <1>1, <1>5, <2>1, <2>2, <2>6
    <3>2. ShiftIn(u, Bit(e, x)) # ShiftIn(v, Bit(b, x))
      BY <1>2, <2>1, <2>4, <3>1, ShiftInSeparates
    <3>. QED BY <2>1, <2>3, <2>6, <3>2 DEF x
  <2>7. CASE i > k
    <3>1. u # v /\ x # w
      BY <1>1, <1>5, <2>1, <2>2, <2>7
    <3>2. Bit(e, x) = Bit(b, x)
      BY <1>2, <2>1, <2>4, <3>1
    <3>3. ShiftIn(u, Bit(e, x)) # ShiftIn(v, Bit(b, x))
      BY <2>4, <3>1, <3>2, ShiftInSeparates
    <3>. QED BY <1>1, <2>1, <2>3, <2>7, <3>3 DEF x
  <2>. QED BY <1>1, <2>1, <2>5, <2>6, <2>7
<1>6. <<Len(Weights), Loop(f, c, Weights), Loop(g, c, Weights)>> \in R
  <2>. HIDE DEF R, f, g
  <2>1. \A i \in 1 .. Len(Weights) : \A u, v \in Word :
          <<i - 1, u, v>> \in R => <<i, f[Weights[i]][u], g[Weights[i]][v]>> \in R
    BY <1>5
  <2>2. Weights \in Seq(Weight8)
    BY WeightsOfByte
  <2>. QED BY <1>3, <1>4, <2>1, <2>2, LoopsRelate
<1>7. Loop(f, c, Weights) # Loop(g, c, Weights)
  BY <1>1, <1>6, WeightsOfByte
<1>. QED BY <1>2, <1>7, ByteInOfWord DEF e

LEMMA CrcIsLoop == \E x \in Word : \A s : Crc(s) = Loop(ByteIn, x, s)
<1>1. 65535 \in Word
  BY DEF Word
<1>2. \A s : Crc(s) = Loop(ByteIn, 65535, s)
  BY DEF Crc
<1>. QED BY <1>1, <1>2

LEMMA CrcOfBytes ==
  ASSUME NEW s \in Bytes
  PROVE  Crc(s) \in Word
<1>1. \A u \in Word, b \in 0 .. Byte - 1 : ByteIn[b][u] \in Word
  BY ByteInOfWord
<1>2. PICK x \in Word : Crc(s) = Loop(ByteIn, x, s)
  BY CrcIsLoop
<1>. DEFINE T == 0 .. Byte - 1
<1>3. s \in Seq(T)
  BY DEF Bytes
<1>. HIDE DEF T
<1>4. \A u \in Word, b \in T : ByteIn[b][u] \in Word
  BY <1>1 DEF T
<1>. QED BY <1>2, <1>3, <1>4, LoopType

(* crc16Ccitt: flip any one bit of any frame, and its CRC is another.      *)
THEOREM CrcSeesEveryFlip ==
  \A s \in Bytes : \A i \in DOMAIN s, w \in ToSet(Weights) : Crc([s EXCEPT ![i] = Flip(@, w)]) # Crc(s)
<1>. SUFFICES ASSUME NEW s \in Bytes, NEW i \in 1 .. Len(s), NEW w \in Weight8
              PROVE  Crc([s EXCEPT ![i] = Flip(@, w)]) # Crc(s)
  <2>1. Weights \in Seq(Weight8) /\ DOMAIN Weights = 1 .. Len(Weights)
    BY WeightsOfByte, LenProperties
  <2>2. \A w \in ToSet(Weights) : w \in Weight8
    BY <2>1, ElementOfSeq DEF ToSet
  <2>. QED BY <2>2, BytesHaveLength
<1>. DEFINE t == [s EXCEPT ![i] = Flip(@, w)]
            R == {p \in Nat \X Word \X Word : IF p[1] < i THEN p[2] = p[3] ELSE p[2] # p[3]}
            T == 0 .. Byte - 1
<1>1. Len(s) \in Nat /\ \A k \in 1 .. Len(s) : s[k] \in T
  BY BytesHaveLength
<1>2. /\ t \in Seq(T) /\ Len(t) = Len(s) /\ t[i] = Flip(s[i], w)
      /\ \A k \in 1 .. Len(s) : k # i => t[k] = s[k]
  <2>1. s \in Seq(T) /\ Flip(s[i], w) \in T
    BY <1>1, FlipOfByte DEF Bytes
  <2>. HIDE DEF T
  <2>. QED BY <2>1, ExceptSeq
<1>3. s \in Seq(T) /\ \A k \in 1 .. Len(s) : t[k] \in T
  BY <1>2, ElementOfSeq DEF Bytes
<1>. HIDE DEF t, T
<1>4. \A u \in Word, b \in T : ByteIn[b][u] \in Word
  BY ByteInOfWord DEF T
<1>5. PICK x \in Word : \A r : Crc(r) = Loop(ByteIn, x, r)
  BY CrcIsLoop
<1>6. <<0, x, x>> \in R
  OBVIOUS
<1>7. ASSUME NEW k \in 1 .. Len(s), NEW u \in Word, NEW v \in Word, <<k - 1, u, v>> \in R
      PROVE  <<k, ByteIn[t[k]][u], ByteIn[s[k]][v]>> \in R
  <2>1. k \in Nat /\ t[k] \in T /\ s[k] \in T
    BY <1>1, <1>3
  <2>2. ByteIn[t[k]][u] \in Word /\ ByteIn[s[k]][v] \in Word
    BY <1>4, <2>1
  <2>3. CASE k < i
    <3>1. u = v /\ t[k] = s[k]
      BY <1>2, <1>7, <2>3
    <3>. QED BY <2>1, <2>2, <2>3, <3>1
  <2>4. CASE k = i
    <3>1. u = v /\ t[k] = Flip(s[k], w)
      BY <1>2, <1>7, <2>4
    <3>2. ByteIn[t[k]][u] # ByteIn[s[k]][v]
      BY <2>1, <3>1, ByteInSeparatesBytes DEF T
    <3>. QED BY <2>1, <2>2, <2>4, <3>2
  <2>5. CASE k > i
    <3>1. u # v /\ t[k] = s[k]
      BY <1>2, <1>7, <2>5
    <3>2. ByteIn[t[k]][u] # ByteIn[s[k]][v]
      BY <2>1, <3>1, ByteInSeparatesWords DEF T
    <3>. QED BY <2>1, <2>2, <2>5, <3>2
  <2>. QED BY <2>1, <2>3, <2>4, <2>5
<1>8. <<Len(s), Loop(ByteIn, x, t), Loop(ByteIn, x, s)>> \in R
  <2>. HIDE DEF R
  <2>1. \A k \in 1 .. Len(t) : \A u, v \in Word :
          <<k - 1, u, v>> \in R => <<k, ByteIn[t[k]][u], ByteIn[s[k]][v]>> \in R
    BY <1>2, <1>7
  <2>2. <<Len(t), Loop(ByteIn, x, t), Loop(ByteIn, x, s)>> \in R
    BY <1>2, <1>3, <1>4, <1>5, <1>6, <2>1, LoopsRelate
  <2>. QED BY <1>2, <2>2
<1>9. Loop(ByteIn, x, t) # Loop(ByteIn, x, s)
  BY <1>1, <1>8
<1>. QED BY <1>5, <1>9 DEF t

-----------------------------------------------------------------------------
(* Stuffing.                                                               *)

AByte     == 0 .. Byte - 1
Unflagged == AByte \ {Flag}
Unstuffed == [escaping : BOOLEAN, data : Bytes]
Start     == [escaping |-> FALSE, data |-> <<>>]
Unescaped(d) == [escaping |-> FALSE, data |-> d]

LEMMA MaskIsWeight == Mask \in Weight8
BY DEF Mask, Weight8

LEMMA FlagsAreBytes ==
  /\ Flag \in AByte /\ Escape \in AByte /\ Flag # Escape
  /\ Flip(Flag, Mask) # Flag /\ Flip(Escape, Mask) # Flag
BY DEF Flag, Escape, AByte, Byte, Mask, Flip, Bit

LEMMA MaskedIsByte ==
  ASSUME NEW b \in AByte
  PROVE  Flip(b, Mask) \in AByte /\ Flip(Flip(b, Mask), Mask) = b
BY MaskIsWeight, FlipOfByte DEF AByte

LEMMA UnflaggedAreBytes ==
  ASSUME NEW o \in Seq(Unflagged)
  PROVE  o \in Bytes /\ o \in Seq(Nat) /\ o \in Seq(AByte)
<1>1. Unflagged \subseteq AByte
  BY DEF Unflagged
<1>2. AByte \subseteq Nat
  BY DEF AByte, Byte
<1>3. Unflagged \subseteq Nat
  BY <1>1, <1>2
<1>. QED BY <1>1, <1>3, SeqMonotonic DEF Bytes, AByte

LEMMA StuffOfByte ==
  ASSUME NEW b \in AByte
  PROVE  Stuff(b) \in Seq(Unflagged)
<1>1. CASE b \in {Flag, Escape}
  <2>1. Flip(b, Mask) \in Unflagged /\ Escape \in Unflagged
    BY <1>1, MaskedIsByte, FlagsAreBytes DEF Unflagged
  <2>2. Stuff(b) = <<Escape, Flip(b, Mask)>>
    BY <1>1 DEF Stuff
  <2>. QED BY <2>1, <2>2
<1>2. CASE b \notin {Flag, Escape}
  BY <1>2 DEF Stuff, Unflagged
<1>. QED BY <1>1, <1>2

LEMMA StuffInOfByte ==
  ASSUME NEW b \in AByte, NEW o \in Seq(Unflagged)
  PROVE  StuffIn[b][o] = o \o Stuff(b) /\ StuffIn[b][o] \in Seq(Unflagged)
<1>1. b \in Nat /\ o \in Seq(Nat)
  BY UnflaggedAreBytes DEF AByte, Byte
<1>2. StuffIn[b][o] = o \o Stuff(b)
  BY <1>1 DEF StuffIn
<1>. QED BY <1>2, StuffOfByte, ConcatProperties

LEMMA NothingIsUnflagged == <<>> \in Seq(Unflagged) /\ <<>> \in Bytes
BY DEF Bytes

LEMMA StuffedHasNoFlag ==
  ASSUME NEW u \in Bytes
  PROVE  Stuffed(u) \in Seq(Unflagged)
<1>1. \A o \in Seq(Unflagged), b \in AByte : StuffIn[b][o] \in Seq(Unflagged)
  BY StuffInOfByte
<1>2. u \in Seq(AByte)
  BY DEF Bytes, AByte
<1>3. PICK x \in Seq(Unflagged) : x = <<>>
  BY NothingIsUnflagged, Zenon
<1>4. Loop(StuffIn, x, u) \in Seq(Unflagged)
  BY <1>1, <1>2, LoopType
<1>. QED BY <1>3, <1>4, Zenon DEF Stuffed

LEMMA UnstuffInOfByte ==
  ASSUME NEW b \in AByte, NEW v \in Unstuffed
  PROVE  /\ UnstuffIn[b][v] = IF v.escaping THEN Taken(v, Flip(b, Mask))
                              ELSE IF b = Escape THEN Escaping(v) ELSE Taken(v, b)
         /\ UnstuffIn[b][v] \in Unstuffed
<1>1. b \in Nat
  BY DEF AByte, Byte
<1>2. v \in [escaping : BOOLEAN, data : Seq(Nat)]
  <2>1. AByte \subseteq Nat
    BY DEF AByte, Byte
  <2>2. v.data \in Seq(Nat)
    BY <2>1, SeqMonotonic DEF Unstuffed, Bytes, AByte
  <2>. QED BY <2>2 DEF Unstuffed
<1>3. UnstuffIn[b][v] = IF v.escaping THEN Taken(v, Flip(b, Mask))
                        ELSE IF b = Escape THEN Escaping(v) ELSE Taken(v, b)
  BY <1>1, <1>2 DEF UnstuffIn
<1>4. \A c \in AByte : Append(v.data, c) \in Bytes
  BY AppendProperties DEF Unstuffed, Bytes, AByte
<1>5. \A c \in AByte : Taken(v, c) \in Unstuffed
  BY <1>4 DEF Taken, Unstuffed
<1>6. Escaping(v) \in Unstuffed
  BY DEF Escaping, Unstuffed
<1>. QED BY <1>3, <1>5, <1>6, MaskedIsByte

LEMMA UnstuffLoop ==
  /\ \A v \in Unstuffed, b \in AByte : UnstuffIn[b][v] \in Unstuffed
  /\ Start \in Unstuffed
BY UnstuffInOfByte, NothingIsUnflagged DEF Start, Unstuffed

LEMMA StuffedByteIsUnstuffed ==
  ASSUME NEW o \in Seq(Unflagged), NEW d \in Bytes, NEW b \in AByte,
         Loop(UnstuffIn, Start, o) = Unescaped(d)
  PROVE  Loop(UnstuffIn, Start, o \o Stuff(b)) = Unescaped(Append(d, b))
<1>1. o \in Seq(AByte)
  BY UnflaggedAreBytes
<1>2. Unescaped(d) \in Unstuffed
  BY DEF Unescaped, Unstuffed
<1>3. CASE b \in {Flag, Escape}
  <2>. DEFINE x == Flip(b, Mask)
              p == Append(o, Escape)
  <2>1. x \in AByte /\ Flip(x, Mask) = b /\ Escape \in AByte
    BY MaskedIsByte, FlagsAreBytes
  <2>. HIDE DEF x
  <2>2. p \in Seq(AByte)
    BY <1>1, <2>1, AppendProperties
  <2>3. o \o Stuff(b) = Append(p, x)
    <3>1. Stuff(b) = <<Escape, x>>
      BY <1>3 DEF Stuff, x
    <3>. QED BY <1>1, <2>1, <3>1
  <2>4. Loop(UnstuffIn, Start, p) = Escaping(Unescaped(d))
    <3>1. Loop(UnstuffIn, Start, p) = UnstuffIn[Escape][Unescaped(d)]
      BY <1>1, <2>1, UnstuffLoop, LoopOfAppend
    <3>2. ~Unescaped(d).escaping
      BY DEF Unescaped
    <3>. QED BY <1>2, <2>1, <3>1, <3>2, UnstuffInOfByte
  <2>5. Loop(UnstuffIn, Start, Append(p, x)) = UnstuffIn[x][Escaping(Unescaped(d))]
    <3>. HIDE DEF p
    <3>. QED BY <2>1, <2>2, <2>4, UnstuffLoop, LoopOfAppend
  <2>6. Escaping(Unescaped(d)) \in Unstuffed /\ Escaping(Unescaped(d)).escaping
        /\ Taken(Escaping(Unescaped(d)), b) = Unescaped(Append(d, b))
    BY <1>2 DEF Escaping, Unescaped, Unstuffed, Taken
  <2>7. UnstuffIn[x][Escaping(Unescaped(d))] = Unescaped(Append(d, b))
    BY <2>1, <2>6, UnstuffInOfByte
  <2>. QED BY <2>3, <2>5, <2>7
<1>4. CASE b \notin {Flag, Escape}
  <2>1. o \o Stuff(b) = Append(o, b)
    BY <1>1, <1>4, AppendIsConcat DEF Stuff
  <2>2. Loop(UnstuffIn, Start, Append(o, b)) = UnstuffIn[b][Unescaped(d)]
    BY <1>1, UnstuffLoop, LoopOfAppend
  <2>3. ~Unescaped(d).escaping /\ Taken(Unescaped(d), b) = Unescaped(Append(d, b))
    BY DEF Unescaped, Taken
  <2>. QED BY <1>2, <1>4, <2>1, <2>2, <2>3, UnstuffInOfByte
<1>. QED BY <1>3, <1>4

(* Whatever bytes are stuffed, they are unstuffed again.                   *)
LEMMA UnstuffsWhatWasStuffed ==
  ASSUME NEW u \in Bytes
  PROVE  Unstuff(Stuffed(u)) = u
<1>. DEFINE S == Seq(Unflagged)
            R == {p \in Nat \X S \X S : Loop(UnstuffIn, Start, p[2]) = Unescaped(SubSeq(u, 1, p[1]))}
<1>1. Len(u) \in Nat /\ \A i \in 1 .. Len(u) : u[i] \in AByte
  BY BytesHaveLength DEF AByte
<1>2. PICK x \in S : x = <<>>
  BY NothingIsUnflagged, Zenon
<1>3. Loop(UnstuffIn, Start, x) = Start
  <2>1. x \in Seq(AByte)
    BY UnflaggedAreBytes
  <2>2. Len(x) = 0
    BY <1>2
  <2>3. Start \in Unstuffed /\ \A v \in Unstuffed, b \in AByte : UnstuffIn[b][v] \in Unstuffed
    BY UnstuffLoop
  <2>. HIDE DEF S, R
  <2>4. PICK r : IsRun(r, Unstuffed, UnstuffIn, Start, x, Len(x)) /\ Loop(UnstuffIn, Start, x) = r[Len(x)]
    BY <2>1, <2>3, LoopIsRun
  <2>. QED BY <2>2, <2>4 DEF IsRun
<1>4. SubSeq(u, 1, 0) = <<>>
  BY <1>1, SubSeqEmpty DEF Bytes
<1>5. <<0, x, x>> \in R
  BY <1>3, <1>4 DEF Start, Unescaped
<1>6. \A o \in S, b \in AByte : StuffIn[b][o] \in S
  BY StuffInOfByte
<1>7. ASSUME NEW i \in 1 .. Len(u), NEW o \in S, NEW v \in S, <<i - 1, o, v>> \in R
      PROVE  <<i, StuffIn[u[i]][o], StuffIn[u[i]][v]>> \in R
  <2>. DEFINE d == SubSeq(u, 1, i - 1)
  <2>1. Loop(UnstuffIn, Start, o) = Unescaped(d)
    BY <1>7
  <2>2. /\ i \in Nat /\ i \in Nat \ {0} /\ i - 1 \in Nat /\ i - 1 \in 0 .. Len(u)
        /\ i = (i - 1) + 1 /\ 1 <= i /\ i <= Len(u)
    BY <1>1
  <2>3. d \in Bytes
    BY <2>2, CutOfBytes
  <2>4. d \o <<u[i]>> = SubSeq(u, 1, i)
    BY <2>2, PartThenByte
  <2>. HIDE DEF d
  <2>5. Append(d, u[i]) = SubSeq(u, 1, i)
    BY <1>1, <2>3, <2>4, AppendIsConcat DEF Bytes, AByte
  <2>6. Loop(UnstuffIn, Start, o \o Stuff(u[i])) = Unescaped(Append(d, u[i]))
    BY <1>1, <2>1, <2>3, StuffedByteIsUnstuffed
  <2>7. StuffIn[u[i]][o] = o \o Stuff(u[i]) /\ StuffIn[u[i]][o] \in S /\ StuffIn[u[i]][v] \in S
    BY <1>1, StuffInOfByte
  <2>. QED BY <2>2, <2>5, <2>6, <2>7
<1>8. <<Len(u), Loop(StuffIn, x, u), Loop(StuffIn, x, u)>> \in R
  <2>. HIDE DEF R, S
  <2>1. \A i \in 1 .. Len(u) : \A o, v \in S :
          <<i - 1, o, v>> \in R => <<i, StuffIn[u[i]][o], StuffIn[u[i]][v]>> \in R
    BY <1>7
  <2>2. u \in Seq(AByte)
    BY DEF Bytes, AByte
  <2>. QED BY <1>2, <1>5, <1>6, <2>1, <2>2, LoopsRelate
<1>9. Loop(UnstuffIn, Start, Loop(StuffIn, x, u)) = Unescaped(SubSeq(u, 1, Len(u)))
  BY <1>8
<1>10. SubSeq(u, 1, Len(u)) = u
  BY WholeOfBytes
<1>11. Stuffed(u) = Loop(StuffIn, x, u)
  BY <1>2, Zenon DEF Stuffed
<1>12. Unstuff(Stuffed(u)) = Loop(UnstuffIn, Start, Stuffed(u)).data
  BY DEF Unstuff, Start
<1>. QED BY <1>9, <1>10, <1>11, <1>12 DEF Unescaped

LEMMA CrcHasAField ==
  ASSUME NEW s \in Bytes
  PROVE  /\ Crc(s) \in 0 .. Byte * Byte - 1
         /\ s \o Field(Crc(s)) \in Bytes
<1>. DEFINE c == Crc(s)
<1>1. c \in Nat /\ c < 65536
  BY CrcOfBytes DEF Word
<1>2. c < Byte * Byte
  <2>1. Byte * Byte = 65536
    BY DEF Byte
  <2>. HIDE DEF c
  <2>. QED BY <1>1, <2>1
<1>. HIDE DEF c
<1>3. \A k \in Nat : c < k => c \in 0 .. k - 1
  BY <1>1
<1>4. c \in 0 .. Byte * Byte - 1
  BY <1>2, <1>3, BytePairs
<1>5. s \o Field(c) \in Bytes
  BY <1>4, FieldIsTwoBytes, ConcatOfBytes
<1>. QED BY <1>4, <1>5 DEF c

(* A body that was encoded decodes as what it was made of.                 *)
LEMMA DecodesWhatWasEncoded ==
  ASSUME NEW s \in Bytes
  PROVE  HdlcDecode(Stuffed(s \o Field(Crc(s)))) = [ok |-> TRUE, data |-> s]
<1>. DEFINE c == Crc(s)
            u == s \o Field(c)
            n == Len(u) - 2
<1>1. c \in 0 .. Byte * Byte - 1
  BY CrcHasAField
<1>2. Field(c) \in Bytes /\ Len(Field(c)) = 2
  BY <1>1, FieldIsTwoBytes
<1>3. u \in Bytes /\ Len(u) = Len(s) + 2 /\ LiesAt(s, u, 1) /\ LiesAt(Field(c), u, Len(s) + 1)
  <2>. HIDE DEF c
  <2>. QED BY <1>2, ConcatOfBytes
<1>4. Len(s) \in Nat
  BY BytesHaveLength
<1>5. n = Len(s)
  BY <1>3, <1>4
<1>6. SubSeq(u, 1, Len(s)) = s
  <2>1. 1 \in Nat \ {0} /\ Len(s) = 1 + Len(s) - 1 /\ Len(s) <= Len(u)
    BY <1>3, <1>4
  <2>. HIDE DEF u
  <2>. QED BY <1>3, <2>1, LiesIsPart
<1>7. FieldAt(u, Len(s) + 1) = c
  <2>1. Len(s) + 1 \in Nat
    BY <1>4
  <2>. HIDE DEF u, c
  <2>. QED BY <1>1, <1>3, <2>1, FieldReads
<1>8. Unstuff(Stuffed(u)) = u
  <2>. HIDE DEF u
  <2>. QED BY <1>3, UnstuffsWhatWasStuffed
<1>9. ~(n < 0 \/ FieldAt(u, n + 1) # Crc(SubSeq(u, 1, n)))
  <2>. HIDE DEF u, n, c
  <2>1. ~(n < 0)
    BY <1>4, <1>5
  <2>2. FieldAt(u, n + 1) = c
    BY <1>5, <1>7, Zenon
  <2>3. Crc(SubSeq(u, 1, n)) = c
    BY <1>5, <1>6, Zenon DEF c
  <2>. QED BY <2>1, <2>2, <2>3
<1>10. HdlcDecode(Stuffed(u)) =
         IF n < 0 \/ FieldAt(u, n + 1) # Crc(SubSeq(u, 1, n)) THEN NotWhole
         ELSE [ok |-> TRUE, data |-> SubSeq(u, 1, n)]
  <2>. HIDE DEF u
  <2>. QED BY <1>8 DEF HdlcDecode
<1>. HIDE DEF u, n
<1>11. HdlcDecode(Stuffed(u)) = [ok |-> TRUE, data |-> s]
  BY <1>5, <1>6, <1>9, <1>10
<1>. QED BY <1>11 DEF u

-----------------------------------------------------------------------------
(* Frames between flags.                                                   *)

LEMMA Framed ==
  ASSUME NEW x \in Seq(Unflagged)
  PROVE  LET t == <<Flag>> \o x \o <<Flag>>
             n == Len(x) + 2
         IN  /\ t \in Bytes /\ Len(t) = n /\ Len(x) \in Nat
             /\ t[1] = Flag /\ t[n] = Flag
             /\ \A i \in 1 .. Len(x) : t[i + 1] = x[i] /\ x[i] # Flag
<1>. DEFINE f == <<Flag>>
            y == f \o x
            t == y \o f
            n == Len(x) + 2
<1>1. f \in Bytes /\ Len(f) = 1 /\ f[1] = Flag
  BY FlagsAreBytes DEF Bytes, AByte
<1>. HIDE DEF f
<1>2. x \in Bytes /\ Len(x) \in Nat
  BY UnflaggedAreBytes, LenProperties
<1>3. y \in Bytes /\ Len(y) = 1 + Len(x) /\ LiesAt(f, y, 1) /\ LiesAt(x, y, 2)
  <2>1. y \in Bytes /\ Len(y) = Len(f) + Len(x) /\ LiesAt(f, y, 1) /\ LiesAt(x, y, Len(f) + 1)
    BY <1>1, <1>2, ConcatOfBytes
  <2>2. Len(f) + 1 = 2
    BY <1>1
  <2>. HIDE DEF y
  <2>. QED BY <1>1, <2>1, <2>2
<1>. HIDE DEF y
<1>4. t \in Bytes /\ Len(t) = 1 + Len(x) + 1 /\ LiesAt(y, t, 1) /\ LiesAt(f, t, 1 + Len(x) + 1)
  BY <1>1, <1>3, ConcatOfBytes
<1>. HIDE DEF t
<1>5. Len(t) = n /\ t[n] = Flag
  BY <1>1, <1>2, <1>4 DEF LiesAt
<1>6. y[1] = Flag /\ \A i \in 1 .. Len(x) : y[i + 1] = x[i]
  BY <1>1, <1>2, <1>3 DEF LiesAt
<1>7. \A i \in 1 .. 1 + Len(x) : t[i] = y[i]
  BY <1>2, <1>3, <1>4 DEF LiesAt
<1>8. t[1] = Flag /\ \A i \in 1 .. Len(x) : t[i + 1] = x[i]
  BY <1>2, <1>6, <1>7
<1>9. \A i \in 1 .. Len(x) : x[i] # Flag
  BY <1>2, ElementOfSeq DEF Unflagged
<1>. QED BY <1>2, <1>4, <1>5, <1>8, <1>9 DEF t, y, f

(* What is written between two flags is the only body of the line.         *)
LEMMA BodyOfFramed ==
  ASSUME NEW x \in Seq(Unflagged)
  PROVE  Bodies(<<Flag>> \o x \o <<Flag>>) = {x}
<1>. DEFINE t == <<Flag>> \o x \o <<Flag>>
            n == Len(x) + 2
            Q == {q \in Flags(t) \X Flags(t) : Opens(t, q[1]) /\ Closes(t, q[2], q[1])}
<1>1. /\ t \in Bytes /\ Len(t) = n /\ Len(x) \in Nat
      /\ t[1] = Flag /\ t[n] = Flag
      /\ \A i \in 1 .. Len(x) : t[i + 1] = x[i] /\ x[i] # Flag
  BY Framed
<1>. HIDE DEF t
<1>2. DOMAIN t = 1 .. n
  BY <1>1, BytesHaveLength
<1>3. Flags(t) = {1, n}
  <2>1. ASSUME NEW i \in 1 .. n, i # 1, i # n
        PROVE  t[i] # Flag
    <3>1. i - 1 \in 1 .. Len(x) /\ (i - 1) + 1 = i
      BY <1>1, <2>1
    <3>. QED BY <1>1, <3>1
  <2>2. 1 \in 1 .. n /\ n \in 1 .. n
    BY <1>1
  <2>. HIDE DEF n
  <2>. QED BY <1>1, <1>2, <2>1, <2>2 DEF Flags
<1>4. Opens(t, 1) /\ ~Opens(t, n)
  <2>1. {j \in Flags(t) : j < 1} = {} /\ {j \in Flags(t) : j < n} = {1}
    BY <1>1, <1>3
  <2>2. Cardinality({}) = 0 /\ Cardinality({1}) = 1
    BY FS_EmptySet, FS_Singleton
  <2>3. 0 % 2 = 0 /\ 1 % 2 # 0
    OBVIOUS
  <2>. HIDE DEF n
  <2>. QED BY <2>1, <2>2, <2>3, Zenon DEF Opens
<1>5. Closes(t, n, 1) /\ ~Closes(t, 1, 1)
  BY <1>1, <1>3 DEF Closes
<1>6. Q = {<<1, n>>}
  <2>. HIDE DEF n
  <2>. QED BY <1>3, <1>4, <1>5
<1>7. Bodies(t) = {SubSeq(t, 2, n - 1)}
  <2>1. Bodies(t) = {SubSeq(t, p[1] + 1, p[2] - 1) : p \in Q}
    BY DEF Bodies
  <2>2. 1 + 1 = 2
    OBVIOUS
  <2>. HIDE DEF n, Q
  <2>. QED BY <1>6, <2>1, <2>2
<1>8. SubSeq(t, 2, n - 1) = x
  <2>1. LiesAt(x, t, 2)
    <3>1. \A j \in 1 .. Len(x) : 2 + j - 1 = j + 1
      BY <1>1
    <3>. QED BY <1>1, <3>1 DEF LiesAt
  <2>2. n - 1 = 2 + Len(x) - 1 /\ n - 1 <= Len(t) /\ 2 \in Nat \ {0} /\ x \in Bytes
    BY <1>1, UnflaggedAreBytes
  <2>. HIDE DEF n
  <2>. QED BY <1>1, <2>1, <2>2, LiesIsPart
<1>. QED BY <1>7, <1>8 DEF t

(* HdlcEncode of one host and rxLoop of the other: whatever bytes a frame  *)
(* has, flags and escapes among them, it is the one frame that is decoded  *)
(* of the line it was written to.                                          *)
THEOREM EveryFrameArrives == \A s \in Bytes : Frames(HdlcEncode(s)) = {s}
<1>. SUFFICES ASSUME NEW s \in Bytes
              PROVE  Frames(HdlcEncode(s)) = {s}
  OBVIOUS
<1>. DEFINE x == Stuffed(s \o Field(Crc(s)))
<1>1. x \in Seq(Unflagged)
  BY CrcHasAField, StuffedHasNoFlag
<1>2. HdlcDecode(x) = [ok |-> TRUE, data |-> s]
  BY DecodesWhatWasEncoded
<1>3. HdlcEncode(s) = <<Flag>> \o x \o <<Flag>>
  BY DEF HdlcEncode
<1>. HIDE DEF x
<1>4. Bodies(HdlcEncode(s)) = {x}
  BY <1>1, <1>3, BodyOfFramed
<1>5. HdlcDecode(x).ok /\ HdlcDecode(x).data = s
  BY <1>2
<1>. QED BY <1>4, <1>5 DEF Frames

LEMMA EncodedLine ==
  ASSUME NEW s \in Bytes
  PROVE  \E x \in Seq(Unflagged) :
           /\ HdlcEncode(s) = <<Flag>> \o x \o <<Flag>>
           /\ x = Stuffed(s \o Field(Crc(s)))
BY CrcHasAField, StuffedHasNoFlag DEF HdlcEncode

LEMMA OneFlagIsNoFrame ==
  ASSUME NEW line, \E i : Flags(line) \subseteq {i}, Flags(line) \subseteq Nat
  PROVE  Frames(line) = {}
<1>1. PICK k : Flags(line) \subseteq {k}
  OBVIOUS
<1>2. \A i, j \in Flags(line) : ~Closes(line, j, i)
  BY <1>1 DEF Closes
<1>. DEFINE Q == {q \in Flags(line) \X Flags(line) : Opens(line, q[1]) /\ Closes(line, q[2], q[1])}
<1>3. Q = {}
  BY <1>2
<1>4. Bodies(line) = {SubSeq(line, p[1] + 1, p[2] - 1) : p \in Q}
  BY DEF Bodies
<1>. HIDE DEF Q
<1>5. Bodies(line) = {}
  BY <1>3, <1>4
<1>. QED BY <1>5 DEF Frames

(* Of a line of which not all was written nothing is decoded: the second   *)
(* flag is missing.                                                        *)
THEOREM CutLinesAreDropped ==
  \A s \in Bytes : \A n \in Int : n < Len(HdlcEncode(s)) => Frames(SubSeq(HdlcEncode(s), 1, n)) = {}
<1>. SUFFICES ASSUME NEW s \in Bytes, NEW n \in Int, n < Len(HdlcEncode(s))
              PROVE  Frames(SubSeq(HdlcEncode(s), 1, n)) = {}
  OBVIOUS
<1>. DEFINE t == HdlcEncode(s)
            c == SubSeq(t, 1, n)
<1>1. PICK x \in Seq(Unflagged) : t = <<Flag>> \o x \o <<Flag>>
  BY EncodedLine
<1>2. /\ t \in Bytes /\ Len(t) = Len(x) + 2 /\ Len(x) \in Nat
      /\ \A i \in 1 .. Len(x) : t[i + 1] = x[i] /\ x[i] # Flag
  BY <1>1, Framed
<1>. HIDE DEF t
<1>3. DOMAIN c \subseteq 1 .. Len(x) + 1 /\ \A i \in DOMAIN c : c[i] = t[i]
  <2>1. CASE n \in Nat
    <3>1. n \in 0 .. Len(t) /\ n <= Len(x) + 1
      BY <1>2, <2>1 DEF t
    <3>2. c \in Bytes /\ Len(c) = n /\ \A i \in 1 .. n : c[i] = t[i]
      BY <1>2, <3>1, CutOfBytes
    <3>. HIDE DEF c
    <3>3. DOMAIN c = 1 .. n
      BY <3>2, BytesHaveLength
    <3>. QED BY <1>2, <2>1, <3>1, <3>2, <3>3
  <2>2. CASE n \notin Nat
    <3>1. c = <<>>
      BY <1>2, <2>2, SubSeqEmpty DEF Bytes
    <3>2. c \in Bytes
      BY <3>1, NothingIsUnflagged
    <3>. HIDE DEF c
    <3>3. Len(c) = 0
      BY <3>1
    <3>4. DOMAIN c = 1 .. 0
      BY <3>2, <3>3, BytesHaveLength
    <3>. QED BY <3>4
  <2>. QED BY <2>1, <2>2
<1>. HIDE DEF c
<1>4. Flags(c) \subseteq {1}
  <2>1. ASSUME NEW i \in DOMAIN c, i # 1
        PROVE  c[i] # Flag
    <3>1. i - 1 \in 1 .. Len(x) /\ (i - 1) + 1 = i /\ c[i] = t[i]
      BY <1>2, <1>3, <2>1
    <3>. QED BY <1>2, <3>1
  <2>. QED BY <2>1 DEF Flags
<1>5. Flags(c) \subseteq Nat
  BY <1>4
<1>. QED BY <1>4, <1>5, OneFlagIsNoFrame DEF c, t

-----------------------------------------------------------------------------
(* Flipped bits.                                                           *)

(* One bit of one byte of t is not as it is in s. *)
OneFlip(s, t) ==
  /\ Len(t) = Len(s)
  /\ \E k \in 1 .. Len(s), w \in Weight8 :
       t[k] = Flip(s[k], w) /\ \A j \in 1 .. Len(s) : j # k => t[j] = s[j]

LEMMA FlipsCommute ==
  ASSUME NEW b \in AByte, NEW w \in Weight8
  PROVE  Flip(Flip(b, w), Mask) = Flip(Flip(b, Mask), w)
<1>1. b \in Nat /\ b < 256
  BY DEF AByte, Byte
<1>2. CASE w = 128 BY <1>1, <1>2 DEF Flip, Bit, Mask
<1>3. CASE w = 64 BY <1>1, <1>3 DEF Flip, Bit, Mask
<1>4. CASE w = 32 BY <1>1, <1>4 DEF Flip, Bit, Mask
<1>5. CASE w = 16 BY <1>1, <1>5 DEF Flip, Bit, Mask
<1>6. CASE w = 8 BY <1>1, <1>6 DEF Flip, Bit, Mask
<1>7. CASE w = 4 BY <1>1, <1>7 DEF Flip, Bit, Mask
<1>8. CASE w = 2 BY <1>1, <1>8 DEF Flip, Bit, Mask
<1>9. CASE w = 1 BY <1>1, <1>9 DEF Flip, Bit, Mask
<1>. QED BY <1>2, <1>3, <1>4, <1>5, <1>6, <1>7, <1>8, <1>9 DEF Weight8

LEMMA FlipChanges ==
  ASSUME NEW b \in AByte, NEW w \in Weight8
  PROVE  Flip(b, w) \in AByte /\ Flip(b, w) # b
<1>1. b \in Nat /\ w \in Nat /\ w > 0
  BY DEF AByte, Byte, Weight8
<1>2. Flip(b, w) # b
  BY <1>1 DEF Flip
<1>. QED BY <1>2, FlipOfByte DEF AByte

LEMMA AppendKeepsFlip ==
  ASSUME NEW s \in Bytes, NEW t \in Bytes, OneFlip(s, t), NEW b \in AByte
  PROVE  OneFlip(Append(s, b), Append(t, b))
<1>. DEFINE p == Append(s, b)
            q == Append(t, b)
            n == Len(s)
<1>1. PICK k \in 1 .. n, w \in Weight8 :
        /\ t[k] = Flip(s[k], w) /\ \A j \in 1 .. n : j # k => t[j] = s[j]
        /\ Len(t) = n
  BY DEF OneFlip
<1>2. s \in Seq(AByte) /\ t \in Seq(AByte) /\ n \in Nat
  BY BytesHaveLength DEF Bytes, AByte
<1>3. /\ Len(p) = n + 1 /\ p[n + 1] = b /\ \A j \in 1 .. n : p[j] = s[j]
      /\ Len(q) = n + 1 /\ q[n + 1] = b /\ \A j \in 1 .. n : q[j] = t[j]
  BY <1>1, <1>2, AppendProperties
<1>. HIDE DEF p, q
<1>4. k \in 1 .. n + 1 /\ q[k] = Flip(p[k], w)
  BY <1>1, <1>2, <1>3
<1>5. \A j \in 1 .. n + 1 : j # k => q[j] = p[j]
  BY <1>1, <1>2, <1>3
<1>6. OneFlip(p, q)
  BY <1>3, <1>4, <1>5 DEF OneFlip
<1>. QED BY <1>6 DEF p, q

LEMMA AppendMakesFlip ==
  ASSUME NEW s \in Bytes, NEW b \in AByte, NEW w \in Weight8
  PROVE  OneFlip(Append(s, b), Append(s, Flip(b, w)))
<1>. DEFINE c == Flip(b, w)
            p == Append(s, b)
            q == Append(s, c)
            n == Len(s)
<1>1. c \in AByte
  BY FlipChanges
<1>. HIDE DEF c
<1>2. /\ n \in Nat
      /\ Len(p) = n + 1 /\ p[n + 1] = b /\ \A j \in 1 .. n : p[j] = s[j]
      /\ Len(q) = n + 1 /\ q[n + 1] = c /\ \A j \in 1 .. n : q[j] = s[j]
  BY <1>1, AppendProperties, BytesHaveLength DEF Bytes, AByte
<1>. HIDE DEF p, q
<1>3. n + 1 \in 1 .. n + 1 /\ q[n + 1] = Flip(p[n + 1], w)
  BY <1>2 DEF c
<1>4. \A j \in 1 .. n + 1 : j # n + 1 => q[j] = p[j]
  BY <1>2
<1>5. OneFlip(p, q)
  BY <1>2, <1>3, <1>4 DEF OneFlip
<1>. QED BY <1>5 DEF p, q, c

LEMMA UnstuffsRelate ==
  ASSUME NEW x \in Bytes, NEW y \in Bytes, Len(y) = Len(x), NEW R, <<0, Start, Start>> \in R,
         \A i \in 1 .. Len(x) : \A u, v \in Unstuffed :
           <<i - 1, u, v>> \in R => <<i, UnstuffIn[x[i]][u], UnstuffIn[y[i]][v]>> \in R
  PROVE  <<Len(x), Loop(UnstuffIn, Start, x), Loop(UnstuffIn, Start, y)>> \in R
<1>1. x \in Seq(AByte) /\ y \in Seq(AByte)
  BY DEF Bytes, AByte
<1>2. \A u \in Unstuffed, b \in AByte : UnstuffIn[b][u] \in Unstuffed
  BY UnstuffLoop
<1>3. Start \in Unstuffed
  BY UnstuffLoop
<1>. QED BY <1>1, <1>2, <1>3, LoopsRelate

(* A flip that neither makes nor unmakes an escape goes through.           *)
LEMMA UnstuffKeepsFlip ==
  ASSUME NEW x \in Bytes, NEW y \in Bytes, NEW k \in 1 .. Len(x), NEW w \in Weight8, Len(y) = Len(x),
         y[k] = Flip(x[k], w), \A j \in 1 .. Len(x) : j # k => y[j] = x[j],
         x[k] # Escape, y[k] # Escape
  PROVE  Unstuff(x) \in Bytes /\ Unstuff(y) \in Bytes /\ OneFlip(Unstuff(x), Unstuff(y))
<1>. DEFINE R == {p \in Nat \X Unstuffed \X Unstuffed :
                    /\ p[2].escaping = p[3].escaping
                    /\ IF p[1] < k THEN p[2].data = p[3].data ELSE OneFlip(p[2].data, p[3].data)}
<1>1. Len(x) \in Nat /\ \A j \in 1 .. Len(x) : x[j] \in AByte /\ y[j] \in AByte
  BY BytesHaveLength DEF AByte
<1>2. <<0, Start, Start>> \in R
  BY <1>1, UnstuffLoop
<1>3. ASSUME NEW i \in 1 .. Len(x), NEW u \in Unstuffed, NEW v \in Unstuffed, <<i - 1, u, v>> \in R
      PROVE  <<i, UnstuffIn[x[i]][u], UnstuffIn[y[i]][v]>> \in R
  <2>. DEFINE b == x[i]
              c == y[i]
              m == UnstuffIn[b][u]
              n == UnstuffIn[c][v]
  <2>1. b \in AByte /\ c \in AByte /\ Flip(b, Mask) \in AByte /\ Flip(c, Mask) \in AByte
    BY <1>1, MaskedIsByte
  <2>2. i \in Nat /\ u.escaping \in BOOLEAN /\ u.escaping = v.escaping /\ u.data \in Bytes /\ v.data \in Bytes
    BY <1>1, <1>3 DEF Unstuffed
  <2>. HIDE DEF b, c
  <2>3. /\ m = IF u.escaping THEN Taken(u, Flip(b, Mask)) ELSE IF b = Escape THEN Escaping(u) ELSE Taken(u, b)
        /\ n = IF v.escaping THEN Taken(v, Flip(c, Mask)) ELSE IF c = Escape THEN Escaping(v) ELSE Taken(v, c)
        /\ m \in Unstuffed /\ n \in Unstuffed
    BY <2>1, UnstuffInOfByte
  <2>4. \A e \in AByte : /\ Taken(u, e).escaping = FALSE /\ Taken(u, e).data = Append(u.data, e)
                         /\ Taken(v, e).escaping = FALSE /\ Taken(v, e).data = Append(v.data, e)
    BY DEF Taken
  <2>5. /\ Escaping(u).escaping = TRUE /\ Escaping(u).data = u.data
        /\ Escaping(v).escaping = TRUE /\ Escaping(v).data = v.data
    BY DEF Escaping, Unstuffed
  <2>. HIDE DEF m, n
  <2>6. CASE i # k
    <3>1. b = c /\ (i < k <=> i - 1 < k)
      BY <1>1, <2>2, <2>6 DEF b, c
    <3>2. m.escaping = n.escaping
      BY <2>1, <2>2, <2>3, <2>4, <2>5, <3>1
    <3>3. u.data = v.data => m.data = n.data
      BY <2>1, <2>2, <2>3, <2>4, <2>5, <3>1
    <3>4. OneFlip(u.data, v.data) => OneFlip(m.data, n.data)
      <4>1. \A e \in AByte : OneFlip(u.data, v.data) => OneFlip(Append(u.data, e), Append(v.data, e))
        BY <2>2, AppendKeepsFlip
      <4>. QED BY <2>1, <2>2, <2>3, <2>4, <2>5, <3>1, <4>1
    <3>5. IF i < k THEN u.data = v.data ELSE OneFlip(u.data, v.data)
      BY <1>3, <3>1
    <3>6. IF i < k THEN m.data = n.data ELSE OneFlip(m.data, n.data)
      BY <3>3, <3>4, <3>5
    <3>. QED BY <2>2, <2>3, <3>2, <3>6 DEF b, c, m, n
  <2>7. CASE i = k
    <3>1. b # Escape /\ c # Escape /\ c = Flip(b, w)
      BY <2>7 DEF b, c
    <3>2. u.data = v.data
      BY <1>3, <2>2, <2>7
    <3>3. Flip(c, Mask) = Flip(Flip(b, Mask), w)
      BY <2>1, <3>1, FlipsCommute
    <3>4. \A e \in AByte : OneFlip(Append(u.data, e), Append(u.data, Flip(e, w)))
      BY <2>2, AppendMakesFlip
    <3>5. m.escaping = n.escaping
      BY <2>1, <2>2, <2>3, <2>4, <3>1
    <3>6. OneFlip(m.data, n.data)
      <4>1. CASE u.escaping
        BY <2>1, <2>2, <2>3, <2>4, <3>2, <3>3, <3>4, <4>1
      <4>2. CASE ~u.escaping
        BY <2>1, <2>2, <2>3, <2>4, <3>1, <3>2, <3>4, <4>2
      <4>. QED BY <4>1, <4>2
    <3>7. ~(i < k)
      BY <2>2, <2>7
    <3>. QED BY <2>2, <2>3, <3>5, <3>6, <3>7 DEF b, c, m, n
  <2>. QED BY <2>6, <2>7
<1>4. <<Len(x), Loop(UnstuffIn, Start, x), Loop(UnstuffIn, Start, y)>> \in R
  <2>. HIDE DEF R
  <2>1. \A i \in 1 .. Len(x) : \A u, v \in Unstuffed :
          <<i - 1, u, v>> \in R => <<i, UnstuffIn[x[i]][u], UnstuffIn[y[i]][v]>> \in R
    BY <1>3
  <2>. QED BY <1>2, <2>1, UnstuffsRelate
<1>5. Unstuff(x) = Loop(UnstuffIn, Start, x).data /\ Unstuff(y) = Loop(UnstuffIn, Start, y).data
  BY DEF Unstuff, Start
<1>6. ~(Len(x) < k)
  BY <1>1
<1>. QED BY <1>4, <1>5, <1>6 DEF Unstuffed

LEMMA WeightsAreEight == ToSet(Weights) = Weight8
<1>1. Weights \in Seq(Weight8) /\ DOMAIN Weights = 1 .. Len(Weights) /\ Len(Weights) = 8
  BY WeightsOfByte, LenProperties
<1>2. \A w \in ToSet(Weights) : w \in Weight8
  BY <1>1, ElementOfSeq DEF ToSet
<1>3. \A w \in Weight8 : w \in ToSet(Weights)
  BY <1>1, WeightsOfByte DEF ToSet
<1>. QED BY <1>2, <1>3

LEMMA OneByteOfField ==
  ASSUME NEW s, NEW t, NEW i \in Nat,
         s[i] \in AByte, s[i + 1] \in AByte, t[i] \in AByte, t[i + 1] \in AByte,
         \/ s[i] # t[i] /\ s[i + 1] = t[i + 1]
         \/ s[i] = t[i] /\ s[i + 1] # t[i + 1]
  PROVE  FieldAt(s, i) # FieldAt(t, i)
<1>1. \A a, b, c, d \in Nat : (a # c /\ b = d) \/ (a = c /\ b # d) => a + 256 * b # c + 256 * d
  OBVIOUS
<1>2. AByte \subseteq Nat
  BY DEF AByte, Byte
<1>3. s[i] \in Nat /\ s[i + 1] \in Nat /\ t[i] \in Nat /\ t[i + 1] \in Nat
  BY <1>2
<1>4. FieldAt(s, i) = s[i] + 256 * s[i + 1] /\ FieldAt(t, i) = t[i] + 256 * t[i + 1]
  BY DEF FieldAt, Byte
<1>. QED BY <1>1, <1>3, <1>4

LEMMA FlippedDataIsDropped ==
  ASSUME NEW s \in Bytes, NEW v \in Bytes, OneFlip(s \o Field(Crc(s)), v)
  PROVE  Len(v) = Len(s) + 2 /\ FieldAt(v, Len(s) + 1) # Crc(SubSeq(v, 1, Len(s)))
<1>. DEFINE c == Crc(s)
            u == s \o Field(c)
            n == Len(s)
            r == SubSeq(v, 1, n)
<1>1. c \in 0 .. Byte * Byte - 1
  BY CrcHasAField
<1>. HIDE DEF c
<1>2. Field(c) \in Bytes /\ Len(Field(c)) = 2
  BY <1>1, FieldIsTwoBytes
<1>3. u \in Bytes /\ Len(u) = n + 2 /\ LiesAt(s, u, 1) /\ LiesAt(Field(c), u, n + 1)
  <2>1. u \in Bytes /\ Len(u) = Len(s) + Len(Field(c)) /\ LiesAt(s, u, 1) /\ LiesAt(Field(c), u, Len(s) + 1)
    BY <1>2, ConcatOfBytes
  <2>. HIDE DEF u
  <2>. QED BY <1>2, <2>1
<1>4. OneFlip(u, v)
  BY DEF c
<1>. HIDE DEF u
<1>5. n \in Nat /\ Len(v) = n + 2 /\ Len(u) = n + 2
  BY <1>3, <1>4, BytesHaveLength DEF OneFlip
<1>6. PICK k \in 1 .. n + 2, w \in Weight8 :
        v[k] = Flip(u[k], w) /\ \A j \in 1 .. n + 2 : j # k => v[j] = u[j]
  BY <1>4, <1>5 DEF OneFlip
<1>7. \A j \in 1 .. n + 2 : u[j] \in AByte /\ v[j] \in AByte
  BY <1>3, <1>5, BytesHaveLength DEF AByte
<1>8. v[k] # u[k]
  BY <1>6, <1>7, FlipChanges
<1>9. \A j \in 1 .. n : u[j] = s[j] /\ s[j] \in AByte
  BY <1>3, <1>5, BytesHaveLength DEF LiesAt, AByte
<1>10. r \in Bytes /\ Len(r) = n /\ \A j \in 1 .. n : r[j] = v[j]
  <2>1. n \in 0 .. Len(v)
    BY <1>5
  <2>. QED BY <2>1, CutOfBytes
<1>. HIDE DEF r, n
<1>11. FieldAt(u, n + 1) = c
  <2>1. n + 1 \in Nat
    BY <1>5
  <2>. QED BY <1>1, <1>3, <2>1, FieldReads
<1>12. /\ n + 1 \in Nat /\ n + 1 + 1 = n + 2 /\ n + 1 \in 1 .. n + 2 /\ n + 2 \in 1 .. n + 2 /\ n + 1 # n + 2
       /\ n + 1 \notin 1 .. n /\ n + 2 \notin 1 .. n
       /\ \A j \in 1 .. n : j \in 1 .. n + 2
  BY <1>5
<1>13. CASE k \in 1 .. n
  <2>. DEFINE e == [s EXCEPT ![k] = Flip(@, w)]
  <2>1. k \in DOMAIN s /\ w \in ToSet(Weights)
    BY <1>13, BytesHaveLength, WeightsAreEight DEF n
  <2>2. Crc(e) # c
    BY <2>1, CrcSeesEveryFlip DEF c
  <2>3. e \in Seq(AByte) /\ Len(e) = n /\ e[k] = Flip(s[k], w) /\ \A j \in 1 .. n : j # k => e[j] = s[j]
    <3>1. s \in Seq(AByte) /\ Flip(s[k], w) \in AByte
      BY <1>9, <1>13, FlipChanges DEF Bytes, AByte
    <3>. QED BY <1>13, <3>1, ExceptSeq DEF n
  <2>. HIDE DEF e
  <2>4. \A j \in 1 .. n : r[j] = e[j]
    BY <1>6, <1>9, <1>10, <1>12, <1>13, <2>3
  <2>5. r \in Seq(AByte)
    BY <1>10 DEF Bytes, AByte
  <2>6. r = e
    BY <1>10, <2>3, <2>4, <2>5, SeqEqual
  <2>7. FieldAt(v, n + 1) = c
    <3>1. v[n + 1] = u[n + 1] /\ v[n + 2] = u[n + 2]
      BY <1>6, <1>12, <1>13
    <3>. QED BY <1>11, <1>12, <3>1 DEF FieldAt
  <2>. QED BY <1>5, <2>2, <2>6, <2>7 DEF r, n
<1>14. CASE k \notin 1 .. n
  <2>1. \A j \in 1 .. n : r[j] = s[j]
    BY <1>6, <1>9, <1>10, <1>12, <1>14
  <2>2. r = s
    <3>1. r \in Seq(AByte) /\ s \in Seq(AByte)
      BY <1>10 DEF Bytes, AByte
    <3>. QED BY <1>10, <2>1, <3>1, SeqEqual DEF n
  <2>3. k = n + 1 \/ k = n + 2
    BY <1>5, <1>6, <1>14
  <2>4. \/ v[n + 1] # u[n + 1] /\ v[n + 2] = u[n + 2]
        \/ v[n + 1] = u[n + 1] /\ v[n + 2] # u[n + 2]
    BY <1>6, <1>8, <1>12, <2>3
  <2>5. FieldAt(v, n + 1) # FieldAt(u, n + 1)
    BY <1>7, <1>12, <2>4, OneByteOfField
  <2>. QED BY <1>5, <1>11, <2>2, <2>5 DEF r, n, c
<1>. QED BY <1>13, <1>14

LEMMA FlippedBodyIsDropped ==
  ASSUME NEW s \in Bytes, NEW x \in Bytes, x = Stuffed(s \o Field(Crc(s))),
         NEW y \in Bytes, NEW k \in 1 .. Len(x), NEW w \in Weight8, Len(y) = Len(x),
         y[k] = Flip(x[k], w), \A j \in 1 .. Len(x) : j # k => y[j] = x[j],
         x[k] # Escape, y[k] # Escape
  PROVE  ~HdlcDecode(y).ok
<1>. DEFINE u == s \o Field(Crc(s))
            v == Unstuff(y)
            n == Len(v) - 2
<1>1. u \in Bytes /\ Unstuff(x) = u
  BY CrcHasAField, UnstuffsWhatWasStuffed
<1>2. v \in Bytes /\ OneFlip(u, v)
  <2>. HIDE DEF u
  <2>. QED BY <1>1, UnstuffKeepsFlip
<1>3. Len(v) = Len(s) + 2 /\ FieldAt(v, Len(s) + 1) # Crc(SubSeq(v, 1, Len(s)))
  <2>. HIDE DEF v
  <2>. QED BY <1>2, FlippedDataIsDropped
<1>4. Len(s) \in Nat
  BY BytesHaveLength
<1>5. n = Len(s)
  BY <1>3, <1>4
<1>6. FieldAt(v, n + 1) # Crc(SubSeq(v, 1, n))
  <2>. HIDE DEF v, n
  <2>. QED BY <1>3, <1>5, Zenon
<1>. HIDE DEF v, n
<1>7. HdlcDecode(y) = NotWhole
  BY <1>6 DEF HdlcDecode, v, n
<1>. QED BY <1>7 DEF NotWhole

(* One flipped bit anywhere on the line of a frame: unless it makes or     *)
(* unmakes a flag or an escape inside the body, the CRC tells and nothing  *)
(* is decoded.                                                             *)
THEOREM FlippedLinesAreDropped ==
  \A s \in Bytes : \A i \in DOMAIN HdlcEncode(s), w \in ToSet(Weights) :
    LET line == HdlcEncode(s)
        flipped == [line EXCEPT ![i] = Flip(@, w)]
    IN  Controls(flipped) = Controls(line) => Frames(flipped) = {}
<1>. SUFFICES ASSUME NEW s \in Bytes, NEW i \in DOMAIN HdlcEncode(s), NEW w \in Weight8
              PROVE  LET line == HdlcEncode(s)
                         flipped == [line EXCEPT ![i] = Flip(@, w)]
                     IN  Controls(flipped) = Controls(line) => Frames(flipped) = {}
  BY WeightsAreEight
<1>. DEFINE t == HdlcEncode(s)
            z == [t EXCEPT ![i] = Flip(@, w)]
<1>1. PICK x \in Seq(Unflagged) : t = <<Flag>> \o x \o <<Flag>> /\ x = Stuffed(s \o Field(Crc(s)))
  BY EncodedLine
<1>. DEFINE m == Len(x)
<1>2. /\ t \in Bytes /\ Len(t) = m + 2 /\ m \in Nat /\ t[1] = Flag /\ t[m + 2] = Flag
      /\ \A j \in 1 .. m : t[j + 1] = x[j] /\ x[j] # Flag
  BY <1>1, Framed
<1>. HIDE DEF t, m
<1>3. DOMAIN t = 1 .. m + 2 /\ i \in 1 .. m + 2 /\ \A j \in 1 .. m + 2 : t[j] \in AByte
  BY <1>2, BytesHaveLength DEF AByte, t
<1>4. Flip(t[i], w) \in AByte /\ Flip(t[i], w) # t[i]
  BY <1>3, FlipChanges
<1>5. /\ z \in Seq(AByte) /\ Len(z) = m + 2 /\ z[i] = Flip(t[i], w)
      /\ \A j \in 1 .. m + 2 : j # i => z[j] = t[j]
  <2>1. t \in Seq(AByte)
    BY <1>2 DEF Bytes, AByte
  <2>. QED BY <1>2, <1>3, <1>4, <2>1, ExceptSeq
<1>. HIDE DEF z
<1>6. DOMAIN z = 1 .. m + 2 /\ z \in Bytes
  BY <1>2, <1>5, LenProperties DEF Bytes, AByte
<1>7. ASSUME NEW j \in 2 .. m + 1
      PROVE  t[j] # Flag
  <2>1. j - 1 \in 1 .. m /\ (j - 1) + 1 = j
    BY <1>2
  <2>2. t[(j - 1) + 1] # Flag
    BY <1>2, <2>1
  <2>. QED BY <2>1, <2>2
<1>8. \A j \in 1 .. m + 2 : j = 1 \/ j = m + 2 \/ j \in 2 .. m + 1
  BY <1>2
<1>9. CASE i \in {1, m + 2}
  <2>1. \A j \in 2 .. m + 1 : j # i /\ j \in 1 .. m + 2
    BY <1>2, <1>9
  <2>2. \A j \in 2 .. m + 1 : z[j] # Flag
    BY <1>5, <1>7, <2>1
  <2>3. z[i] # Flag
    BY <1>2, <1>4, <1>5, <1>9
  <2>4. Flags(z) \subseteq {1, m + 2} \ {i}
    BY <1>6, <1>8, <2>2, <2>3 DEF Flags
  <2>5. Flags(z) \subseteq Nat /\ \E k : Flags(z) \subseteq {k}
    <3>1. Flags(z) \subseteq {1} \/ Flags(z) \subseteq {m + 2}
      BY <1>9, <2>4
    <3>2. 1 \in Nat /\ m + 2 \in Nat
      BY <1>2
    <3>3. ASSUME NEW k \in Nat, Flags(z) \subseteq {k}
          PROVE  Flags(z) \subseteq Nat
      BY <3>3
    <3>. QED BY <3>1, <3>2, <3>3
  <2>6. Frames(z) = {}
    BY <2>5, OneFlagIsNoFrame
  <2>. QED BY <2>6 DEF z, t
<1>10. CASE i \notin {1, m + 2} /\ Controls(z) = Controls(t)
  <2>. DEFINE k == i - 1
              e == Flip(x[k], w)
              y == [x EXCEPT ![k] = e]
  <2>1. k \in 1 .. m /\ k + 1 = i /\ x[k] = t[i]
    BY <1>2, <1>3, <1>10
  <2>2. t[i] \notin {Flag, Escape} /\ z[i] \notin {Flag, Escape}
    <3>. DEFINE C(r) == {j \in 2 .. m + 1 : r[j] \in {Flag, Escape}}
    <3>1. Controls(t) = C(t) /\ Controls(z) = C(z)
      <4>1. Len(t) - 1 = m + 1 /\ Len(z) - 1 = m + 1
        BY <1>2, <1>5
      <4>. QED BY <4>1 DEF Controls
    <3>2. i \in 2 .. m + 1 /\ C(z) = C(t)
      BY <1>3, <1>8, <1>10, <3>1
    <3>3. i \in C(t) <=> t[i] \in {Flag, Escape}
      BY <3>2
    <3>4. i \in C(z) <=> z[i] \in {Flag, Escape}
      BY <3>2
    <3>5. t[i] \in {Flag, Escape} => z[i] \in {Flag, Escape} /\ t[i] = Escape /\ z[i] = Flag
      BY <1>2, <1>3, <1>4, <1>5, <1>7, <1>8, <1>10, <3>3, <3>4, <3>2
    <3>6. \A v \in Weight8 : Flip(Escape, v) # Flag
      BY DEF Weight8, Flip, Bit, Escape, Flag
    <3>. QED BY <1>5, <1>10, <3>3, <3>4, <3>5, <3>6, <3>2
  <2>3. e \in Unflagged /\ e = z[i]
    BY <1>4, <1>5, <2>1, <2>2 DEF Unflagged
  <2>. HIDE DEF k, e
  <2>4. /\ y \in Seq(Unflagged) /\ Len(y) = m /\ y[k] = e
        /\ \A j \in 1 .. m : j # k => y[j] = x[j]
    BY <2>1, <2>3, ExceptSeq DEF m
  <2>. HIDE DEF y
  <2>5. z = <<Flag>> \o y \o <<Flag>>
    <3>. DEFINE q == <<Flag>> \o y \o <<Flag>>
    <3>1. /\ q \in Bytes /\ Len(q) = m + 2 /\ q[1] = Flag /\ q[m + 2] = Flag
          /\ \A j \in 1 .. m : q[j + 1] = y[j]
      BY <2>4, Framed
    <3>. HIDE DEF q
    <3>2. ASSUME NEW j \in 1 .. m
          PROVE  q[j + 1] = z[j + 1]
      <4>1. j + 1 \in 1 .. m + 2 /\ (j + 1 = i <=> j = k) /\ q[j + 1] = y[j] /\ t[j + 1] = x[j]
        BY <1>2, <2>1, <3>1
      <4>2. CASE j = k
        BY <2>1, <2>3, <2>4, <4>1, <4>2
      <4>3. CASE j # k
        BY <1>5, <2>4, <4>1, <4>3
      <4>. QED BY <4>2, <4>3
    <3>3. \A j \in 2 .. m + 1 : j - 1 \in 1 .. m /\ (j - 1) + 1 = j
      BY <1>2
    <3>4. \A j \in 2 .. m + 1 : q[j] = z[j]
      BY <3>2, <3>3
    <3>5. z[1] = Flag /\ z[m + 2] = Flag
      BY <1>2, <1>5, <1>10
    <3>6. \A j \in 1 .. m + 2 : q[j] = z[j]
      BY <1>8, <3>1, <3>4, <3>5
    <3>7. q = z
      <4>1. q \in Seq(AByte)
        BY <3>1 DEF Bytes, AByte
      <4>. QED BY <1>5, <3>1, <3>6, <4>1, SeqEqual
    <3>. QED BY <3>7 DEF q
  <2>6. Bodies(z) = {y}
    BY <2>4, <2>5, BodyOfFramed
  <2>7. ~HdlcDecode(y).ok
    <3>1. x \in Bytes /\ y \in Bytes
      BY <2>4, UnflaggedAreBytes
    <3>2. x[k] # Escape /\ y[k] # Escape /\ y[k] = Flip(x[k], w)
      BY <2>1, <2>2, <2>3, <2>4 DEF e
    <3>. QED BY <1>1, <2>1, <2>4, <3>1, <3>2, FlippedBodyIsDropped DEF m
  <2>8. Frames(z) = {}
    BY <2>6, <2>7 DEF Frames
  <2>. QED BY <2>8 DEF z, t
<1>11. Len(t) = m + 2
  BY <1>2
<1>. QED BY <1>9, <1>10, <1>11 DEF z, t
=============================================================================
