-------------------------- MODULE ZdoServerProofs --------------------------
(***************************************************************************)
(* ZigbeeZdo's answers, for any endpoints and descriptors that the         *)
(* application adds at any time, and for any requests, whole or cut.       *)
(***************************************************************************)
EXTENDS ZdoServer, BytesProofs, FiniteSetTheorems

(* Profile 0, ZDP's own, is not among those that match requests name.      *)
AsksForProfiles == \A r \in Whole : r.cluster = 6 => FieldAt(r.payload, 3) # 0

(* What an entry of the table may be: made, or assigned a descriptor that  *)
(* the application gave; the one that is being assigned has been made.  No *)
(* entry is being made while it is calm.                                   *)
Given(e) == {d \in given : d.endpoint = e}
TableOK ==
  /\ IsFiniteSet(given)
  /\ \A e \in Endpoint : table[e] \in {Absent, Blank} \cup Given(e)
  /\ adding # NoAdd => adding.desc \in given /\ table[adding.desc.endpoint] # Absent
  /\ calm /\ pc # "idle" => adding = NoAdd

(* A match request is looked at when it is whole and for this node. *)
Matching == pc = "match" \/ (pc = "answered" /\ asked.cluster = 6 /\ answer # NoAnswer)
RequestOK ==
  /\ pc # "idle" => asked \in Requests /\ asked.cluster < 64
  /\ Matching => asked.cluster = 6 /\ IsQuery(asked.payload) /\ ForUs(asked.payload)
  /\ ~Matching => matched = <<>>
  /\ pc # "match" => eps = <<>>

(* While it is calm, the endpoints that were looked up are those that are  *)
(* not left, and the ones among them that match have been found.           *)
MatchOK ==
  Matching /\ calm =>
    /\ IsInjective(eps) /\ IsInjective(matched)
    /\ \A e \in ToSet(eps) : table[e] # Absent /\ e \notin ToSet(matched)
    /\ ToSet(matched) = {e \in Endpoint \ ToSet(eps) : Fits(table[e], Query(asked.payload))}

(* The inductive invariant. *)
ZdoInv ==
  /\ TypeOK /\ TableOK /\ RequestOK /\ MatchOK
  /\ WholeRequestsAreAnswered /\ AddressesReadBack /\ DescriptionReadsBack

-----------------------------------------------------------------------------
(* The requests.                                                           *)

LEMMA ServerConstants ==
  /\ NwkAddr \in 0 .. Byte * Byte - 1
  /\ ExtAddr \in Bytes /\ Len(ExtAddr) = 8
  /\ Endpoint \subseteq 1 .. Byte - 1 /\ Endpoint \subseteq 0 .. Byte - 1
  /\ IsFiniteSet(Endpoint)
  /\ \A d \in NodeDesc \cup PowerDesc : d \in Bytes
  /\ \A d \in Descriptor :
       /\ d.endpoint \in Endpoint /\ d.profile \in 0 .. Byte * Byte - 1
       /\ d.in \in Fields16 /\ d.out \in Fields16
  /\ \A r \in Whole : r.cluster \in 0 .. Byte * Byte - 1 /\ r.payload \in Bytes
  /\ CountRange \in 1 .. Byte
<1>1. ASSUME NEW d \in Descriptor
      PROVE  /\ d.endpoint \in 1 .. Byte - 1 /\ d.endpoint \in Endpoint
             /\ d.profile \in 0 .. Byte * Byte - 1
             /\ d.in \in Fields16 /\ d.out \in Fields16
  BY ConstantsAssumption DEF Endpoint, Fields16
<1>2. Endpoint \subseteq 1 .. Byte - 1
  BY <1>1 DEF Endpoint
<1>3. \A e \in 1 .. Byte - 1 : e \in 0 .. Byte - 1
  BY DEF Byte
<1>4. IsFiniteSet(Endpoint)
  <2>1. 1 \in Int /\ Byte - 1 \in Int
    BY DEF Byte
  <2>2. IsFiniteSet(1 .. Byte - 1)
    BY <2>1, FS_Interval
  <2>. QED BY <1>2, <2>2, FS_Subset
<1>5. \A r \in Whole : r.cluster \in 0 .. Byte * Byte - 1 /\ r.payload \in Bytes
  BY ConstantsAssumption DEF Bytes
<1>6. /\ NwkAddr \in 0 .. Byte * Byte - 1 /\ CountRange \in 1 .. Byte
      /\ ExtAddr \in Bytes /\ Len(ExtAddr) = 8
      /\ \A d \in NodeDesc \cup PowerDesc : d \in Bytes
  BY ConstantsAssumption DEF Bytes
<1>. QED BY <1>1, <1>2, <1>3, <1>4, <1>5, <1>6

(* A request is one that was sent, with the first n bytes of its payload. *)
LEMMA RequestsAreCut ==
  ASSUME NEW r \in Requests
  PROVE  \E w \in Whole : \E n \in 0 .. Len(w.payload) :
           /\ r.dstEp = w.dstEp /\ r.src = w.src /\ r.cluster = w.cluster
           /\ r.payload = SubSeq(w.payload, 1, n) /\ r.payload \in Bytes /\ Len(r.payload) = n
           /\ \A i \in 1 .. n : r.payload[i] = w.payload[i]
           /\ n = Len(w.payload) => r = w
<1>1. PICK w \in Whole : r \in {[w EXCEPT !.payload = t] : t \in Prefixes(w.payload)}
  BY DEF Requests
<1>2. PICK n \in 0 .. Len(w.payload) : r = [w EXCEPT !.payload = SubSeq(w.payload, 1, n)]
  BY <1>1 DEF Prefixes
<1>3. w.payload \in Bytes
  BY ServerConstants
<1>4. w \in [dstEp : 0 .. Byte - 1, src : 0 .. Byte * Byte - 1, cluster : 0 .. Byte * Byte - 1,
             payload : Seq(0 .. Byte - 1)]
  BY ConstantsAssumption
<1>5. /\ r.dstEp = w.dstEp /\ r.src = w.src /\ r.cluster = w.cluster
      /\ r.payload = SubSeq(w.payload, 1, n)
      /\ r.payload = w.payload => r = w
  BY <1>2, <1>4
<1>6. /\ r.payload \in Bytes /\ Len(r.payload) = n
      /\ \A i \in 1 .. n : r.payload[i] = w.payload[i]
  BY <1>3, <1>5, CutOfBytes
<1>7. n = Len(w.payload) => r = w
  BY <1>3, <1>5, WholeOfBytes
<1>. QED BY <1>5, <1>6, <1>7

LEMMA RequestTypes ==
  ASSUME NEW r \in Requests
  PROVE  /\ r.cluster \in 0 .. Byte * Byte - 1 /\ r.cluster \in Nat
         /\ r.cluster < 64 => r.cluster \in 0 .. 63
         /\ r.payload \in Bytes /\ Len(r.payload) \in Nat
         /\ \A i \in 1 .. Len(r.payload) : r.payload[i] \in 0 .. Byte - 1
<1>1. r.cluster \in 0 .. Byte * Byte - 1 /\ r.payload \in Bytes
  <2>1. PICK w \in Whole : r.cluster = w.cluster /\ r.payload \in Bytes
    BY RequestsAreCut
  <2>. QED BY <2>1, ServerConstants
<1>2. \A c \in 0 .. Byte * Byte - 1 : c \in Nat /\ (c < 64 => c \in 0 .. 63)
  <2>1. \A k \in Nat : \A c \in 0 .. k - 1 : c \in Nat /\ (c < 64 => c \in 0 .. 63)
    OBVIOUS
  <2>. QED BY <2>1, BytePairs
<1>3. Len(r.payload) \in Nat /\ \A i \in 1 .. Len(r.payload) : r.payload[i] \in 0 .. Byte - 1
  BY <1>1, BytesHaveLength
<1>. QED BY <1>1, <1>2, <1>3

(* The length that a handler asks for before it looks at a request.        *)
Enough(r) ==
  LET p == r.payload
  IN  /\ r.cluster = 0 => Len(p) >= 10
      /\ r.cluster = 1 => Len(p) >= 4
      /\ r.cluster \in {2, 3, 5, 54} => Len(p) >= 2
      /\ r.cluster = 4 => Len(p) >= 3
      /\ r.cluster = 6 => IsQuery(p)

(* A list that is there is there in whatever it is the beginning of.       *)
LEMMA QueryPrefix ==
  ASSUME NEW s \in Bytes, NEW n \in 0 .. Len(s), NEW p \in Bytes, Len(p) = n,
         \A i \in 1 .. n : p[i] = s[i], IsQuery(p)
  PROVE  OutAt(s) = OutAt(p) /\ s[OutAt(s)] = p[OutAt(p)] /\ n >= OutAt(s) + 2 * s[OutAt(s)]
<1>1. n \in Nat /\ Len(s) \in Nat
  BY BytesHaveLength
<1>2. 5 \in 1 .. n
  BY <1>1 DEF IsQuery
<1>3. p[5] = s[5] /\ p[5] \in 0 .. Byte - 1
  BY <1>2, BytesHaveLength
<1>4. OutAt(s) = OutAt(p) /\ OutAt(p) \in Nat \ {0}
  <2>1. \A x \in 0 .. Byte - 1 : 6 + 2 * x \in Nat \ {0}
    BY DEF Byte
  <2>. QED BY <1>3, <2>1 DEF OutAt
<1>5. OutAt(p) \in 1 .. n
  BY <1>1, <1>4 DEF IsQuery
<1>6. s[OutAt(p)] = p[OutAt(p)]
  BY <1>5
<1>. QED BY <1>4, <1>6 DEF IsQuery

(* A handler looks at the requests that arrive whole, and at no others.    *)
LEMMA EnoughIsWhole ==
  ASSUME NEW r \in Requests, r.cluster \in 0 .. 6 \cup {54}
  PROVE  r \in Whole <=> Enough(r)
<1>1. ASSUME r \in Whole
      PROVE  Enough(r)
  <2>. DEFINE p == r.payload
  <2>1. /\ r.cluster = 0 => Len(p) = 10
        /\ r.cluster = 1 => Len(p) = 4
        /\ r.cluster \in {2, 3, 5, 54} => Len(p) = 2
        /\ r.cluster = 4 => Len(p) = 3
        /\ r.cluster = 6 => IsQuery(p)
    BY <1>1, WholeAssumption
  <2>. HIDE DEF p
  <2>2. \A x : (x = 10 => x >= 10) /\ (x = 4 => x >= 4) /\ (x = 2 => x >= 2) /\ (x = 3 => x >= 3)
    OBVIOUS
  <2>. QED BY <2>1, <2>2, Zenon DEF Enough, p
<1>2. ASSUME Enough(r)
      PROVE  r \in Whole
  <2>1. PICK w \in Whole : \E n \in 0 .. Len(w.payload) :
           /\ r.cluster = w.cluster
           /\ r.payload \in Bytes /\ Len(r.payload) = n
           /\ \A i \in 1 .. n : r.payload[i] = w.payload[i]
           /\ n = Len(w.payload) => r = w
    BY RequestsAreCut
  <2>2. PICK n \in 0 .. Len(w.payload) :
           /\ r.cluster = w.cluster
           /\ r.payload \in Bytes /\ Len(r.payload) = n
           /\ \A i \in 1 .. n : r.payload[i] = w.payload[i]
           /\ n = Len(w.payload) => r = w
    BY <2>1
  <2>. DEFINE p == r.payload
              q == w.payload
  <2>3. q \in Bytes /\ Len(q) \in Nat /\ n \in Nat /\ n <= Len(q) /\ p \in Bytes /\ Len(p) = n
    BY <2>2, ServerConstants, BytesHaveLength
  <2>4. CASE r.cluster # 6
    <3>1. /\ r.cluster = 0 => Len(q) = 10 /\ n >= 10
          /\ r.cluster = 1 => Len(q) = 4 /\ n >= 4
          /\ r.cluster \in {2, 3, 5, 54} => Len(q) = 2 /\ n >= 2
          /\ r.cluster = 4 => Len(q) = 3 /\ n >= 3
      BY <1>2, <2>2, WholeAssumption DEF Enough
    <3>2. \/ r.cluster = 0 \/ r.cluster = 1 \/ r.cluster \in {2, 3, 5, 54} \/ r.cluster = 4
      BY <2>4
    <3>3. n = Len(q)
      <4>1. \A x, y \in Nat : x <= y =>
              /\ (y = 10 /\ x >= 10 => x = y) /\ (y = 4 /\ x >= 4 => x = y)
              /\ (y = 2 /\ x >= 2 => x = y) /\ (y = 3 /\ x >= 3 => x = y)
        OBVIOUS
      <4>. HIDE DEF q
      <4>. QED BY <2>3, <3>1, <3>2, <4>1, Zenon
    <3>. QED BY <2>2, <3>3
  <2>5. CASE r.cluster = 6
    <3>1. IsQuery(p)
      BY <1>2, <2>5 DEF Enough
    <3>2. n >= OutAt(q) + 2 * q[OutAt(q)]
      BY <2>2, <2>3, <3>1, QueryPrefix
    <3>3. Len(q) = OutAt(q) + 2 * q[OutAt(q)]
      BY <2>2, <2>5, WholeAssumption
    <3>4. n = Len(q)
      BY <2>3, <3>2, <3>3
    <3>. QED BY <2>2, <3>4
  <2>. QED BY <2>4, <2>5
<1>. QED BY <1>1, <1>2

-----------------------------------------------------------------------------
(* The answers.                                                            *)

Responses == 32768 .. 32831

LEMMA AnswerTypes ==
  ASSUME NEW r, r.cluster \in 0 .. 63, NEW status \in 0 .. Byte - 1, NEW body \in Bytes,
         NEW a, a = Answer(r, status, body)
  PROVE  /\ a.dst = r.src /\ a.cluster = r.cluster + RspBit
         /\ a.cluster \in Responses /\ a # NoAnswer
         /\ a.payload \in Bytes /\ a.payload[1] = status
         /\ \A n : n = Len(body) + 1 => Len(a.payload) = n
         /\ \A u \in Bytes, i \in Nat \ {0} : \A n :
              LiesAt(u, body, i) /\ i + Len(u) - 1 <= Len(body) /\ n = i + 1 => LiesAt(u, a.payload, n)
<1>. DEFINE h == <<status>>
<1>1. /\ a.dst = r.src /\ a.cluster = r.cluster + RspBit /\ a.payload = h \o body
      /\ NoAnswer.cluster = 0
  BY DEF Answer, NoAnswer
<1>2. r.cluster + RspBit \in Responses /\ r.cluster + RspBit # 0
  BY DEF RspBit, Responses
<1>3. a # NoAnswer
  BY <1>1, <1>2
<1>4. h \in Bytes /\ Len(h) = 1 /\ h[1] = status
  BY DEF Bytes
<1>. HIDE DEF h
<1>5. /\ h \o body \in Bytes
      /\ \A n : n = Len(h) + Len(body) => Len(h \o body) = n
      /\ LiesAt(h, h \o body, 1)
      /\ \A u \in Bytes, i \in Nat \ {0} : \A n :
           LiesAt(u, body, i) /\ i + Len(u) - 1 <= Len(body) /\ n = Len(h) + i => LiesAt(u, h \o body, n)
  BY <1>4, PlacesInConcat
<1>6. (h \o body)[1] = status
  <2>1. 1 \in 1 .. Len(h) /\ 1 + 1 - 1 = 1
    BY <1>4
  <2>. QED BY <1>4, <1>5, <2>1 DEF LiesAt
<1>7. Len(body) \in Nat /\ \A x \in Nat : x + 1 = 1 + x
  BY BytesHaveLength
<1>8. \A n : n = Len(body) + 1 => Len(a.payload) = n
  BY <1>1, <1>4, <1>5, <1>7
<1>9. \A u \in Bytes, i \in Nat \ {0} : \A n :
        LiesAt(u, body, i) /\ i + Len(u) - 1 <= Len(body) /\ n = i + 1 => LiesAt(u, a.payload, n)
  BY <1>1, <1>4, <1>5, <1>7
<1>. QED BY <1>1, <1>2, <1>3, <1>5, <1>6, <1>8, <1>9

(* The address of this node, as it is written. *)
LEMMA MeIsBytes == Me \in Bytes /\ Len(Me) = 2
BY ServerConstants, FieldIsTwoBytes DEF Me

(* Both addresses, no devices, and a start index. *)
LEMMA AddressLayout ==
  ASSUME NEW r, r.cluster \in 0 .. 63, NEW x \in 0 .. Byte - 1
  PROVE  LET s == Answer(r, Success, ExtAddr \o Me \o <<0, x>>).payload
         IN  /\ ExtAddr \o Me \o <<0, x>> \in Bytes
             /\ Len(s) = 13 /\ SubSeq(s, 2, 9) = ExtAddr /\ FieldAt(s, 10) = NwkAddr
             /\ s[12] = 0 /\ s[13] = x
<1>. DEFINE b == ExtAddr \o Me
            t == <<0, x>>
            body == b \o t
            s == Answer(r, Success, body).payload
<1>1. ExtAddr \in Bytes /\ Len(ExtAddr) = 8 /\ Me \in Bytes /\ Len(Me) = 2
  BY ServerConstants, MeIsBytes
<1>2. t \in Bytes /\ Len(t) = 2 /\ t[1] = 0 /\ t[2] = x
  <2>1. 0 \in 0 .. Byte - 1
    BY DEF Byte
  <2>. QED BY <2>1 DEF Bytes
<1>3. b \in Bytes /\ Len(b) = 10 /\ LiesAt(ExtAddr, b, 1) /\ LiesAt(Me, b, 9)
  <2>1. 10 = Len(ExtAddr) + Len(Me) /\ 9 = Len(ExtAddr) + 1
    BY <1>1
  <2>. QED BY <1>1, <2>1, PlacesInConcat
<1>. HIDE DEF b, t
<1>4. /\ body \in Bytes /\ Len(body) = 12
      /\ LiesAt(ExtAddr, body, 1) /\ LiesAt(Me, body, 9) /\ LiesAt(t, body, 11)
  <2>1. /\ 12 = Len(b) + Len(t) /\ 11 = Len(b) + 1 /\ 1 \in Nat \ {0} /\ 9 \in Nat \ {0}
        /\ 1 + Len(ExtAddr) - 1 <= Len(b) /\ 9 + Len(Me) - 1 <= Len(b)
    BY <1>1, <1>2, <1>3
  <2>2. body \in Bytes /\ Len(body) = 12 /\ LiesAt(t, body, 11)
    BY <1>2, <1>3, <2>1, PlacesInConcat
  <2>3. LiesAt(ExtAddr, body, 1) /\ LiesAt(Me, body, 9)
    BY <1>1, <1>2, <1>3, <2>1, LiesInConcat
  <2>. QED BY <2>2, <2>3
<1>. HIDE DEF body
<1>5. /\ s \in Bytes /\ Len(s) = 13
      /\ LiesAt(ExtAddr, s, 2) /\ LiesAt(Me, s, 10) /\ LiesAt(t, s, 12)
  <2>1. Success \in 0 .. Byte - 1
    BY DEF Success, Byte
  <2>2. /\ 13 = Len(body) + 1 /\ 1 \in Nat \ {0} /\ 9 \in Nat \ {0} /\ 11 \in Nat \ {0}
        /\ 1 + Len(ExtAddr) - 1 <= Len(body) /\ 2 = 1 + 1
        /\ 9 + Len(Me) - 1 <= Len(body) /\ 10 = 9 + 1
        /\ 11 + Len(t) - 1 <= Len(body) /\ 12 = 11 + 1
    BY <1>1, <1>2, <1>4
  <2>3. /\ s \in Bytes
        /\ \A n : n = Len(body) + 1 => Len(s) = n
        /\ \A u \in Bytes, i \in Nat \ {0} : \A n :
             LiesAt(u, body, i) /\ i + Len(u) - 1 <= Len(body) /\ n = i + 1 => LiesAt(u, s, n)
    <3>. DEFINE a == Answer(r, Success, body)
    <3>1. body \in Bytes
      BY <1>4
    <3>2. a = Answer(r, Success, body)
      OBVIOUS
    <3>. HIDE DEF a
    <3>3. /\ a.payload \in Bytes
          /\ \A n : n = Len(body) + 1 => Len(a.payload) = n
          /\ \A u \in Bytes, i \in Nat \ {0} : \A n :
               LiesAt(u, body, i) /\ i + Len(u) - 1 <= Len(body) /\ n = i + 1 => LiesAt(u, a.payload, n)
      BY <2>1, <3>1, <3>2, AnswerTypes
    <3>. QED BY <3>3 DEF a
  <2>. HIDE DEF s
  <2>. QED BY <1>1, <1>2, <1>4, <2>2, <2>3
<1>. HIDE DEF s
<1>6. SubSeq(s, 2, 9) = ExtAddr
  <2>1. 2 \in Nat \ {0} /\ 9 = 2 + Len(ExtAddr) - 1 /\ 9 <= Len(s)
    BY <1>1, <1>5
  <2>2. s \in Bytes /\ ExtAddr \in Bytes /\ LiesAt(ExtAddr, s, 2)
    BY <1>1, <1>5
  <2>3. \A i \in Nat \ {0} : \A n :
          LiesAt(ExtAddr, s, i) /\ n = i + Len(ExtAddr) - 1 /\ n <= Len(s) => SubSeq(s, i, n) = ExtAddr
    BY <2>2, LiesIsPart
  <2>. QED BY <2>1, <2>2, <2>3
<1>7. FieldAt(s, 10) = NwkAddr
  <2>1. 10 \in Nat
    OBVIOUS
  <2>. QED BY <1>5, <2>1, ServerConstants, FieldReads DEF Me
<1>8. s[12] = 0 /\ s[13] = x
  <2>1. 1 \in 1 .. Len(t) /\ 2 \in 1 .. Len(t) /\ 12 + 1 - 1 = 12 /\ 12 + 2 - 1 = 13
    BY <1>2
  <2>2. s[12 + 1 - 1] = t[1] /\ s[12 + 2 - 1] = t[2]
    BY <1>5, <2>1 DEF LiesAt
  <2>. QED BY <1>2, <2>1, <2>2
<1>. QED BY <1>4, <1>5, <1>6, <1>7, <1>8 DEF s, body, b, t

(* A count that its byte can hold is written as it is. *)
LEMMA CutIsByte ==
  ASSUME NEW n \in Nat
  PROVE  /\ Cut(n) \in 0 .. Byte - 1
         /\ n < CountRange => Cut(n) = n
<1>1. \A c \in Nat \ {0} : n % c \in 0 .. c - 1 /\ (n < c => n % c = n)
  OBVIOUS
<1>2. CountRange \in Nat \ {0} /\ \A x \in 0 .. CountRange - 1 : x \in 0 .. Byte - 1
  <2>1. CountRange \in 1 .. Byte
    BY ServerConstants
  <2>. QED BY <2>1 DEF Byte
<1>. QED BY <1>1, <1>2 DEF Cut

(* What a lookup may return: a descriptor, or parts of two of them. *)
Readable(d) ==
  /\ d.endpoint \in 0 .. Byte - 1 /\ d.profile \in 0 .. Byte * Byte - 1
  /\ d.in \in Fields16 /\ d.out \in Fields16

LEMMA DescriptionLayout ==
  ASSUME NEW d, Readable(d)
  PROVE  LET D == Description(d)
             m == Len(d.in)
             n == Len(d.out)
         IN  /\ D \in Bytes /\ m \in Nat /\ n \in Nat /\ Len(D) = 5 + 2 * m + 2 * n
             /\ D[1] = d.endpoint /\ FieldAt(D, 2) = d.profile
             /\ D[4] = Cut(m) /\ FieldsAt(D, 5, m) = d.in
             /\ D[5 + 2 * m] = Cut(n) /\ FieldsAt(D, 5 + 2 * m + 1, n) = d.out
<1>. DEFINE m == Len(d.in)
            n == Len(d.out)
            e == <<d.endpoint>>
            f == Field(d.profile)
            c == <<Cut(m)>>
            g == Fields(d.in)
            k == <<Cut(n)>>
            h == Fields(d.out)
            s2 == e \o f
            s3 == s2 \o c
            s4 == s3 \o g
            s5 == s4 \o k
            D  == s5 \o h
<1>1. /\ m \in Nat /\ g \in Bytes /\ Len(g) = 2 * m
      /\ n \in Nat /\ h \in Bytes /\ Len(h) = 2 * n
      /\ f \in Bytes /\ Len(f) = 2
  BY FieldsAreBytes, FieldIsTwoBytes DEF Readable
<1>2. \A x \in 0 .. Byte - 1 : <<x>> \in Bytes /\ Len(<<x>>) = 1 /\ <<x>>[1] = x
  BY DEF Bytes
<1>3. /\ e \in Bytes /\ Len(e) = 1 /\ e[1] = d.endpoint
      /\ c \in Bytes /\ Len(c) = 1 /\ c[1] = Cut(m)
      /\ k \in Bytes /\ Len(k) = 1 /\ k[1] = Cut(n)
  BY <1>1, <1>2, CutIsByte DEF Readable
<1>4. D = Description(d)
  BY DEF Description
<1>. HIDE DEF m, n, e, f, c, g, k, h
<1>5. s2 \in Bytes /\ Len(s2) = 3 /\ LiesAt(e, s2, 1) /\ LiesAt(f, s2, 2)
  <2>1. 3 = Len(e) + Len(f) /\ 2 = Len(e) + 1
    BY <1>1, <1>3
  <2>2. e \in Bytes /\ f \in Bytes /\ c \in Bytes /\ g \in Bytes /\ k \in Bytes /\ h \in Bytes
    BY <1>1, <1>3
  <2>. QED BY <2>1, <2>2, PlacesInConcat
<1>. HIDE DEF s2
<1>6. s3 \in Bytes /\ Len(s3) = 4 /\ LiesAt(e, s3, 1) /\ LiesAt(f, s3, 2) /\ LiesAt(c, s3, 4)
  <2>1. /\ 4 = Len(s2) + Len(c) /\ 4 = Len(s2) + 1 /\ 1 \in Nat \ {0} /\ 2 \in Nat \ {0}
        /\ 1 + Len(e) - 1 <= Len(s2) /\ 2 + Len(f) - 1 <= Len(s2)
    BY <1>1, <1>3, <1>5
  <2>2. e \in Bytes /\ f \in Bytes /\ c \in Bytes /\ g \in Bytes /\ k \in Bytes /\ h \in Bytes
    BY <1>1, <1>3
  <2>3. /\ s3 \in Bytes
        /\ \A z : z = Len(s2) + Len(c) => Len(s3) = z
        /\ \A z : z = Len(s2) + 1 => LiesAt(c, s3, z)
        /\ \A u \in Bytes, i \in Nat \ {0} :
             LiesAt(u, s2, i) /\ i + Len(u) - 1 <= Len(s2) => LiesAt(u, s3, i)
    BY <1>5, <2>2, PlacesInConcat
  <2>. HIDE DEF s3
  <2>. QED BY <1>5, <2>1, <2>2, <2>3
<1>. HIDE DEF s3
<1>7. /\ s4 \in Bytes /\ Len(s4) = 4 + 2 * m
      /\ LiesAt(e, s4, 1) /\ LiesAt(f, s4, 2) /\ LiesAt(c, s4, 4) /\ LiesAt(g, s4, 5)
  <2>1. /\ 4 + 2 * m = Len(s3) + Len(g) /\ 5 = Len(s3) + 1
        /\ 1 \in Nat \ {0} /\ 2 \in Nat \ {0} /\ 4 \in Nat \ {0}
        /\ 1 + Len(e) - 1 <= Len(s3) /\ 2 + Len(f) - 1 <= Len(s3) /\ 4 + Len(c) - 1 <= Len(s3)
    BY <1>1, <1>3, <1>6
  <2>2. e \in Bytes /\ f \in Bytes /\ c \in Bytes /\ g \in Bytes /\ k \in Bytes /\ h \in Bytes
    BY <1>1, <1>3
  <2>3. /\ s4 \in Bytes
        /\ \A z : z = Len(s3) + Len(g) => Len(s4) = z
        /\ \A z : z = Len(s3) + 1 => LiesAt(g, s4, z)
        /\ \A u \in Bytes, i \in Nat \ {0} :
             LiesAt(u, s3, i) /\ i + Len(u) - 1 <= Len(s3) => LiesAt(u, s4, i)
    BY <1>6, <2>2, PlacesInConcat
  <2>. HIDE DEF s4
  <2>. QED BY <1>6, <2>1, <2>2, <2>3
<1>. HIDE DEF s4
<1>8. /\ s5 \in Bytes /\ Len(s5) = 5 + 2 * m
      /\ LiesAt(e, s5, 1) /\ LiesAt(f, s5, 2) /\ LiesAt(c, s5, 4) /\ LiesAt(g, s5, 5)
      /\ LiesAt(k, s5, 5 + 2 * m)
  <2>1. /\ 5 + 2 * m = Len(s4) + Len(k) /\ 5 + 2 * m = Len(s4) + 1
        /\ 1 \in Nat \ {0} /\ 2 \in Nat \ {0} /\ 4 \in Nat \ {0} /\ 5 \in Nat \ {0}
        /\ 1 + Len(e) - 1 <= Len(s4) /\ 2 + Len(f) - 1 <= Len(s4)
        /\ 4 + Len(c) - 1 <= Len(s4) /\ 5 + Len(g) - 1 <= Len(s4)
    BY <1>1, <1>3, <1>7
  <2>2. e \in Bytes /\ f \in Bytes /\ c \in Bytes /\ g \in Bytes /\ k \in Bytes /\ h \in Bytes
    BY <1>1, <1>3
  <2>. QED BY <1>7, <2>1, <2>2, PlacesInConcat
<1>. HIDE DEF s5
<1>9. /\ D \in Bytes /\ Len(D) = 5 + 2 * m + 2 * n
      /\ LiesAt(e, D, 1) /\ LiesAt(f, D, 2) /\ LiesAt(c, D, 4) /\ LiesAt(g, D, 5)
      /\ LiesAt(k, D, 5 + 2 * m) /\ LiesAt(h, D, 5 + 2 * m + 1)
  <2>1. /\ 5 + 2 * m + 2 * n = Len(s5) + Len(h) /\ 5 + 2 * m + 1 = Len(s5) + 1
        /\ 1 \in Nat \ {0} /\ 2 \in Nat \ {0} /\ 4 \in Nat \ {0} /\ 5 \in Nat \ {0}
        /\ 5 + 2 * m \in Nat \ {0}
        /\ 1 + Len(e) - 1 <= Len(s5) /\ 2 + Len(f) - 1 <= Len(s5)
        /\ 4 + Len(c) - 1 <= Len(s5) /\ 5 + Len(g) - 1 <= Len(s5)
        /\ (5 + 2 * m) + Len(k) - 1 <= Len(s5)
    BY <1>1, <1>3, <1>8
  <2>2. e \in Bytes /\ f \in Bytes /\ c \in Bytes /\ g \in Bytes /\ k \in Bytes /\ h \in Bytes
    BY <1>1, <1>3
  <2>3. /\ D \in Bytes
        /\ \A z : z = Len(s5) + Len(h) => Len(D) = z
        /\ \A z : z = Len(s5) + 1 => LiesAt(h, D, z)
        /\ \A u \in Bytes, i \in Nat \ {0} :
             LiesAt(u, s5, i) /\ i + Len(u) - 1 <= Len(s5) => LiesAt(u, D, i)
    BY <1>8, <2>2, PlacesInConcat
  <2>. HIDE DEF D
  <2>. QED BY <1>8, <2>1, <2>2, <2>3
<1>. HIDE DEF D
<1>10. \A t \in Bytes : \A x, i : i \in Nat /\ Len(t) = 1 /\ t[1] = x /\ LiesAt(t, D, i) => D[i] = x
  <2>1. ASSUME NEW t \in Bytes, NEW x, NEW i, i \in Nat, Len(t) = 1, t[1] = x, LiesAt(t, D, i)
        PROVE  D[i] = x
    <3>1. 1 \in 1 .. Len(t) /\ i + 1 - 1 = i
      BY <2>1
    <3>. QED BY <2>1, <3>1 DEF LiesAt
  <2>. QED BY <2>1
<1>11. 1 \in Nat /\ 2 \in Nat /\ 4 \in Nat /\ 5 \in Nat /\ 5 + 2 * m \in Nat /\ 5 + 2 * m + 1 \in Nat
  BY <1>1
<1>12. D[1] = d.endpoint /\ D[4] = Cut(m) /\ D[5 + 2 * m] = Cut(n)
  BY <1>3, <1>9, <1>10, <1>11
<1>13. FieldAt(D, 2) = d.profile
  BY <1>9, <1>11, FieldReads DEF f, Readable
<1>14. FieldsAt(D, 5, m) = d.in /\ FieldsAt(D, 5 + 2 * m + 1, n) = d.out
  BY <1>9, <1>11, FieldsRead DEF g, h, m, n, Readable
<1>. QED BY <1>1, <1>4, <1>9, <1>12, <1>13, <1>14 DEF m, n

(* This node, a byte, and what it counts. *)
LEMMA CountedLayout ==
  ASSUME NEW r, r.cluster \in 0 .. 63, NEW x \in 0 .. Byte - 1, NEW t \in Bytes
  PROVE  LET s == Answer(r, Success, Me \o <<x>> \o t).payload
         IN  /\ Me \o <<x>> \o t \in Bytes
             /\ s[4] = x /\ Rest(s, 5) = t
<1>. DEFINE c == <<x>>
            b == Me \o c
            body == b \o t
            a == Answer(r, Success, body)
            s == a.payload
<1>1. Me \in Bytes /\ Len(Me) = 2 /\ Len(t) \in Nat
  BY MeIsBytes, BytesHaveLength
<1>2. c \in Bytes /\ Len(c) = 1 /\ c[1] = x
  BY DEF Bytes
<1>. HIDE DEF c
<1>3. b \in Bytes /\ Len(b) = 3 /\ LiesAt(c, b, 3)
  <2>1. 3 = Len(Me) + Len(c) /\ 3 = Len(Me) + 1
    BY <1>1, <1>2
  <2>2. /\ b \in Bytes
        /\ \A n : n = Len(Me) + Len(c) => Len(b) = n
        /\ \A n : n = Len(Me) + 1 => LiesAt(c, b, n)
    BY <1>1, <1>2, PlacesInConcat
  <2>. HIDE DEF b
  <2>. QED BY <2>1, <2>2
<1>. HIDE DEF b
<1>4. body \in Bytes /\ Len(body) = 3 + Len(t) /\ LiesAt(c, body, 3) /\ LiesAt(t, body, 4)
  <2>1. /\ 3 + Len(t) = Len(b) + Len(t) /\ 4 = Len(b) + 1
        /\ 3 \in Nat \ {0} /\ 3 + Len(c) - 1 <= Len(b)
    BY <1>1, <1>2, <1>3
  <2>2. /\ body \in Bytes
        /\ \A n : n = Len(b) + Len(t) => Len(body) = n
        /\ \A n : n = Len(b) + 1 => LiesAt(t, body, n)
        /\ \A u \in Bytes, i \in Nat \ {0} :
             LiesAt(u, b, i) /\ i + Len(u) - 1 <= Len(b) => LiesAt(u, body, i)
    BY <1>3, PlacesInConcat
  <2>. HIDE DEF body
  <2>. QED BY <1>2, <1>3, <2>1, <2>2
<1>5. a = Answer(r, Success, body) /\ Success \in 0 .. Byte - 1
  BY DEF Success, Byte
<1>. HIDE DEF a, body
<1>6. s \in Bytes /\ Len(s) = 4 + Len(t) /\ LiesAt(c, s, 4) /\ LiesAt(t, s, 5)
  <2>1. /\ 4 + Len(t) = Len(body) + 1 /\ 3 \in Nat \ {0} /\ 4 \in Nat \ {0}
        /\ 3 + Len(c) - 1 <= Len(body) /\ 4 = 3 + 1
        /\ 4 + Len(t) - 1 <= Len(body) /\ 5 = 4 + 1
    BY <1>1, <1>2, <1>4
  <2>2. /\ a.payload \in Bytes
        /\ \A n : n = Len(body) + 1 => Len(a.payload) = n
        /\ \A u \in Bytes, i \in Nat \ {0} : \A n :
             LiesAt(u, body, i) /\ i + Len(u) - 1 <= Len(body) /\ n = i + 1 => LiesAt(u, a.payload, n)
    BY <1>4, <1>5, AnswerTypes
  <2>. QED BY <1>2, <1>4, <2>1, <2>2
<1>. HIDE DEF s
<1>7. s[4] = x
  <2>1. 1 \in 1 .. Len(c) /\ 4 + 1 - 1 = 4
    BY <1>2
  <2>. QED BY <1>2, <1>6, <2>1 DEF LiesAt
<1>8. Rest(s, 5) = t
  <2>1. 5 \in Nat \ {0} /\ 4 + Len(t) = 5 + Len(t) - 1 /\ 4 + Len(t) <= Len(s) /\ 4 + Len(t) = Len(s)
    BY <1>1, <1>6
  <2>. QED BY <1>6, <2>1, LiesIsPart
<1>. QED BY <1>4, <1>7, <1>8 DEF s, a, body, b, c

(* What a handler may be given for an answer, by the request and the table. *)
Answered(r, a) ==
  r.cluster \notin Unchecked =>
    IF /\ r \in Whole
       /\ \/ r.cluster \in Unaddressed
          \/ r.cluster \in 2 .. 6 /\ r.payload[1] + Byte * r.payload[2] = NwkAddr
    THEN a.dst = r.src /\ a.cluster = r.cluster + RspBit
    ELSE a = NoAnswer
Addressed(r, a) ==
  r.cluster \in 0 .. 1 /\ a # NoAnswer /\ a.payload[1] = Success =>
    LET s == a.payload
    IN  /\ Len(s) = 13
        /\ SubSeq(s, 2, 9) = ExtAddr /\ FieldAt(s, 10) = NwkAddr /\ s[12] = 0
        /\ r.cluster = 0 => s[13] = Last(r.payload)
Described(r, a) ==
  r.cluster = 4 /\ adding = NoAdd /\ a # NoAnswer /\ a.payload[1] = Success =>
    LET d == table[r.payload[3]]
        s == Rest(a.payload, 5)
        o == 5 + 2 * s[4]
    IN  Len(d.in) < CountRange /\ Len(d.out) < CountRange =>
          /\ s[1] = d.endpoint /\ FieldAt(s, 2) = d.profile
          /\ FieldsAt(s, 5, s[4]) = d.in /\ FieldsAt(s, o + 1, s[o]) = d.out
          /\ Len(s) = o + 2 * s[o]
          /\ Len(s) < CountRange => a.payload[4] = Len(s)
Right(r, a) ==
  /\ a.cluster \in {0} \cup Responses /\ a.payload \in Bytes
  /\ Answered(r, a) /\ Addressed(r, a) /\ Described(r, a)

LEMMA NoAnswerTypes == NoAnswer.cluster = 0 /\ NoAnswer.payload \in Bytes
BY EmptySeq DEF NoAnswer, Bytes

(* A handler that answers at once keeps the invariant, if its answer is    *)
(* right; a match request it only drops.                                   *)
LEMMA HandleKeeps ==
  ASSUME ZdoInv, NEW r \in Requests, r.cluster < 64, NEW a, Handle(r, a),
         Right(r, a), r.cluster = 6 => a = NoAnswer
  PROVE  ZdoInv'
<1>. USE DEF Handle
<1>1. /\ pc = "idle" /\ pc' = "answered" /\ asked' = r /\ answer' = a
      /\ table' = table /\ adding' = adding /\ given' = given /\ eps' = eps /\ matched' = matched
      /\ calm' = (adding = NoAdd)
  BY DEF match
<1>2. ~Matching /\ ~Matching'
  BY <1>1 DEF Matching
<1>3. TypeOK'
  <2>1. calm' \in BOOLEAN
    BY <1>1
  <2>. QED BY <1>1, <2>1 DEF TypeOK, ZdoInv, Right, Bytes, Responses
<1>4. TableOK'
  BY <1>1 DEF TableOK, ZdoInv, Given
<1>5. RequestOK'
  BY <1>1, <1>2 DEF RequestOK, ZdoInv
<1>6. MatchOK'
  BY <1>2 DEF MatchOK
<1>7. WholeRequestsAreAnswered'
  BY <1>1 DEF WholeRequestsAreAnswered, Right, Answered
<1>8. AddressesReadBack'
  BY <1>1 DEF AddressesReadBack, Right, Addressed
<1>9. DescriptionReadsBack'
  <2>1. Described(r, a)
    BY DEF Right
  <2>. QED BY <1>1, <2>1 DEF DescriptionReadsBack, Described
<1>. QED BY <1>3, <1>4, <1>5, <1>6, <1>7, <1>8, <1>9 DEF ZdoInv

-----------------------------------------------------------------------------
(* The handlers that answer at once.                                       *)

(* The answer to a request that must have one. *)
Due(r) ==
  /\ r \in Whole
  /\ \/ r.cluster \in Unaddressed
     \/ r.cluster \in 2 .. 6 /\ ForUs(r.payload)

LEMMA DueIsForUs ==
  ASSUME NEW r
  PROVE  ForUs(r.payload) <=> r.payload[1] + Byte * r.payload[2] = NwkAddr
<1>1. 1 + 1 = 2
  OBVIOUS
<1>. QED BY <1>1 DEF ForUs, FieldAt

LEMMA DroppedIsRight ==
  ASSUME NEW r \in Requests, ~Due(r)
  PROVE  Right(r, NoAnswer)
<1>1. Answered(r, NoAnswer)
  BY DueIsForUs DEF Answered, Due
<1>2. Addressed(r, NoAnswer) /\ Described(r, NoAnswer)
  BY DEF Addressed, Described
<1>. QED BY <1>1, <1>2, NoAnswerTypes DEF Right

LEMMA AnsweredIsRight ==
  ASSUME NEW r \in Requests, r.cluster < 64, NEW status \in 0 .. Byte - 1, NEW body \in Bytes,
         NEW a, a = Answer(r, status, body),
         Due(r) \/ r.cluster \in Unchecked, Addressed(r, a), Described(r, a)
  PROVE  Right(r, a)
<1>1. r.cluster \in 0 .. 63
  BY RequestTypes
<1>2. /\ a.dst = r.src /\ a.cluster = r.cluster + RspBit
      /\ a.cluster \in Responses /\ a.payload \in Bytes
  BY <1>1, AnswerTypes
<1>3. Answered(r, a)
  BY <1>2, DueIsForUs DEF Answered, Due
<1>. QED BY <1>2, <1>3 DEF Right

(* A status, and nothing more. *)
LEMMA StatusIsRight ==
  ASSUME NEW r \in Requests, r.cluster < 64, NEW status \in 0 .. Byte - 1,
         Due(r) \/ r.cluster \in Unchecked, status = Success => r.cluster \notin 0 .. 1 \cup {4}
  PROVE  Right(r, Answer(r, status, <<>>))
<1>1. PICK a : a = Answer(r, status, <<>>)
  OBVIOUS
<1>2. r.cluster \in 0 .. 63 /\ <<>> \in Bytes
  BY RequestTypes, EmptySeq DEF Bytes
<1>3. a.payload[1] = status
  BY <1>1, <1>2, AnswerTypes
<1>4. Addressed(r, a) /\ Described(r, a)
  BY <1>3 DEF Addressed, Described
<1>. QED BY <1>1, <1>2, <1>4, AnsweredIsRight

LEMMA StatusIsByte == Success \in 0 .. Byte - 1 /\ Failure \in 0 .. Byte - 1 /\ NotActive \in 0 .. Byte - 1
                      /\ Failure # Success /\ NotActive # Success
BY DEF Success, Failure, NotActive, Byte

(* An address request that is answered with the addresses. *)
LEMMA AddressIsRight ==
  ASSUME NEW r \in Requests, r.cluster \in 0 .. 1, Due(r), NEW x \in 0 .. Byte - 1,
         r.cluster = 0 => x = Last(r.payload)
  PROVE  Right(r, Answer(r, Success, ExtAddr \o Me \o <<0, x>>))
<1>. DEFINE body == ExtAddr \o Me \o <<0, x>>
<1>1. PICK a : a = Answer(r, Success, body)
  OBVIOUS
<1>2. r.cluster \in 0 .. 63 /\ r.cluster < 64 /\ r.cluster # 4
  OBVIOUS
<1>3. body \in Bytes
  BY <1>2, AddressLayout
<1>4. LET s == a.payload
      IN  /\ Len(s) = 13 /\ SubSeq(s, 2, 9) = ExtAddr /\ FieldAt(s, 10) = NwkAddr
          /\ s[12] = 0 /\ s[13] = x
  <2>1. LET s == Answer(r, Success, body).payload
        IN  /\ Len(s) = 13 /\ SubSeq(s, 2, 9) = ExtAddr /\ FieldAt(s, 10) = NwkAddr
            /\ s[12] = 0 /\ s[13] = x
    BY <1>2, AddressLayout, SMTT(20)
  <2>. QED BY <1>1, <2>1
<1>. HIDE DEF body
<1>5. Addressed(r, a)
  BY <1>4 DEF Addressed
<1>6. Described(r, a)
  BY <1>2 DEF Described
<1>. QED BY <1>1, <1>2, <1>3, <1>5, <1>6, StatusIsByte, AnsweredIsRight DEF body

LEMMA NetworkAddrReqKeeps ==
  ASSUME ZdoInv, NEW r \in Requests, r.cluster < 64, NetworkAddrReq(r)
  PROVE  ZdoInv'
<1>. DEFINE p == r.payload
<1>1. r.cluster = 0 /\ (Due(r) <=> r \in Whole)
  BY DEF NetworkAddrReq, Due, Unaddressed
<1>2. r \in Whole <=> Len(p) >= 10
  BY <1>1, EnoughIsWhole DEF Enough
<1>3. CASE Len(p) < 10
  <2>1. Handle(r, NoAnswer)
    BY <1>3 DEF NetworkAddrReq
  <2>2. Right(r, NoAnswer)
    BY <1>1, <1>2, <1>3, RequestTypes, DroppedIsRight
  <2>. QED BY <1>1, <2>1, <2>2, HandleKeeps
<1>4. CASE Len(p) >= 10
  <2>1. r \in Whole /\ Due(r)
    BY <1>1, <1>2, <1>4
  <2>2. Len(p) = 10
    BY <1>1, <2>1, WholeAssumption
  <2>3. ~(Len(p) < 10)
    BY <2>2
  <2>4. CASE SubSeq(p, 1, 8) # ExtAddr
    <3>1. Handle(r, Answer(r, Failure, <<>>))
      BY <2>3, <2>4 DEF NetworkAddrReq
    <3>2. Right(r, Answer(r, Failure, <<>>))
      BY <2>1, StatusIsByte, StatusIsRight
    <3>. QED BY <1>1, <3>1, <3>2, HandleKeeps
  <2>5. CASE SubSeq(p, 1, 8) = ExtAddr
    <3>1. Handle(r, Answer(r, Success, ExtAddr \o Me \o <<0, p[10]>>))
      BY <2>3, <2>5 DEF NetworkAddrReq, StartIndex
    <3>2. p[10] \in 0 .. Byte - 1 /\ p[10] = Last(p) /\ r.cluster \in 0 .. 1
      <4>1. 10 \in 1 .. Len(p)
        BY <2>2
      <4>. QED BY <1>1, <2>2, <4>1, RequestTypes DEF Last
    <3>3. Right(r, Answer(r, Success, ExtAddr \o Me \o <<0, p[10]>>))
      BY <1>1, <2>1, <3>2, AddressIsRight
    <3>. QED BY <1>1, <3>1, <3>3, HandleKeeps
  <2>. QED BY <2>4, <2>5
<1>5. Len(p) < 10 \/ Len(p) >= 10
  BY RequestTypes
<1>. QED BY <1>3, <1>4, <1>5

LEMMA IeeeAddrReqKeeps ==
  ASSUME ZdoInv, NEW r \in Requests, r.cluster < 64, IeeeAddrReq(r)
  PROVE  ZdoInv'
<1>. DEFINE p == r.payload
<1>1. r.cluster = 1 /\ (Due(r) <=> r \in Whole)
  BY DEF IeeeAddrReq, Due, Unaddressed
<1>2. r \in Whole <=> Len(p) >= 4
  BY <1>1, EnoughIsWhole DEF Enough
<1>3. CASE Len(p) < 4
  <2>1. Handle(r, NoAnswer)
    BY <1>3 DEF IeeeAddrReq
  <2>2. Right(r, NoAnswer)
    BY <1>1, <1>2, <1>3, RequestTypes, DroppedIsRight
  <2>. QED BY <1>1, <2>1, <2>2, HandleKeeps
<1>4. CASE Len(p) >= 4
  <2>1. r \in Whole /\ Due(r)
    BY <1>1, <1>2, <1>4
  <2>2. Len(p) = 4
    BY <1>1, <2>1, WholeAssumption
  <2>3. ~(Len(p) < 4)
    BY <2>2
  <2>4. CASE ~ForUs(p)
    <3>1. Handle(r, Answer(r, Failure, <<>>))
      BY <2>3, <2>4 DEF IeeeAddrReq
    <3>2. Right(r, Answer(r, Failure, <<>>))
      BY <2>1, StatusIsByte, StatusIsRight
    <3>. QED BY <1>1, <3>1, <3>2, HandleKeeps
  <2>5. CASE ForUs(p)
    <3>1. Handle(r, Answer(r, Success, ExtAddr \o Me \o <<0, p[3]>>))
      BY <2>3, <2>5 DEF IeeeAddrReq
    <3>2. p[3] \in 0 .. Byte - 1 /\ r.cluster \in 0 .. 1 /\ r.cluster # 0
      <4>1. 3 \in 1 .. Len(p)
        BY <2>2
      <4>2. p[3] \in 0 .. Byte - 1
        BY <4>1, RequestTypes
      <4>. QED BY <1>1, <4>2
    <3>3. Right(r, Answer(r, Success, ExtAddr \o Me \o <<0, p[3]>>))
      BY <2>1, <3>2, AddressIsRight
    <3>. QED BY <1>1, <3>1, <3>3, HandleKeeps
  <2>. QED BY <2>4, <2>5
<1>5. Len(p) < 4 \/ Len(p) >= 4
  BY RequestTypes
<1>. QED BY <1>3, <1>4, <1>5

(* The node's and the power descriptor are sent as they were read. *)
LEMMA DescReqKeeps ==
  ASSUME ZdoInv, NEW r \in Requests, r.cluster \in 2 .. 3, NEW descs \in SUBSET (NodeDesc \cup PowerDesc),
         DescReq(r, descs)
  PROVE  ZdoInv'
<1>. DEFINE p == r.payload
<1>1. r.cluster < 64 /\ r.cluster \notin 0 .. 1 /\ r.cluster # 4 /\ r.cluster # 6 /\ r.cluster \in 2 .. 6
  OBVIOUS
<1>2. r \in Whole <=> Len(p) >= 2
  BY <1>1, EnoughIsWhole DEF Enough
<1>3. Due(r) <=> Len(p) >= 2 /\ ForUs(p)
  BY <1>1, <1>2 DEF Due, Unaddressed
<1>4. PICK d \in descs :
        Handle(r, IF Len(p) >= 2 /\ ForUs(p) THEN Answer(r, Success, Me \o d) ELSE NoAnswer)
  BY DEF DescReq
<1>5. CASE Len(p) >= 2 /\ ForUs(p)
  <2>1. Me \o d \in Bytes
    BY ServerConstants, MeIsBytes, ConcatOfBytes
  <2>2. PICK a : a = Answer(r, Success, Me \o d)
    OBVIOUS
  <2>3. Handle(r, a) /\ Due(r)
    BY <1>3, <1>4, <1>5, <2>2
  <2>4. Addressed(r, a) /\ Described(r, a)
    BY <1>1 DEF Addressed, Described
  <2>5. Right(r, a)
    BY <1>1, <2>1, <2>2, <2>3, <2>4, StatusIsByte, AnsweredIsRight
  <2>. QED BY <1>1, <2>3, <2>5, HandleKeeps
<1>6. CASE ~(Len(p) >= 2 /\ ForUs(p))
  <2>1. Handle(r, NoAnswer) /\ ~Due(r)
    BY <1>3, <1>4, <1>6
  <2>. QED BY <1>1, <2>1, DroppedIsRight, HandleKeeps
<1>. QED BY <1>5, <1>6

LEMMA BindReqKeeps ==
  ASSUME ZdoInv, NEW r \in Requests, BindReq(r) \/ UnbindReq(r)
  PROVE  ZdoInv'
<1>1. /\ r.cluster < 64 /\ r.cluster \in Unchecked /\ r.cluster # 6 /\ r.cluster \notin 0 .. 1 \cup {4}
      /\ Handle(r, Answer(r, Success, <<>>))
  BY DEF BindReq, UnbindReq, Unchecked
<1>2. Right(r, Answer(r, Success, <<>>))
  BY <1>1, StatusIsByte, StatusIsRight
<1>. QED BY <1>1, <1>2, HandleKeeps

LEMMA MgmtPermitJoinReqKeeps ==
  ASSUME ZdoInv, NEW r \in Requests, MgmtPermitJoinReq(r)
  PROVE  ZdoInv'
<1>1. /\ r.cluster = 54 /\ r.cluster < 64 /\ r.cluster # 6 /\ r.cluster \notin 0 .. 1 \cup {4}
      /\ Handle(r, IF Len(r.payload) >= 2 THEN Answer(r, Success, <<>>) ELSE NoAnswer)
  BY DEF MgmtPermitJoinReq
<1>2. Due(r) <=> Len(r.payload) >= 2
  <2>1. r \in Whole <=> Len(r.payload) >= 2
    BY <1>1, EnoughIsWhole DEF Enough
  <2>. QED BY <1>1, <2>1 DEF Due, Unaddressed
<1>3. CASE Due(r)
  <2>1. Right(r, Answer(r, Success, <<>>))
    BY <1>1, <1>3, StatusIsByte, StatusIsRight
  <2>. QED BY <1>1, <1>2, <1>3, <2>1, HandleKeeps
<1>4. CASE ~Due(r)
  BY <1>1, <1>2, <1>4, DroppedIsRight, HandleKeeps
<1>. QED BY <1>3, <1>4

LEMMA IgnoredKeeps ==
  ASSUME ZdoInv, NEW r \in Requests, r.cluster < 64, Ignored(r)
  PROVE  ZdoInv'
<1>1. r.cluster \notin 0 .. 6 \cup {33, 34, 54} /\ Handle(r, NoAnswer)
  BY DEF Ignored
<1>2. ~Due(r) /\ r.cluster # 6
  BY <1>1 DEF Due, Unaddressed
<1>. QED BY <1>1, <1>2, DroppedIsRight, HandleKeeps

-----------------------------------------------------------------------------
(* The endpoint table.                                                     *)

(* What a lookup may find: nothing, or something that can be written down; *)
(* what is there, if the table is left alone.                              *)
LEMMA LookupsAreReadable ==
  ASSUME TypeOK, TableOK, NEW e, NEW d \in SimpleDescriptors(e), d # Absent
  PROVE  /\ e \in Endpoint /\ Readable(d)
         /\ adding = NoAdd => d = table[e]
<1>1. e \in Endpoint
  BY DEF SimpleDescriptors
<1>2. \A x \in Descriptor \cup {Blank} : Readable(x)
  <2>1. Readable(Blank)
    <3>1. Blank.endpoint = 0 /\ Blank.profile = 0 /\ Blank.in = <<>> /\ Blank.out = <<>>
      BY DEF Blank
    <3>2. 0 \in 0 .. Byte - 1 /\ 0 \in 0 .. Byte * Byte - 1 /\ <<>> \in Fields16
      BY EmptySeq DEF Byte, Fields16
    <3>. QED BY <3>1, <3>2 DEF Readable
  <2>2. ASSUME NEW x \in Descriptor
        PROVE  Readable(x)
    BY ServerConstants DEF Readable
  <2>. QED BY <2>1, <2>2
<1>3. table[e] \in Descriptor \cup {Absent, Blank}
  BY <1>1 DEF TypeOK
<1>4. ~Growing => d \in IF adding.desc.endpoint = e THEN Mixed(table[e], adding.desc) ELSE {table[e]}
  BY <1>1 DEF SimpleDescriptors
<1>5. d \in IF adding.desc.endpoint = e THEN Mixed(table[e], adding.desc) ELSE {table[e]}
  BY <1>1 DEF SimpleDescriptors
<1>6. adding = NoAdd => adding.desc.endpoint # e
  <2>1. NoAdd.desc.endpoint = Byte
    BY DEF NoAdd, Absent, Blank
  <2>2. Byte \notin Endpoint
    <3>1. Byte \notin 0 .. Byte - 1
      BY DEF Byte
    <3>. QED BY <3>1, ServerConstants
  <2>. QED BY <1>1, <2>1, <2>2
<1>7. CASE adding.desc.endpoint # e
  <2>1. d = table[e]
    BY <1>5, <1>7
  <2>. QED BY <1>1, <1>2, <1>3, <2>1
<1>8. CASE adding.desc.endpoint = e
  <2>1. adding # NoAdd
    BY <1>6, <1>8
  <2>2. adding.desc \in Descriptor /\ table[e] # Absent
    BY <1>8, <2>1 DEF TypeOK, TableOK
  <2>3. Readable(table[e]) /\ Readable(adding.desc)
    BY <1>2, <1>3, <2>2
  <2>4. d \in Mixed(table[e], adding.desc)
    BY <1>5, <1>8
  <2>5. Readable(d)
    BY <2>3, <2>4 DEF Mixed, Readable
  <2>. QED BY <1>1, <2>1, <2>5
<1>. QED BY <1>7, <1>8

(* A simple descriptor, and its length. *)
LEMMA DescriptorIsRight ==
  ASSUME TypeOK, TableOK, NEW r \in Requests, r.cluster = 4, Due(r),
         NEW d \in SimpleDescriptors(r.payload[3]), d # Absent
  PROVE  Right(r, Answer(r, Success, Me \o <<Length(Description(d))>> \o Description(d)))
<1>. DEFINE D == Description(d)
            x == Length(D)
            body == Me \o <<x>> \o D
<1>1. PICK a : a = Answer(r, Success, body)
  OBVIOUS
<1>2. Readable(d) /\ (adding = NoAdd => d = table[r.payload[3]])
  BY LookupsAreReadable
<1>. DEFINE m == Len(d.in)
            n == Len(d.out)
<1>3. /\ D \in Bytes /\ m \in Nat /\ n \in Nat /\ Len(D) = 5 + 2 * m + 2 * n
      /\ D[1] = d.endpoint /\ FieldAt(D, 2) = d.profile
      /\ D[4] = Cut(m) /\ FieldsAt(D, 5, m) = d.in
      /\ D[5 + 2 * m] = Cut(n) /\ FieldsAt(D, 5 + 2 * m + 1, n) = d.out
  BY <1>2, DescriptionLayout
<1>4. m < CountRange => Cut(m) = m
  BY <1>3, CutIsByte
<1>5. n < CountRange => Cut(n) = n
  BY <1>3, CutIsByte
<1>6. x \in 0 .. Byte - 1 /\ (Len(D) < CountRange => x = Len(D))
  <2>1. Len(D) \in Nat
    BY <1>3, BytesHaveLength
  <2>. QED BY <2>1, CutIsByte DEF Length
<1>7. r.cluster \in 0 .. 63 /\ r.cluster < 64 /\ r.cluster \notin 0 .. 1
  OBVIOUS
<1>. HIDE DEF D, x
<1>8. body \in Bytes /\ a.payload[4] = x /\ Rest(a.payload, 5) = D
  BY <1>1, <1>3, <1>6, <1>7, CountedLayout
<1>. HIDE DEF body, m, n
<1>9. Described(r, a)
  <2>. SUFFICES ASSUME adding = NoAdd, m < CountRange, n < CountRange
                PROVE  LET o == 5 + 2 * D[4]
                       IN  /\ D[1] = d.endpoint /\ FieldAt(D, 2) = d.profile
                           /\ FieldsAt(D, 5, D[4]) = d.in /\ FieldsAt(D, o + 1, D[o]) = d.out
                           /\ Len(D) = o + 2 * D[o]
                           /\ Len(D) < CountRange => x = Len(D)
    BY <1>2, <1>8 DEF Described, m, n
  <2>1. D[4] = m /\ D[5 + 2 * m] = n
    BY <1>3, <1>4, <1>5
  <2>. QED BY <1>3, <1>6, <2>1
<1>10. Addressed(r, a)
  BY <1>7 DEF Addressed
<1>. QED BY <1>1, <1>7, <1>8, <1>9, <1>10, StatusIsByte, AnsweredIsRight DEF body, x, D

LEMMA SimpleDescReqKeeps ==
  ASSUME ZdoInv, NEW r \in Requests, SimpleDescReq(r)
  PROVE  ZdoInv'
<1>. DEFINE p == r.payload
<1>1. r.cluster = 4 /\ r.cluster < 64 /\ r.cluster # 6 /\ r.cluster \notin 0 .. 1
      /\ r.cluster \in 2 .. 6 /\ TypeOK /\ TableOK
  BY DEF SimpleDescReq, ZdoInv
<1>2. Due(r) <=> Len(p) >= 3 /\ ForUs(p)
  <2>1. r \in Whole <=> Len(p) >= 3
    BY <1>1, EnoughIsWhole DEF Enough
  <2>. QED BY <1>1, <2>1 DEF Due, Unaddressed
<1>3. CASE Due(r)
  <2>1. PICK d \in SimpleDescriptors(p[3]) :
          Handle(r, IF d = Absent THEN Answer(r, NotActive, Me)
                    ELSE Answer(r, Success, Me \o <<Length(Description(d))>> \o Description(d)))
    BY <1>2, <1>3 DEF SimpleDescReq
  <2>2. CASE d = Absent
    <3>1. PICK a : a = Answer(r, NotActive, Me)
      OBVIOUS
    <3>2. Handle(r, a)
      BY <2>1, <2>2, <3>1
    <3>3. a.payload[1] # Success
      <4>1. r.cluster \in 0 .. 63
        BY <1>1
      <4>. QED BY <3>1, <4>1, MeIsBytes, StatusIsByte, AnswerTypes
    <3>4. Addressed(r, a) /\ Described(r, a)
      BY <3>3 DEF Addressed, Described
    <3>5. Right(r, a)
      BY <1>1, <1>3, <3>1, <3>4, MeIsBytes, StatusIsByte, AnsweredIsRight
    <3>. QED BY <1>1, <3>2, <3>5, HandleKeeps
  <2>3. CASE d # Absent
    <3>. DEFINE a == Answer(r, Success, Me \o <<Length(Description(d))>> \o Description(d))
    <3>1. Handle(r, a)
      BY <2>1, <2>3
    <3>2. Right(r, a)
      BY <1>1, <1>3, <2>3, DescriptorIsRight
    <3>. QED BY <1>1, <3>1, <3>2, HandleKeeps
  <2>. QED BY <2>2, <2>3
<1>4. CASE ~Due(r)
  <2>1. Handle(r, NoAnswer)
    BY <1>2, <1>4 DEF SimpleDescReq
  <2>. QED BY <1>1, <1>4, <2>1, DroppedIsRight, HandleKeeps
<1>. QED BY <1>3, <1>4

(* Sequences of endpoints and the sets of them. *)
LEMMA SetsOfSequences ==
  ASSUME NEW S, NEW s \in Seq(S)
  PROVE  /\ \A x : x \in ToSet(s) <=> \E i \in 1 .. Len(s) : s[i] = x
         /\ ToSet(s) \subseteq S
         /\ \A x \in S : Append(s, x) \in Seq(S) /\ ToSet(Append(s, x)) = ToSet(s) \cup {x}
         /\ s # <<>> =>
              /\ Head(s) \in S /\ Tail(s) \in Seq(S)
              /\ ToSet(s) = {Head(s)} \cup ToSet(Tail(s))
<1>1. \A t \in Seq(S) : \A x : x \in ToSet(t) <=> \E i \in 1 .. Len(t) : t[i] = x
  <2>1. \A t \in Seq(S) : DOMAIN t = 1 .. Len(t)
    BY LenProperties
  <2>. QED BY <2>1 DEF ToSet
<1>2. ToSet(s) \subseteq S
  BY <1>1, ElementOfSeq
<1>3. Len(s) \in Nat
  BY LenProperties
<1>4. ASSUME NEW x \in S
      PROVE  Append(s, x) \in Seq(S) /\ ToSet(Append(s, x)) = ToSet(s) \cup {x}
  <2>. DEFINE t == Append(s, x)
  <2>1. /\ t \in Seq(S) /\ Len(t) = Len(s) + 1
        /\ \A i \in 1 .. Len(s) : t[i] = s[i]
        /\ t[Len(s) + 1] = x
    BY AppendProperties
  <2>. HIDE DEF t
  <2>2. \A y : y \in ToSet(t) <=> \E i \in 1 .. Len(s) + 1 : t[i] = y
    BY <1>1, <2>1
  <2>3. \A i : i \in 1 .. Len(s) + 1 <=> i \in 1 .. Len(s) \/ i = Len(s) + 1
    BY <1>3
  <2>4. \A y : y \in ToSet(t) <=> (\E i \in 1 .. Len(s) : s[i] = y) \/ y = x
    BY <2>1, <2>2, <2>3
  <2>5. ToSet(t) = ToSet(s) \cup {x}
    BY <1>1, <2>4
  <2>. QED BY <2>1, <2>5 DEF t
<1>5. ASSUME s # <<>>
      PROVE  /\ Head(s) \in S /\ Tail(s) \in Seq(S)
             /\ ToSet(s) = {Head(s)} \cup ToSet(Tail(s))
  <2>. DEFINE t == Tail(s)
  <2>1. /\ Head(s) \in S /\ t \in Seq(S) /\ Len(t) = Len(s) - 1
        /\ \A i \in 1 .. Len(t) : t[i] = s[i + 1]
        /\ Len(s) \in Nat \ {0} /\ Head(s) = s[1]
    BY <1>5, HeadTailProperties, EmptySeq
  <2>. HIDE DEF t
  <2>2. \A y : y \in ToSet(t) <=> \E i \in 1 .. Len(t) : s[i + 1] = y
    BY <1>1, <2>1
  <2>3. \A y : y \in ToSet(s) => y = Head(s) \/ y \in ToSet(t)
    <3>1. SUFFICES ASSUME NEW i \in 1 .. Len(s), i # 1
                   PROVE  s[i] \in ToSet(t)
      BY <1>1, <2>1
    <3>2. i - 1 \in 1 .. Len(t) /\ i - 1 + 1 = i
      BY <2>1, <3>1
    <3>. QED BY <2>2, <3>2
  <2>4. \A y : y = Head(s) \/ y \in ToSet(t) => y \in ToSet(s)
    <3>1. \A i \in 1 .. Len(t) : i + 1 \in 1 .. Len(s)
      BY <2>1
    <3>2. 1 \in 1 .. Len(s)
      BY <2>1
    <3>. QED BY <1>1, <2>1, <2>2, <3>1, <3>2
  <2>5. ToSet(s) = {Head(s)} \cup ToSet(t)
    BY <2>3, <2>4
  <2>. QED BY <2>1, <2>5 DEF t
<1>. QED BY <1>1, <1>2, <1>4, <1>5

(* Sequences that name each endpoint once. *)
LEMMA InjectiveSequences ==
  ASSUME NEW S, NEW s \in Seq(S), IsInjective(s)
  PROVE  /\ \A x \in S : x \notin ToSet(s) => IsInjective(Append(s, x))
         /\ s # <<>> => IsInjective(Tail(s)) /\ Head(s) \notin ToSet(Tail(s))
         /\ IsFiniteSet(ToSet(s)) /\ Len(s) = Cardinality(ToSet(s))
<1>1. Len(s) \in Nat /\ DOMAIN s = 1 .. Len(s)
  BY LenProperties
<1>2. \A i, j \in 1 .. Len(s) : s[i] = s[j] => i = j
  BY <1>1 DEF IsInjective
<1>3. ASSUME NEW x \in S, x \notin ToSet(s)
      PROVE  IsInjective(Append(s, x))
  <2>. DEFINE t == Append(s, x)
  <2>1. /\ t \in Seq(S) /\ Len(t) = Len(s) + 1
        /\ \A i \in 1 .. Len(s) : t[i] = s[i]
        /\ t[Len(s) + 1] = x
    BY AppendProperties
  <2>. HIDE DEF t
  <2>2. DOMAIN t = 1 .. Len(s) + 1
    BY <2>1, LenProperties
  <2>3. \A i : i \in 1 .. Len(s) + 1 <=> i \in 1 .. Len(s) \/ i = Len(s) + 1
    BY <1>1
  <2>4. \A i \in 1 .. Len(s) : s[i] # x
    BY <1>3, SetsOfSequences
  <2>5. \A i, j \in 1 .. Len(s) + 1 : t[i] = t[j] => i = j
    BY <1>2, <2>1, <2>3, <2>4
  <2>. QED BY <2>2, <2>5 DEF IsInjective, t
<1>4. ASSUME s # <<>>
      PROVE  IsInjective(Tail(s)) /\ Head(s) \notin ToSet(Tail(s))
  <2>. DEFINE t == Tail(s)
  <2>1. /\ t \in Seq(S) /\ Len(t) = Len(s) - 1
        /\ \A i \in 1 .. Len(t) : t[i] = s[i + 1]
        /\ Len(s) \in Nat \ {0} /\ Head(s) = s[1]
    BY <1>4, HeadTailProperties, EmptySeq
  <2>. HIDE DEF t
  <2>2. DOMAIN t = 1 .. Len(t)
    BY <2>1, LenProperties
  <2>3. \A i \in 1 .. Len(t) : i + 1 \in 1 .. Len(s) /\ i + 1 # 1
    BY <2>1
  <2>4. \A i, j \in 1 .. Len(t) : t[i] = t[j] => i = j
    <3>1. SUFFICES ASSUME NEW i \in 1 .. Len(t), NEW j \in 1 .. Len(t), t[i] = t[j]
                   PROVE  i = j
      OBVIOUS
    <3>2. i + 1 = j + 1
      BY <1>2, <2>1, <2>3, <3>1
    <3>. QED BY <3>2
  <2>5. Head(s) \notin ToSet(t)
    <3>1. 1 \in 1 .. Len(s)
      BY <2>1
    <3>2. \A i \in 1 .. Len(t) : t[i] # Head(s)
      BY <1>2, <2>1, <2>3, <3>1
    <3>. QED BY <2>1, <3>2, SetsOfSequences
  <2>. QED BY <2>2, <2>4, <2>5 DEF IsInjective, t
<1>5. IsFiniteSet(ToSet(s)) /\ Len(s) = Cardinality(ToSet(s))
  <2>. DEFINE D == 1 .. Len(s)
  <2>1. IsFiniteSet(D) /\ Cardinality(D) = Len(s)
    <3>1. 1 \in Int /\ Len(s) \in Int /\ (IF 1 > Len(s) THEN 0 ELSE Len(s) - 1 + 1) = Len(s)
      BY <1>1
    <3>2. IsFiniteSet(D) /\ Cardinality(D) = IF 1 > Len(s) THEN 0 ELSE Len(s) - 1 + 1
      BY <3>1, FS_Interval
    <3>. QED BY <3>1, <3>2
  <2>2. s \in [D -> ToSet(s)]
    BY <1>1, LenProperties, SetsOfSequences
  <2>3. s \in Surjection(D, ToSet(s))
    BY <2>2, SetsOfSequences DEF Surjection
  <2>4. s \in Injection(D, ToSet(s))
    BY <2>2 DEF Injection
  <2>. HIDE DEF D
  <2>5. IsFiniteSet(ToSet(s)) /\ Cardinality(ToSet(s)) = Cardinality(D)
    BY <2>1, <2>3, <2>4, FS_Surjection
  <2>. QED BY <2>1, <2>5
<1>. QED BY <1>3, <1>4, <1>5

(* The lists of endpoints that may be returned; while the table does not   *)
(* grow, each endpoint that is there once.                                 *)
LEMMA ActiveEndpointsAre ==
  ASSUME TypeOK, NEW s \in ActiveEndpoints
  PROVE  /\ s \in Seq(Endpoint)
         /\ adding = NoAdd => IsInjective(s) /\ ToSet(s) = Present
<1>1. Present \subseteq Endpoint /\ IsFiniteSet(Present) /\ Cardinality(Present) \in Nat
  <2>1. Present \in SUBSET Endpoint
    BY DEF Present
  <2>. QED BY <2>1, ServerConstants, FS_Subset, FS_CardinalityType
<1>2. \A m \in Nat : \A t : t \in [1 .. m -> Present] => t \in Seq(Endpoint)
  <2>1. \A m \in Nat : \A t : t \in [1 .. m -> Present] => t \in [1 .. m -> Endpoint]
    BY <1>1
  <2>2. Seq(Endpoint) = UNION {[1 .. m -> Endpoint] : m \in Nat}
    BY SeqDef
  <2>. QED BY <2>1, <2>2
<1>3. CASE Growing
  <2>1. PICK m \in 0 .. Cardinality(Present) + 1 : s \in [1 .. m -> Present]
    BY <1>3 DEF ActiveEndpoints, BoundedSeq, SeqOf
  <2>2. m \in Nat
    BY <1>1
  <2>3. adding # NoAdd
    BY <1>3 DEF Growing, NoAdd
  <2>. QED BY <1>2, <2>1, <2>2, <2>3
<1>4. CASE ~Growing
  <2>. DEFINE D == 1 .. Cardinality(Present)
  <2>1. s \in [D -> Present] /\ \A i, j \in D : i # j => s[i] # s[j]
    BY <1>4 DEF ActiveEndpoints, SetToSeqs
  <2>2. s \in Seq(Endpoint)
    BY <1>1, <1>2, <2>1
  <2>3. DOMAIN s = D
    BY <2>1
  <2>4. IsInjective(s)
    BY <2>1, <2>3 DEF IsInjective
  <2>5. s \in Injection(D, Present)
    BY <2>1, <2>4 DEF Injection
  <2>6. Cardinality(D) = Cardinality(Present)
    BY <1>1, FS_Interval
  <2>. HIDE DEF D
  <2>7. s \in Surjection(D, Present)
    BY <1>1, <2>5, <2>6, FS_Injection
  <2>8. ToSet(s) = Present
    BY <2>1, <2>3, <2>7 DEF Surjection, ToSet
  <2>. QED BY <2>2, <2>4, <2>8
<1>. QED BY <1>3, <1>4

(* A list of endpoints can be sent. *)
LEMMA EndpointsAreBytes ==
  ASSUME NEW r, r.cluster \in 0 .. 63, NEW s \in Seq(Endpoint)
  PROVE  /\ Me \o <<Cut(Len(s))>> \o s \in Bytes
         /\ EndpointList(r, s) = Answer(r, Success, Me \o <<Cut(Len(s))>> \o s)
<1>1. s \in Bytes
  <2>1. Endpoint \subseteq 0 .. Byte - 1
    BY ServerConstants
  <2>. QED BY <2>1, SeqMonotonic DEF Bytes
<1>2. Cut(Len(s)) \in 0 .. Byte - 1
  BY LenProperties, CutIsByte
<1>. QED BY <1>1, <1>2, CountedLayout DEF EndpointList

LEMMA ActiveEPReqKeeps ==
  ASSUME ZdoInv, NEW r \in Requests, ActiveEPReq(r)
  PROVE  ZdoInv'
<1>1. /\ r.cluster = 5 /\ r.cluster < 64 /\ r.cluster # 6 /\ r.cluster \notin 0 .. 1
      /\ r.cluster # 4 /\ r.cluster \in 2 .. 6 /\ r.cluster \in 0 .. 63 /\ TypeOK
  BY DEF ActiveEPReq, ZdoInv
<1>2. Due(r) <=> Len(r.payload) >= 2 /\ ForUs(r.payload)
  <2>1. r \in Whole <=> Len(r.payload) >= 2
    BY <1>1, EnoughIsWhole DEF Enough
  <2>. QED BY <1>1, <2>1 DEF Due, Unaddressed
<1>3. CASE Due(r)
  <2>1. PICK s \in ActiveEndpoints : Handle(r, EndpointList(r, s))
    BY <1>2, <1>3 DEF ActiveEPReq
  <2>. DEFINE body == Me \o <<Cut(Len(s))>> \o s
  <2>2. PICK a : a = Answer(r, Success, body)
    OBVIOUS
  <2>3. body \in Bytes /\ EndpointList(r, s) = a
    BY <1>1, <2>2, ActiveEndpointsAre, EndpointsAreBytes
  <2>. HIDE DEF body
  <2>4. Addressed(r, a) /\ Described(r, a)
    BY <1>1 DEF Addressed, Described
  <2>5. Right(r, a)
    BY <1>1, <1>3, <2>2, <2>3, <2>4, StatusIsByte, AnsweredIsRight
  <2>. QED BY <1>1, <2>1, <2>3, <2>5, HandleKeeps
<1>4. CASE ~Due(r)
  <2>1. Handle(r, NoAnswer)
    BY <1>2, <1>4 DEF ActiveEPReq
  <2>. QED BY <1>1, <1>4, <2>1, DroppedIsRight, HandleKeeps
<1>. QED BY <1>3, <1>4

-----------------------------------------------------------------------------
(* Match requests.                                                         *)

LEMMA MatchesAreFits ==
  ASSUME NEW d, NEW q
  PROVE  Matches(d, q) <=> Fits(d, q)
<1>1. \A wanted, has : Meets(wanted, has) <=> (wanted # <<>> => ToSet(wanted) \cap ToSet(has) # {})
  BY DEF Meets, ToSet
<1>2. Meets(q.in, d.in) <=> (q.in # <<>> => ToSet(q.in) \cap ToSet(d.in) # {})
  BY <1>1
<1>3. Meets(q.out, d.out) <=> (q.out # <<>> => ToSet(q.out) \cap ToSet(d.out) # {})
  BY <1>1
<1>. QED BY <1>2, <1>3 DEF Matches, Fits

LEMMA NothingMatched == IsInjective(<<>>) /\ ToSet(<<>>) = {}
BY DEF IsInjective, ToSet

LEMMA MatchDescReqKeeps ==
  ASSUME ZdoInv, NEW r \in Requests, MatchDescReq(r)
  PROVE  ZdoInv'
<1>1. /\ r.cluster = 6 /\ r.cluster < 64 /\ r.cluster \in 2 .. 6
      /\ TypeOK /\ TableOK
  BY DEF MatchDescReq, ZdoInv
<1>2. Due(r) <=> IsQuery(r.payload) /\ ForUs(r.payload)
  <2>1. r \in Whole <=> IsQuery(r.payload)
    BY <1>1, EnoughIsWhole DEF Enough
  <2>. QED BY <1>1, <2>1 DEF Due, Unaddressed
<1>3. CASE ~Due(r)
  <2>1. Handle(r, NoAnswer)
    BY <1>2, <1>3 DEF MatchDescReq
  <2>. QED BY <1>1, <1>3, <2>1, DroppedIsRight, HandleKeeps
<1>4. CASE Due(r)
  <2>1. /\ pc = "idle" /\ pc' = "match" /\ asked' = r
        /\ eps' \in ActiveEndpoints /\ matched' = <<>> /\ calm' = (adding = NoAdd)
        /\ table' = table /\ adding' = adding /\ given' = given /\ answer' = answer
    BY <1>2, <1>4 DEF MatchDescReq
  <2>2. eps' \in Seq(Endpoint) /\ (adding = NoAdd => IsInjective(eps') /\ ToSet(eps') = Present)
    BY <1>1, <2>1, ActiveEndpointsAre
  <2>3. TypeOK'
    <3>1. calm' \in BOOLEAN
      BY <2>1
    <3>2. matched' \in Seq(Endpoint)
      BY <2>1, EmptySeq
    <3>. QED BY <1>1, <2>1, <2>2, <3>1, <3>2 DEF TypeOK
  <2>4. TableOK'
    BY <1>1, <2>1 DEF TableOK, Given
  <2>5. RequestOK'
    BY <1>1, <1>2, <1>4, <2>1 DEF RequestOK, Matching
  <2>6. MatchOK'
    <3>1. SUFFICES ASSUME adding = NoAdd
                   PROVE  /\ IsInjective(eps') /\ IsInjective(<<>>)
                          /\ \A e \in ToSet(eps') : table[e] # Absent /\ e \notin ToSet(<<>>)
                          /\ ToSet(<<>>) = {e \in Endpoint \ ToSet(eps') :
                                              Fits(table[e], Query(asked'.payload))}
      BY <2>1 DEF MatchOK
    <3>2. IsInjective(eps') /\ ToSet(eps') = Present
      BY <2>2, <3>1
    <3>3. \A e \in Present : table[e] # Absent
      BY DEF Present
    <3>4. \A e \in Endpoint \ Present : ~Fits(table[e], Query(asked'.payload))
      BY DEF Present, Fits
    <3>. QED BY <3>2, <3>3, <3>4, NothingMatched
  <2>7. WholeRequestsAreAnswered' /\ AddressesReadBack' /\ DescriptionReadsBack'
    BY <2>1 DEF WholeRequestsAreAnswered, AddressesReadBack, DescriptionReadsBack
  <2>. QED BY <2>3, <2>4, <2>5, <2>6, <2>7 DEF ZdoInv
<1>. QED BY <1>3, <1>4

(* Left alone, the table gives what is in it. *)
LEMMA CalmLookups ==
  ASSUME TypeOK, adding = NoAdd, NEW e \in Endpoint
  PROVE  SimpleDescriptors(e) = {table[e]}
<1>1. NoAdd.desc.endpoint = Byte /\ NoAdd.new = FALSE
  BY DEF NoAdd, Absent, Blank
<1>2. Byte \notin Endpoint
  <2>1. Byte \notin 0 .. Byte - 1
    BY DEF Byte
  <2>. QED BY <2>1, ServerConstants
<1>3. adding.desc.endpoint # e /\ ~Growing
  BY <1>1, <1>2 DEF Growing
<1>. QED BY <1>3 DEF SimpleDescriptors

LEMMA MatchEndpointKeeps ==
  ASSUME ZdoInv, MatchEndpoint
  PROVE  ZdoInv'
<1>. DEFINE e == Head(eps)
            q == Query(asked.payload)
<1>1. TypeOK /\ TableOK /\ RequestOK /\ MatchOK
  BY DEF ZdoInv
<1>2. /\ pc = "match" /\ eps # <<>> /\ eps' = Tail(eps)
      /\ table' = table /\ adding' = adding /\ given' = given /\ pc' = pc /\ asked' = asked
      /\ answer' = answer /\ calm' = calm
      /\ \E d \in SimpleDescriptors(e) :
           matched' = IF Matches(d, q) THEN Append(matched, e) ELSE matched
  BY DEF MatchEndpoint
<1>3. eps \in Seq(Endpoint) /\ matched \in Seq(Endpoint)
  BY <1>1 DEF TypeOK
<1>4. /\ e \in Endpoint /\ Tail(eps) \in Seq(Endpoint)
      /\ ToSet(eps) = {e} \cup ToSet(Tail(eps)) /\ ToSet(eps) \subseteq Endpoint
  BY <1>2, <1>3, SetsOfSequences
<1>5. /\ Append(matched, e) \in Seq(Endpoint)
      /\ ToSet(Append(matched, e)) = ToSet(matched) \cup {e}
  BY <1>3, <1>4, SetsOfSequences
<1>. HIDE DEF e, q
<1>6. TypeOK'
  <2>1. matched' \in Seq(Endpoint) /\ eps' \in Seq(Endpoint)
    BY <1>2, <1>3, <1>4, <1>5
  <2>. QED BY <1>1, <1>2, <2>1 DEF TypeOK
<1>7. TableOK'
  BY <1>1, <1>2 DEF TableOK, Given
<1>8. Matching /\ Matching'
  BY <1>2 DEF Matching
<1>9. RequestOK'
  BY <1>1, <1>2, <1>8 DEF RequestOK
<1>10. MatchOK'
  <2>1. SUFFICES ASSUME calm
                 PROVE  /\ IsInjective(eps') /\ IsInjective(matched')
                        /\ \A x \in ToSet(eps') : table[x] # Absent /\ x \notin ToSet(matched')
                        /\ ToSet(matched') = {x \in Endpoint \ ToSet(eps') : Fits(table[x], q)}
    BY <1>2, <1>8 DEF MatchOK, q
  <2>2. /\ IsInjective(eps) /\ IsInjective(matched)
        /\ \A x \in ToSet(eps) : table[x] # Absent /\ x \notin ToSet(matched)
        /\ ToSet(matched) = {x \in Endpoint \ ToSet(eps) : Fits(table[x], q)}
    BY <1>1, <1>8, <2>1 DEF MatchOK, q
  <2>3. IsInjective(eps') /\ e \notin ToSet(eps') /\ ToSet(eps) = {e} \cup ToSet(eps')
    BY <1>2, <1>3, <1>4, <2>2, InjectiveSequences DEF e
  <2>4. adding = NoAdd
    BY <1>1, <1>2, <2>1 DEF TableOK
  <2>5. matched' = IF Fits(table[e], q) THEN Append(matched, e) ELSE matched
    BY <1>1, <1>2, <1>4, <2>4, CalmLookups, MatchesAreFits
  <2>6. e \notin ToSet(matched) /\ IsInjective(Append(matched, e))
    BY <1>3, <1>4, <2>2, InjectiveSequences
  <2>7. IsInjective(matched')
    BY <2>2, <2>5, <2>6
  <2>8. ToSet(matched') = IF Fits(table[e], q) THEN ToSet(matched) \cup {e} ELSE ToSet(matched)
    BY <1>5, <2>5
  <2>9. \A x \in ToSet(eps') : table[x] # Absent /\ x \notin ToSet(matched')
    BY <2>2, <2>3, <2>8
  <2>10. \A x \in Endpoint : x \notin ToSet(eps') <=> x \notin ToSet(eps) \/ x = e
    BY <2>3
  <2>11. \A x : x \in ToSet(matched) <=> x \in Endpoint /\ x \notin ToSet(eps) /\ Fits(table[x], q)
    BY <2>2
  <2>12. \A x : x \in ToSet(matched') <=> x \in Endpoint /\ x \notin ToSet(eps') /\ Fits(table[x], q)
    <3>1. CASE Fits(table[e], q)
      <4>1. \A x : x \in ToSet(matched') <=> x \in ToSet(matched) \/ x = e
        BY <2>8, <3>1
      <4>. QED BY <1>4, <2>10, <2>11, <3>1, <4>1
    <3>2. CASE ~Fits(table[e], q)
      <4>1. \A x : x \in ToSet(matched') <=> x \in ToSet(matched)
        BY <2>8, <3>2
      <4>. QED BY <1>4, <2>10, <2>11, <3>2, <4>1
    <3>. QED BY <3>1, <3>2
  <2>13. ToSet(matched') = {x \in Endpoint \ ToSet(eps') : Fits(table[x], q)}
    BY <2>12
  <2>. QED BY <2>3, <2>7, <2>9, <2>13
<1>11. WholeRequestsAreAnswered' /\ AddressesReadBack' /\ DescriptionReadsBack'
  BY <1>2 DEF WholeRequestsAreAnswered, AddressesReadBack, DescriptionReadsBack
<1>. QED BY <1>6, <1>7, <1>9, <1>10, <1>11 DEF ZdoInv

LEMMA MatchAnswerKeeps ==
  ASSUME ZdoInv, MatchAnswer
  PROVE  ZdoInv'
<1>1. TypeOK /\ TableOK /\ RequestOK /\ MatchOK
  BY DEF ZdoInv
<1>2. /\ pc = "match" /\ pc' = "answered" /\ eps = <<>> /\ eps' = eps /\ matched' = matched
      /\ table' = table /\ adding' = adding /\ given' = given /\ asked' = asked /\ calm' = calm
      /\ answer' = EndpointList(asked, matched)
  BY DEF MatchAnswer, match
<1>3. /\ asked \in Requests /\ asked.cluster = 6 /\ asked.cluster < 64
      /\ IsQuery(asked.payload) /\ ForUs(asked.payload)
  BY <1>1, <1>2 DEF RequestOK, Matching
<1>. DEFINE body == Me \o <<Cut(Len(matched))>> \o matched
<1>4. PICK a : a = Answer(asked, Success, body)
  OBVIOUS
<1>5. asked.cluster \in 0 .. 63 /\ asked.cluster \in 2 .. 6
      /\ asked.cluster \notin 0 .. 1 /\ asked.cluster # 4
  BY <1>3
<1>6. matched \in Seq(Endpoint)
  BY <1>1 DEF TypeOK
<1>7. body \in Bytes /\ answer' = a
  BY <1>2, <1>4, <1>5, <1>6, EndpointsAreBytes
<1>. HIDE DEF body
<1>8. Due(asked)
  <2>1. asked \in Whole <=> IsQuery(asked.payload)
    BY <1>3, <1>5, EnoughIsWhole DEF Enough
  <2>. QED BY <1>3, <1>5, <2>1 DEF Due
<1>9. Right(asked, a)
  <2>1. Addressed(asked, a) /\ Described(asked, a)
    BY <1>5 DEF Addressed, Described
  <2>. QED BY <1>3, <1>4, <1>7, <1>8, <2>1, StatusIsByte, AnsweredIsRight
<1>10. a # NoAnswer
  BY <1>4, <1>5, <1>7, StatusIsByte, AnswerTypes
<1>11. Matching /\ Matching'
  BY <1>2, <1>3, <1>7, <1>10 DEF Matching
<1>12. TypeOK'
  BY <1>1, <1>2, <1>7, <1>9 DEF TypeOK, Right, Bytes, Responses
<1>13. TableOK'
  BY <1>1, <1>2 DEF TableOK, Given
<1>14. RequestOK'
  BY <1>1, <1>2, <1>3, <1>11 DEF RequestOK
<1>15. MatchOK'
  BY <1>1, <1>2, <1>11 DEF MatchOK
<1>16. WholeRequestsAreAnswered'
  BY <1>2, <1>7, <1>9 DEF WholeRequestsAreAnswered, Right, Answered
<1>17. AddressesReadBack' /\ DescriptionReadsBack'
  BY <1>2, <1>5 DEF AddressesReadBack, DescriptionReadsBack
<1>. QED BY <1>12, <1>13, <1>14, <1>15, <1>16, <1>17 DEF ZdoInv

LEMMA ReturnsKeeps ==
  ASSUME ZdoInv, Returns
  PROVE  ZdoInv'
<1>1. /\ pc' = "idle" /\ asked' = NoRequest /\ answer' = NoAnswer /\ eps' = <<>> /\ matched' = <<>>
      /\ calm' = TRUE /\ table' = table /\ adding' = adding /\ given' = given
      /\ TypeOK /\ TableOK
  BY DEF Returns, ZdoInv
<1>2. ~Matching'
  BY <1>1 DEF Matching
<1>3. TypeOK'
  BY <1>1, EmptySeq, NoAnswerTypes DEF TypeOK, Bytes
<1>4. TableOK' /\ RequestOK' /\ MatchOK'
  BY <1>1, <1>2 DEF TableOK, Given, RequestOK, MatchOK
<1>5. WholeRequestsAreAnswered' /\ AddressesReadBack' /\ DescriptionReadsBack'
  BY <1>1 DEF WholeRequestsAreAnswered, AddressesReadBack, DescriptionReadsBack
<1>. QED BY <1>3, <1>4, <1>5 DEF ZdoInv

-----------------------------------------------------------------------------
(* The application.                                                        *)

LEMMA NotDescriptors ==
  /\ Absent \notin Descriptor /\ Blank # Absent
  /\ NoAdd \notin [desc : Descriptor, new : BOOLEAN]
<1>1. Absent.endpoint = Byte /\ Blank.endpoint = 0 /\ Byte # 0 /\ NoAdd.desc = Absent
  BY DEF Absent, Blank, Byte, NoAdd
<1>2. Absent \notin Descriptor
  <2>1. Byte \notin 0 .. Byte - 1
    BY DEF Byte
  <2>. QED BY <1>1, <2>1, ServerConstants
<1>. QED BY <1>1, <1>2

(* What the table does not change for, or what is no longer calm.          *)
LEMMA AppKeeps ==
  ASSUME ZdoInv, TypeOK', TableOK', UNCHANGED <<pc, asked, answer, match>>,
         calm' = FALSE \/ (calm' = calm /\ adding # NoAdd)
  PROVE  ZdoInv'
<1>1. /\ pc' = pc /\ asked' = asked /\ answer' = answer /\ eps' = eps /\ matched' = matched
      /\ TableOK /\ RequestOK
  BY DEF match, ZdoInv
<1>2. pc # "idle" => ~calm'
  BY <1>1 DEF TableOK
<1>3. RequestOK'
  BY <1>1 DEF RequestOK, Matching
<1>4. MatchOK'
  BY <1>1, <1>2 DEF MatchOK, Matching
<1>5. WholeRequestsAreAnswered' /\ AddressesReadBack'
  BY <1>1 DEF WholeRequestsAreAnswered, AddressesReadBack, ZdoInv
<1>6. DescriptionReadsBack'
  BY <1>1, <1>2 DEF DescriptionReadsBack
<1>. QED BY <1>3, <1>4, <1>5, <1>6 DEF ZdoInv

LEMMA EnterEndpointKeeps ==
  ASSUME ZdoInv, NEW d \in Descriptor, EnterEndpoint(d)
  PROVE  ZdoInv'
<1>. DEFINE e == d.endpoint
<1>1. /\ adding = NoAdd /\ given' = given \cup {d} /\ calm' = FALSE
      /\ adding' = [desc |-> d, new |-> table[e] = Absent]
      /\ table' = IF adding'.new THEN [table EXCEPT ![e] = Blank] ELSE table
      /\ UNCHANGED <<pc, asked, answer, match>>
      /\ TypeOK /\ TableOK
  BY DEF EnterEndpoint, ZdoInv
<1>2. e \in Endpoint
  BY ServerConstants
<1>. HIDE DEF e
<1>3. (table[e] = Absent) \in BOOLEAN
  OBVIOUS
<1>4. adding' \in [desc : Descriptor, new : BOOLEAN] /\ adding'.desc = d
  BY <1>1, <1>3
<1>5. adding'.new <=> table[e] = Absent
  BY <1>1
<1>6. table \in [Endpoint -> Descriptor \cup {Absent, Blank}]
  BY <1>1 DEF TypeOK
<1>7. /\ table' \in [Endpoint -> Descriptor \cup {Absent, Blank}]
      /\ table'[e] # Absent
      /\ \A x \in Endpoint : table'[x] = table[x] \/ table'[x] = Blank
  <2>1. CASE adding'.new
    <3>1. table' = [table EXCEPT ![e] = Blank]
      BY <1>1, <2>1
    <3>. QED BY <1>2, <1>6, <3>1, NotDescriptors
  <2>2. CASE ~adding'.new
    <3>1. table' = table
      BY <1>1, <2>2
    <3>. QED BY <1>5, <1>6, <2>2, <3>1
  <2>. QED BY <2>1, <2>2
<1>8. TypeOK'
  <2>. TypeOK
    BY <1>1, Zenon
  <2>1. given \subseteq Descriptor
    BY DEF TypeOK
  <2>2. given' = given \cup {d} /\ calm' = FALSE
    BY <1>1, Zenon
  <2>3. given' \subseteq Descriptor /\ calm' \in BOOLEAN
    BY <2>1, <2>2
  <2>4. /\ pc' = pc /\ asked' = asked /\ answer' = answer /\ eps' = eps /\ matched' = matched
    BY <1>1, Zenon DEF match
  <2>5. adding' \in [desc : Descriptor, new : BOOLEAN] \cup {NoAdd}
    BY <1>4
  <2>6. /\ pc \in {"idle", "match", "answered"}
        /\ asked \in Requests \cup {NoRequest}
        /\ answer.cluster \in {0} \cup 32768 .. 32831 /\ answer.payload \in Seq(0 .. Byte - 1)
        /\ eps \in Seq(Endpoint) /\ matched \in Seq(Endpoint)
    BY DEF TypeOK
  <2>. QED BY <1>7, <2>3, <2>4, <2>5, <2>6 DEF TypeOK
<1>9. TableOK'
  <2>1. IsFiniteSet(given')
    BY <1>1, FS_AddElement DEF TableOK
  <2>2. \A x \in Endpoint : table'[x] \in {Absent, Blank} \cup Given(x)'
    <3>1. \A x : Given(x) \subseteq Given(x)'
      BY <1>1 DEF Given
    <3>. QED BY <1>1, <1>7, <3>1 DEF TableOK
  <2>3. adding'.desc \in given' /\ table'[adding'.desc.endpoint] # Absent
    BY <1>1, <1>4, <1>7 DEF e
  <2>4. ~calm'
    BY <1>1
  <2>. QED BY <2>1, <2>2, <2>3, <2>4 DEF TableOK
<1>. QED BY <1>1, <1>8, <1>9, AppKeeps

LEMMA AssignEndpointKeeps ==
  ASSUME ZdoInv, AssignEndpoint
  PROVE  ZdoInv'
<1>. DEFINE d == adding.desc
            e == d.endpoint
<1>1. /\ adding # NoAdd /\ adding' = NoAdd /\ given' = given /\ calm' = calm
      /\ table' = [table EXCEPT ![e] = d]
      /\ UNCHANGED <<pc, asked, answer, match>>
      /\ TypeOK /\ TableOK
  BY DEF AssignEndpoint, ZdoInv
<1>2. d \in Descriptor /\ d \in given
  BY <1>1 DEF TypeOK, TableOK
<1>3. e \in Endpoint
  BY <1>2, ServerConstants
<1>4. table \in [Endpoint -> Descriptor \cup {Absent, Blank}]
  BY <1>1 DEF TypeOK
<1>. HIDE DEF d
<1>5. /\ table' \in [Endpoint -> Descriptor \cup {Absent, Blank}]
      /\ table'[e] = d
      /\ \A x \in Endpoint : x # e => table'[x] = table[x]
  BY <1>1, <1>2, <1>3, <1>4
<1>6. TypeOK'
  BY <1>1, <1>5 DEF TypeOK, match
<1>7. TableOK'
  <2>1. \A x : Given(x)' = Given(x)
    BY <1>1 DEF Given
  <2>2. d \in Given(e)
    BY <1>2 DEF Given
  <2>3. \A x \in Endpoint : table'[x] \in {Absent, Blank} \cup Given(x)'
    BY <1>1, <1>5, <2>1, <2>2 DEF TableOK
  <2>. QED BY <1>1, <2>3 DEF TableOK
<1>. QED BY <1>1, <1>6, <1>7, AppKeeps

-----------------------------------------------------------------------------
(* The invariant.                                                          *)

LEMMA ZdoInvInit == Init => ZdoInv
<1>. SUFFICES ASSUME Init
              PROVE  ZdoInv
  OBVIOUS
<1>. USE DEF Init
<1>1. TypeOK
  BY EmptySeq, NoAnswerTypes DEF TypeOK, Bytes
<1>2. TableOK
  BY FS_EmptySet DEF TableOK
<1>3. RequestOK /\ MatchOK
  BY DEF RequestOK, MatchOK, Matching
<1>4. WholeRequestsAreAnswered /\ AddressesReadBack /\ DescriptionReadsBack
  BY DEF WholeRequestsAreAnswered, AddressesReadBack, DescriptionReadsBack
<1>. QED BY <1>1, <1>2, <1>3, <1>4 DEF ZdoInv

LEMMA ApsIndicationKeeps ==
  ASSUME ZdoInv, NEW r \in Requests, ApsIndication(r)
  PROVE  ZdoInv'
<1>1. r.cluster < 64 /\ HandleZdoFrame(r)
  BY DEF ApsIndication
<1>2. CASE NetworkAddrReq(r)
  BY <1>1, <1>2, NetworkAddrReqKeeps
<1>3. CASE IeeeAddrReq(r)
  BY <1>1, <1>3, IeeeAddrReqKeeps
<1>4. CASE NodeDescReq(r)
  <2>1. r.cluster \in 2 .. 3 /\ DescReq(r, NodeDesc) /\ NodeDesc \in SUBSET (NodeDesc \cup PowerDesc)
    BY <1>4 DEF NodeDescReq
  <2>. QED BY <2>1, DescReqKeeps
<1>5. CASE PowerDescReq(r)
  <2>1. r.cluster \in 2 .. 3 /\ DescReq(r, PowerDesc) /\ PowerDesc \in SUBSET (NodeDesc \cup PowerDesc)
    BY <1>5 DEF PowerDescReq
  <2>. QED BY <2>1, DescReqKeeps
<1>6. CASE SimpleDescReq(r)
  BY <1>6, SimpleDescReqKeeps
<1>7. CASE ActiveEPReq(r)
  BY <1>7, ActiveEPReqKeeps
<1>8. CASE MatchDescReq(r)
  BY <1>8, MatchDescReqKeeps
<1>9. CASE BindReq(r) \/ UnbindReq(r)
  BY <1>9, BindReqKeeps
<1>10. CASE MgmtPermitJoinReq(r)
  BY <1>10, MgmtPermitJoinReqKeeps
<1>11. CASE Ignored(r)
  BY <1>1, <1>11, IgnoredKeeps
<1>. QED
  BY <1>1, <1>2, <1>3, <1>4, <1>5, <1>6, <1>7, <1>8, <1>9, <1>10, <1>11 DEF HandleZdoFrame

LEMMA ZdoInvStutters ==
  ASSUME ZdoInv, UNCHANGED vars
  PROVE  ZdoInv'
<1>1. /\ table' = table /\ adding' = adding /\ given' = given /\ pc' = pc /\ asked' = asked
      /\ answer' = answer /\ eps' = eps /\ matched' = matched /\ calm' = calm
  BY DEF vars, match
<1>2. TypeOK' /\ TableOK' /\ RequestOK' /\ MatchOK'
  BY <1>1 DEF ZdoInv, TypeOK, TableOK, Given, RequestOK, Matching, MatchOK
<1>3. WholeRequestsAreAnswered' /\ AddressesReadBack' /\ DescriptionReadsBack'
  BY <1>1 DEF ZdoInv, WholeRequestsAreAnswered, AddressesReadBack, DescriptionReadsBack
<1>. QED BY <1>2, <1>3 DEF ZdoInv

LEMMA ZdoInvStep == ZdoInv /\ [Next]_vars => ZdoInv'
<1>. SUFFICES ASSUME ZdoInv, [Next]_vars
              PROVE  ZdoInv'
  OBVIOUS
<1>1. ASSUME NEW d \in Descriptor, EnterEndpoint(d)
      PROVE  ZdoInv'
  BY <1>1, EnterEndpointKeeps
<1>2. CASE AssignEndpoint
  BY <1>2, AssignEndpointKeeps
<1>3. ASSUME NEW r \in Requests, ApsIndication(r)
      PROVE  ZdoInv'
  BY <1>3, ApsIndicationKeeps
<1>4. CASE MatchEndpoint
  BY <1>4, MatchEndpointKeeps
<1>5. CASE MatchAnswer
  BY <1>5, MatchAnswerKeeps
<1>6. CASE Returns
  BY <1>6, ReturnsKeeps
<1>7. CASE UNCHANGED vars
  BY <1>7, ZdoInvStutters
<1>. QED BY <1>1, <1>2, <1>3, <1>4, <1>5, <1>6, <1>7 DEF Next, AppStep, RxStep

LEMMA ZdoInvAlways == Spec => []ZdoInv
BY ZdoInvInit, ZdoInvStep, PTL DEF Spec

(* Every answer is made of bytes and goes to the cluster of a response,    *)
(* however lookups and a growing table mix.                                *)
THEOREM ServerTypeCorrect == Spec => []TypeOK
<1>1. ZdoInv => TypeOK
  BY DEF ZdoInv
<1>. QED BY <1>1, ZdoInvAlways, PTL

(* A request is answered just when it arrives whole, is for this node and  *)
(* has a handler; to who asked, with the cluster of its answer.            *)
THEOREM WholeRequestsAlwaysAnswered == Spec => []WholeRequestsAreAnswered
<1>1. ZdoInv => WholeRequestsAreAnswered
  BY DEF ZdoInv
<1>. QED BY <1>1, ZdoInvAlways, PTL

(* The addresses, the start index of a network address response, and in a  *)
(* table that is left alone a descriptor with fewer than CountRange        *)
(* clusters in each list, are read back from the response.                 *)
THEOREM ResponsesAlwaysReadBack == Spec => []ResponsesReadBack
<1>1. ZdoInv => ResponsesReadBack
  BY DEF ZdoInv, ResponsesReadBack
<1>. QED BY <1>1, ZdoInvAlways, PTL

-----------------------------------------------------------------------------
(* Match responses.                                                        *)

LEMMA MatchesAreAlwaysComplete == ZdoInv => MatchesAreComplete
<1>. SUFFICES ASSUME ZdoInv, pc = "answered", asked.cluster = 6, calm, answer # NoAnswer
              PROVE  /\ ToSet(matched) = {e \in Endpoint : Fits(table[e], Query(asked.payload))}
                     /\ Len(matched) = Cardinality(ToSet(matched))
  BY DEF MatchesAreComplete
<1>1. TypeOK /\ RequestOK /\ MatchOK
  BY DEF ZdoInv
<1>2. eps = <<>> /\ matched \in Seq(Endpoint)
  BY <1>1 DEF RequestOK, TypeOK
<1>3. /\ IsInjective(matched)
      /\ ToSet(matched) = {e \in Endpoint \ ToSet(eps) : Fits(table[e], Query(asked.payload))}
  BY <1>1 DEF MatchOK, Matching
<1>4. Len(matched) = Cardinality(ToSet(matched))
  BY <1>2, <1>3, InjectiveSequences
<1>5. Endpoint \ ToSet(eps) = Endpoint
  BY <1>2, NothingMatched
<1>. QED BY <1>3, <1>4, <1>5

LEMMA TwoAreMoreThanOne ==
  ASSUME NEW S, IsFiniteSet(S), NEW x \in S, NEW y \in S, x # y
  PROVE  Cardinality(S) > 1
<1>. DEFINE T == {x} \cup {y}
<1>1. IsFiniteSet({x}) /\ Cardinality({x}) = 1
  BY FS_Singleton
<1>2. IsFiniteSet(T) /\ Cardinality(T) = 1 + 1
  <2>1. y \notin {x}
    OBVIOUS
  <2>. QED BY <1>1, <2>1, FS_AddElement
<1>3. Cardinality(T) <= Cardinality(S) /\ Cardinality(S) \in Nat
  <2>1. T \in SUBSET S
    OBVIOUS
  <2>. QED BY <2>1, FS_Subset, FS_CardinalityType
<1>. HIDE DEF T
<1>. QED BY <1>2, <1>3

(* What a lookup finds to match is matched by a descriptor that was given, *)
(* unless there are two, of which it may have found a part each.           *)
LEMMA LookupsAreReal ==
  ASSUME TypeOK, TableOK, NEW e \in Endpoint, NEW d \in SimpleDescriptors(e), NEW q,
         q.profile # 0, Fits(d, q)
  PROVE  Cardinality(Given(e)) > 1 \/ \E x \in Given(e) : Fits(x, q)
<1>1. d # Absent /\ d.profile = q.profile
  BY DEF Fits
<1>2. Blank.profile = 0 /\ Blank.in = <<>> /\ Blank.out = <<>>
  BY DEF Blank
<1>3. table[e] \in {Absent, Blank} \cup Given(e)
  BY DEF TableOK
<1>4. d \in IF adding.desc.endpoint = e THEN Mixed(table[e], adding.desc) ELSE {table[e]}
  BY <1>1 DEF SimpleDescriptors
<1>5. CASE adding.desc.endpoint # e
  <2>1. d = table[e]
    BY <1>4, <1>5
  <2>2. d \in Given(e)
    BY <1>1, <1>2, <1>3, <2>1
  <2>. QED BY <2>2
<1>6. CASE adding.desc.endpoint = e
  <2>. DEFINE g == adding.desc
              t == table[e]
  <2>1. adding # NoAdd
    <3>1. NoAdd.desc.endpoint = Byte
      BY DEF NoAdd, Absent, Blank
    <3>2. Byte \notin 0 .. Byte - 1
      BY DEF Byte
    <3>. QED BY <1>6, <3>1, <3>2, ServerConstants
  <2>2. g \in given /\ g \in Given(e) /\ t # Absent
    BY <1>6, <2>1 DEF TableOK, Given
  <2>3. g \in Descriptor
    BY <2>1 DEF TypeOK
  <2>4. d \in Mixed(t, g)
    BY <1>4, <1>6
  <2>. HIDE DEF g, t
  <2>5. d.profile \in {t.profile, g.profile} /\ d.in \in {t.in, g.in} /\ d.out \in {t.out, g.out}
    BY <2>4 DEF Mixed
  <2>6. CASE t \in Given(e) /\ t # g
    <3>1. IsFiniteSet(Given(e))
      <4>1. Given(e) \in SUBSET given /\ IsFiniteSet(given)
        BY DEF Given, TableOK
      <4>. QED BY <4>1, FS_Subset
    <3>. QED BY <2>2, <2>6, <3>1, TwoAreMoreThanOne
  <2>7. CASE t = Blank \/ t = g
    <3>1. g # Absent
      BY <2>3, NotDescriptors
    <3>2. g.profile = q.profile
      BY <1>1, <1>2, <2>5, <2>7
    <3>3. d.in = <<>> \/ d.in = g.in
      BY <1>2, <2>5, <2>7
    <3>4. d.out = <<>> \/ d.out = g.out
      BY <1>2, <2>5, <2>7
    <3>5. q.in # <<>> => ToSet(q.in) \cap ToSet(g.in) # {}
      BY <3>3, NothingMatched DEF Fits
    <3>6. q.out # <<>> => ToSet(q.out) \cap ToSet(g.out) # {}
      BY <3>4, NothingMatched DEF Fits
    <3>7. Fits(g, q)
      BY <3>1, <3>2, <3>5, <3>6 DEF Fits
    <3>. QED BY <2>2, <3>7
  <2>8. t \in Given(e) \/ t = Blank
    BY <1>3, <2>2 DEF t
  <2>. QED BY <2>6, <2>7, <2>8
<1>. QED BY <1>5, <1>6

(* A descriptor that was given stays given. *)
LEMMA RealStays ==
  ASSUME MatchesAreReal, TableOK', given \subseteq given', asked' = asked, matched' = matched
  PROVE  MatchesAreReal'
<1>. SUFFICES ASSUME asked.cluster = 6, NEW e \in ToSet(matched)
              PROVE  Cardinality(Given(e)') > 1 \/ \E d \in Given(e)' : Fits(d, Query(asked.payload))
  BY DEF MatchesAreReal, Given
<1>1. Cardinality(Given(e)) > 1 \/ \E d \in Given(e) : Fits(d, Query(asked.payload))
  BY DEF MatchesAreReal, Given
<1>2. Given(e) \in SUBSET (Given(e)')
  BY DEF Given
<1>3. IsFiniteSet(Given(e)')
  <2>1. Given(e)' \in SUBSET given' /\ IsFiniteSet(given')
    BY DEF Given, TableOK
  <2>. QED BY <2>1, FS_Subset
<1>4. /\ Cardinality(Given(e)) <= Cardinality(Given(e)')
      /\ Cardinality(Given(e)) \in Nat /\ Cardinality(Given(e)') \in Nat
  BY <1>2, <1>3, FS_Subset, FS_CardinalityType
<1>5. CASE Cardinality(Given(e)) > 1
  <2>1. \A m, n \in Nat : m > 1 /\ m <= n => n > 1
    OBVIOUS
  <2>. QED BY <1>4, <1>5, <2>1
<1>6. CASE \E d \in Given(e) : Fits(d, Query(asked.payload))
  BY <1>2, <1>6
<1>. QED BY <1>1, <1>5, <1>6

(* A match request that names a profile other than 0. *)
LEMMA QueriesNameProfiles ==
  ASSUME AsksForProfiles, ZdoInv, Matching
  PROVE  Query(asked.payload).profile # 0
<1>1. asked \in Requests /\ asked.cluster = 6 /\ IsQuery(asked.payload)
  BY DEF ZdoInv, RequestOK, Matching
<1>2. asked \in Whole
  <2>1. asked.cluster \in 0 .. 6 \cup {54} /\ Enough(asked)
    BY <1>1 DEF Enough
  <2>. QED BY <1>1, <2>1, EnoughIsWhole
<1>3. FieldAt(asked.payload, 3) # 0
  BY <1>1, <1>2 DEF AsksForProfiles
<1>. QED BY <1>3 DEF Query

LEMMA MatchEndpointIsReal ==
  ASSUME AsksForProfiles, ZdoInv, MatchesAreReal, MatchEndpoint
  PROVE  MatchesAreReal'
<1>. DEFINE e == Head(eps)
            q == Query(asked.payload)
<1>1. TypeOK /\ TableOK
  BY DEF ZdoInv
<1>2. /\ pc = "match" /\ eps # <<>> /\ given' = given /\ asked' = asked
      /\ \E d \in SimpleDescriptors(e) :
           matched' = IF Matches(d, q) THEN Append(matched, e) ELSE matched
  BY DEF MatchEndpoint
<1>3. eps \in Seq(Endpoint) /\ matched \in Seq(Endpoint)
  BY <1>1 DEF TypeOK
<1>4. e \in Endpoint
  BY <1>2, <1>3, SetsOfSequences
<1>5. ToSet(Append(matched, e)) = ToSet(matched) \cup {e}
  BY <1>3, <1>4, SetsOfSequences
<1>6. q.profile # 0
  BY <1>2, QueriesNameProfiles DEF Matching
<1>. HIDE DEF e, q
<1>7. PICK d \in SimpleDescriptors(e) :
        matched' = IF Fits(d, q) THEN Append(matched, e) ELSE matched
  BY <1>2, MatchesAreFits
<1>8. asked.cluster = 6 =>
        \A x \in ToSet(matched) : Cardinality(Given(x)) > 1 \/ \E y \in Given(x) : Fits(y, q)
  BY DEF MatchesAreReal, Given, q
<1>9. Fits(d, q) => Cardinality(Given(e)) > 1 \/ \E y \in Given(e) : Fits(y, q)
  BY <1>1, <1>4, <1>6, LookupsAreReal
<1>10. asked.cluster = 6 =>
        \A x \in ToSet(matched') : Cardinality(Given(x)) > 1 \/ \E y \in Given(x) : Fits(y, q)
  <2>1. CASE Fits(d, q)
    BY <1>5, <1>7, <1>8, <1>9, <2>1
  <2>2. CASE ~Fits(d, q)
    BY <1>7, <1>8, <2>2
  <2>. QED BY <2>1, <2>2
<1>. QED BY <1>2, <1>10 DEF MatchesAreReal, Given, q

LEMMA RealStep ==
  ASSUME AsksForProfiles, ZdoInv, ZdoInv', MatchesAreReal, [Next]_vars
  PROVE  MatchesAreReal'
<1>1. TableOK'
  BY DEF ZdoInv
<1>2. ASSUME matched' = <<>>
      PROVE  MatchesAreReal'
  BY <1>2, NothingMatched DEF MatchesAreReal
<1>3. ASSUME NEW d \in Descriptor, EnterEndpoint(d)
      PROVE  MatchesAreReal'
  <2>1. given \subseteq given' /\ asked' = asked /\ matched' = matched
    BY <1>3 DEF EnterEndpoint, match
  <2>. QED BY <1>1, <2>1, RealStays
<1>4. CASE AssignEndpoint \/ MatchAnswer \/ UNCHANGED vars
  <2>1. given' = given /\ asked' = asked /\ matched' = matched
    BY <1>4 DEF AssignEndpoint, MatchAnswer, vars, match
  <2>. QED BY <1>1, <2>1, RealStays
<1>5. ASSUME NEW r \in Requests, ApsIndication(r)
      PROVE  MatchesAreReal'
  <2>1. matched' = <<>> \/ (pc = "idle" /\ matched' = matched)
    BY <1>5 DEF ApsIndication, HandleZdoFrame, NetworkAddrReq, IeeeAddrReq, NodeDescReq, PowerDescReq,
                DescReq, SimpleDescReq, ActiveEPReq, MatchDescReq, BindReq, UnbindReq,
                MgmtPermitJoinReq, Ignored, Handle, match
  <2>2. pc = "idle" => matched = <<>>
    BY DEF ZdoInv, RequestOK, Matching
  <2>. QED BY <1>2, <2>1, <2>2
<1>6. CASE MatchEndpoint
  BY <1>6, MatchEndpointIsReal
<1>7. CASE Returns
  BY <1>2, <1>7 DEF Returns
<1>. QED BY <1>3, <1>4, <1>5, <1>6, <1>7 DEF Next, AppStep, RxStep

(* While the table is left alone, a match response names the endpoints     *)
(* that match, each once; when endpoints are added meanwhile, those it     *)
(* names match by a descriptor they were given, if that was not replaced   *)
(* and if no one asks for profile 0.                                       *)
THEOREM MatchesAlwaysRight == AsksForProfiles /\ Spec => []MatchesAreRight
<1>1. Init => MatchesAreReal
  BY NothingMatched DEF Init, MatchesAreReal
<1>2. AsksForProfiles /\ ZdoInv /\ ZdoInv' /\ MatchesAreReal /\ [Next]_vars => MatchesAreReal'
  BY RealStep
<1>3. AsksForProfiles => AsksForProfiles'
  BY DEF AsksForProfiles
<1>4. AsksForProfiles /\ Spec => []MatchesAreReal
  BY <1>1, <1>2, <1>3, ZdoInvAlways, PTL DEF Spec
<1>5. ZdoInv /\ MatchesAreReal => MatchesAreRight
  BY MatchesAreAlwaysComplete DEF MatchesAreRight
<1>. QED BY <1>4, <1>5, ZdoInvAlways, PTL
=============================================================================
