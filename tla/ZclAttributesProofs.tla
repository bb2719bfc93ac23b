------------------------ MODULE ZclAttributesProofs ------------------------
(***************************************************************************)
(* Theorems about ZclAttributes, for any endpoints that the application    *)
(* registers, however often and in whatever order, and for any frames.     *)
(*                                                                         *)
(* What a search of the endpoints finds depends on the first cluster that  *)
(* fits.  Registering puts clusters behind it, and writing changes no      *)
(* cluster's shape, so the first one stays the first one.                  *)
(***************************************************************************)
EXTENDS ZclAttributes, WellFoundedInduction, SequenceTheorems, TLAPS

(* Clusters that differ in the values of their attributes only. *)
SameShape(c, d) ==
  /\ c.endpoint = d.endpoint /\ c.cluster = d.cluster /\ c.server = d.server /\ c.handler = d.handler
  /\ DOMAIN c.attributes = DOMAIN d.attributes
  /\ \A a \in DOMAIN c.attributes : c.attributes[a].writable = d.attributes[a].writable

(* Every cluster has the shape it was registered with. *)
Registered ==
  \A i \in DOMAIN clusters : \E e \in Registrable : \E j \in DOMAIN e : SameShape(clusters[i], e[j])

AttributesInv == AttributesTypeOK /\ Registered

Mapped == IF result.op \in {"read", "write"} /\ result.key \in Settled THEN result ELSE NoResult

-----------------------------------------------------------------------------
(* The first of a set of places.                                           *)

LEMMA FirstIsThere ==
  ASSUME NEW S \in SUBSET Nat, S # {}
  PROVE  FirstOf(S) \in S /\ \A j \in S : FirstOf(S) <= j
<1>. DEFINE R == {p \in Nat \X Nat : p[1] < p[2]}
<1>1. IsWellFoundedOn(R, Nat)
  BY NatLessThanWellFounded DEF OpToRel
<1>2. PICK i \in S : \A j \in S : <<j, i>> \notin R
  <2>. HIDE DEF R
  <2>. QED BY <1>1, WFMin
<1>3. \A j \in S : ~(j < i)
  BY <1>2
<1>4. \A j \in S : i <= j
  <2>1. i \in Nat /\ \A j \in S : j \in Nat
    OBVIOUS
  <2>. QED BY <1>3, <2>1
<1>. QED BY <1>4 DEF FirstOf

(* It stays when the set only grows behind a bound that it does not reach. *)
LEMMA FirstStays ==
  ASSUME NEW S \in SUBSET Nat, S # {}, NEW T \in SUBSET Nat, NEW n \in Nat,
         S \subseteq 0 .. n, S = {i \in T : i <= n}
  PROVE  FirstOf(T) = FirstOf(S)
<1>1. FirstOf(S) \in S /\ \A j \in S : FirstOf(S) <= j
  BY FirstIsThere
<1>2. FirstOf(T) \in T /\ \A j \in T : FirstOf(T) <= j
  <2>1. T # {}
    BY <1>1
  <2>. QED BY <2>1, FirstIsThere
<1>. DEFINE s == FirstOf(S)
            t == FirstOf(T)
<1>. HIDE DEF s, t
<1>3. s \in S /\ t \in T /\ (\A j \in S : s <= j) /\ (\A j \in T : t <= j)
  BY <1>1, <1>2 DEF s, t
<1>4. s \in T /\ s <= n
  BY <1>3
<1>5. t <= s /\ s \in Nat /\ t \in Nat
  BY <1>3, <1>4
<1>6. t \in S
  BY <1>3, <1>4, <1>5
<1>7. s = t
  BY <1>3, <1>5, <1>6
<1>. QED BY <1>7 DEF s, t

-----------------------------------------------------------------------------
(* The clusters.                                                           *)

LEMMA ClusterFields ==
  ASSUME NEW c \in Cluster
  PROVE  /\ c.attributes \in [DOMAIN c.attributes -> [value : Value, writable : BOOLEAN]]
         /\ DOMAIN c.attributes \subseteq AttrId
         /\ c.handler \in Handler \cup {NoHandler}
BY DEF Cluster, Attributes

LEMMA ClustersAreASequence ==
  ASSUME AttributesTypeOK
  PROVE  /\ Len(clusters) \in Nat /\ DOMAIN clusters = 1 .. Len(clusters)
         /\ \A i \in DOMAIN clusters : clusters[i] \in Cluster
<1>1. clusters \in Seq(Cluster)
  BY DEF AttributesTypeOK
<1>. QED BY <1>1, LenProperties, ElementOfSeq

LEMMA PlacesAreNaturals ==
  ASSUME AttributesTypeOK
  PROVE  /\ \A k : Holders(k) \in SUBSET Nat /\ Writables(k) \in SUBSET Nat
         /\ \A id : Servers(id) \in SUBSET Nat
BY ClustersAreASequence DEF Holders, Writables, Servers

LEMMA ReadsAreValues ==
  ASSUME AttributesTypeOK, NEW k
  PROVE  /\ Reads(k) \in Value \cup {Missing}
         /\ Holders(k) # {} => Reads(k) \in Value
<1>. DEFINE i == FirstOf(Holders(k))
<1>1. CASE Holders(k) # {}
  <2>1. i \in Holders(k)
    BY <1>1, FirstIsThere, PlacesAreNaturals
  <2>2. clusters[i] \in Cluster /\ k.attr \in DOMAIN clusters[i].attributes
    BY <2>1, ClustersAreASequence DEF Holders, Has
  <2>. QED BY <1>1, <2>2, ClusterFields DEF Reads
<1>. QED BY <1>1 DEF Reads

(* What registering an endpoint does to the clusters. *)
LEMMA RegisterExtends ==
  ASSUME AttributesTypeOK, NEW e \in Registrable, RegisterEndpoint(e)
  PROVE  /\ clusters' \in Seq(Cluster) /\ result' = NoResult
         /\ DOMAIN clusters' = 1 .. Len(clusters) + Len(e) /\ Len(e) \in Nat
         /\ \A i \in DOMAIN clusters : i \in DOMAIN clusters' /\ clusters'[i] = clusters[i]
         /\ \A i \in DOMAIN clusters' \ DOMAIN clusters :
              i - Len(clusters) \in DOMAIN e /\ clusters'[i] = e[i - Len(clusters)]
<1>1. clusters \in Seq(Cluster) /\ e \in Seq(Cluster) /\ clusters' = clusters \o e /\ result' = NoResult
  BY AttributesAssumption DEF AttributesTypeOK, RegisterEndpoint
<1>2. /\ Len(clusters) \in Nat /\ DOMAIN clusters = 1 .. Len(clusters)
      /\ Len(e) \in Nat /\ DOMAIN e = 1 .. Len(e)
  BY <1>1, LenProperties
<1>3. /\ clusters \o e \in Seq(Cluster)
      /\ Len(clusters \o e) = Len(clusters) + Len(e)
      /\ \A i \in 1 .. Len(clusters) + Len(e) :
           (clusters \o e)[i] = IF i <= Len(clusters) THEN clusters[i] ELSE e[i - Len(clusters)]
  BY <1>1, ConcatProperties
<1>4. DOMAIN clusters' = 1 .. Len(clusters) + Len(e)
  BY <1>1, <1>3, LenProperties
<1>5. \A i \in 1 .. Len(clusters) + Len(e) : i \notin 1 .. Len(clusters) =>
         i - Len(clusters) \in 1 .. Len(e) /\ ~(i <= Len(clusters))
  BY <1>2
<1>6. \A i \in 1 .. Len(clusters) : i \in 1 .. Len(clusters) + Len(e) /\ i <= Len(clusters)
  BY <1>2
<1>. QED BY <1>1, <1>2, <1>3, <1>4, <1>5, <1>6

(* What a write that finds the attribute does to them. *)
LEMMA WriteChangesOne ==
  ASSUME AttributesTypeOK, NEW k \in Key, NEW v \in Value, WriteAttribute(k, v), Writables(k) # {}
  PROVE  LET n == FirstOf(Writables(k))
         IN  /\ n \in Writables(k)
             /\ clusters' \in Seq(Cluster) /\ DOMAIN clusters' = DOMAIN clusters
             /\ \A i \in DOMAIN clusters :
                  /\ SameShape(clusters'[i], clusters[i])
                  /\ \A a \in DOMAIN clusters[i].attributes :
                       clusters'[i].attributes[a].value =
                         IF i = n /\ a = k.attr THEN v ELSE clusters[i].attributes[a].value
<1>. DEFINE n == FirstOf(Writables(k))
            c == clusters[n]
            x == c.attributes[k.attr]
            y == [x EXCEPT !.value = v]
            f == [c.attributes EXCEPT ![k.attr] = y]
            d == [c EXCEPT !.attributes = f]
<1>1. n \in Writables(k)
  BY FirstIsThere, PlacesAreNaturals
<1>2. n \in DOMAIN clusters /\ c \in Cluster /\ k.attr \in DOMAIN c.attributes
  BY <1>1, ClustersAreASequence DEF Writables, Holders, Has
<1>3. clusters' = [clusters EXCEPT ![n] = d]
  BY DEF WriteAttribute
<1>4. /\ c.attributes \in [DOMAIN c.attributes -> [value : Value, writable : BOOLEAN]]
      /\ DOMAIN c.attributes \subseteq AttrId
  BY <1>2, ClusterFields
<1>5. y \in [value : Value, writable : BOOLEAN] /\ y.value = v /\ y.writable = x.writable
  BY <1>2, <1>4
<1>6. /\ f \in [DOMAIN c.attributes -> [value : Value, writable : BOOLEAN]]
      /\ \A a \in DOMAIN c.attributes : f[a] = IF a = k.attr THEN y ELSE c.attributes[a]
  <2>. HIDE DEF c, y
  <2>. QED BY <1>4, <1>5
<1>7. f \in Attributes
  <2>. HIDE DEF f, c
  <2>. QED BY <1>4, <1>6 DEF Attributes
<1>8. /\ d \in Cluster /\ d.attributes = f
      /\ d.endpoint = c.endpoint /\ d.cluster = c.cluster /\ d.server = c.server /\ d.handler = c.handler
  <2>. HIDE DEF f, c
  <2>. QED BY <1>2, <1>7 DEF Cluster
<1>9. SameShape(d, c)
  <2>1. DOMAIN d.attributes = DOMAIN c.attributes
    BY <1>6, <1>8
  <2>2. \A a \in DOMAIN c.attributes : d.attributes[a].writable = c.attributes[a].writable
    BY <1>5, <1>6, <1>8
  <2>. QED BY <1>8, <2>1, <2>2 DEF SameShape
<1>10. \A a \in DOMAIN c.attributes :
         d.attributes[a].value = IF a = k.attr THEN v ELSE c.attributes[a].value
  BY <1>5, <1>6, <1>8
<1>11. /\ clusters' \in Seq(Cluster) /\ DOMAIN clusters' = DOMAIN clusters
       /\ \A i \in DOMAIN clusters : clusters'[i] = IF i = n THEN d ELSE clusters[i]
  <2>1. clusters \in Seq(Cluster) /\ n \in 1 .. Len(clusters)
    BY <1>2, ClustersAreASequence DEF AttributesTypeOK
  <2>. HIDE DEF d, n
  <2>. QED BY <1>3, <1>8, <2>1, ExceptSeq, LenProperties
<1>12. \A i \in DOMAIN clusters : i # n => SameShape(clusters'[i], clusters[i])
  BY <1>11 DEF SameShape
<1>. HIDE DEF d, n, c
<1>13. ASSUME NEW i \in DOMAIN clusters
       PROVE  /\ SameShape(clusters'[i], clusters[i])
              /\ \A a \in DOMAIN clusters[i].attributes :
                   clusters'[i].attributes[a].value =
                     IF i = n /\ a = k.attr THEN v ELSE clusters[i].attributes[a].value
  <2>1. CASE i = n
    <3>1. clusters'[i] = d /\ clusters[i] = c
      BY <1>11, <2>1 DEF c
    <3>. QED BY <1>9, <1>10, <2>1, <3>1
  <2>2. CASE i # n
    BY <1>11, <1>12, <2>2
  <2>. QED BY <2>1, <2>2
<1>. QED BY <1>1, <1>11, <1>13 DEF n

(* A write that finds none changes nothing. *)
LEMMA WriteChangesNone ==
  ASSUME NEW k, NEW v, WriteAttribute(k, v), Writables(k) = {}
  PROVE  UNCHANGED clusters
BY DEF WriteAttribute

(* Clusters of the same shapes are found in the same places. *)
LEMMA PlacesStay ==
  ASSUME DOMAIN clusters' = DOMAIN clusters,
         \A i \in DOMAIN clusters : SameShape(clusters'[i], clusters[i])
  PROVE  /\ \A k : Holders(k)' = Holders(k) /\ Writables(k)' = Writables(k)
         /\ \A id : Servers(id)' = Servers(id)
<1>1. ASSUME NEW k PROVE Holders(k)' = Holders(k)
  BY DEF Holders, Has, SameShape
<1>2. ASSUME NEW k PROVE Writables(k)' = Writables(k)
  BY <1>1 DEF Writables, Holders, Has, SameShape
<1>3. ASSUME NEW id PROVE Servers(id)' = Servers(id)
  BY DEF Servers, SameShape
<1>. QED BY <1>1, <1>2, <1>3

(* Registering an endpoint leaves what a search finds where it was.        *)
LEMMA FirstsStay ==
  ASSUME AttributesTypeOK, NEW e \in Registrable, RegisterEndpoint(e)
  PROVE  /\ \A k : Holders(k) # {} => Holders(k)' # {} /\ FirstOf(Holders(k))' = FirstOf(Holders(k))
         /\ \A id : Servers(id) # {} => Servers(id)' # {} /\ FirstOf(Servers(id))' = FirstOf(Servers(id))
<1>. DEFINE n == Len(clusters)
<1>1. /\ n \in Nat /\ DOMAIN clusters = 1 .. n
      /\ DOMAIN clusters' = 1 .. n + Len(e) /\ Len(e) \in Nat
      /\ \A i \in DOMAIN clusters : i \in DOMAIN clusters' /\ clusters'[i] = clusters[i]
  BY ClustersAreASequence, RegisterExtends
<1>2. \A i \in DOMAIN clusters' : i \in Nat /\ (i <= n <=> i \in DOMAIN clusters)
  <2>. HIDE DEF n
  <2>. QED BY <1>1
<1>3. ASSUME NEW k, Holders(k) # {}
      PROVE  Holders(k)' # {} /\ FirstOf(Holders(k))' = FirstOf(Holders(k))
  <2>1. Holders(k)' \in SUBSET Nat /\ Holders(k) \in SUBSET Nat
    BY <1>1, <1>2 DEF Holders
  <2>2. Holders(k) \subseteq 0 .. n
    BY <1>1 DEF Holders
  <2>3. Holders(k) = {i \in Holders(k)' : i <= n}
    BY <1>1, <1>2 DEF Holders
  <2>4. FirstOf(Holders(k)') = FirstOf(Holders(k))
    BY <1>1, <1>3, <2>1, <2>2, <2>3, FirstStays
  <2>. QED BY <1>3, <2>3, <2>4 DEF FirstOf
<1>4. ASSUME NEW id, Servers(id) # {}
      PROVE  Servers(id)' # {} /\ FirstOf(Servers(id))' = FirstOf(Servers(id))
  <2>1. Servers(id)' \in SUBSET Nat /\ Servers(id) \in SUBSET Nat
    BY <1>1, <1>2 DEF Servers
  <2>2. Servers(id) \subseteq 0 .. n
    BY <1>1 DEF Servers
  <2>3. Servers(id) = {i \in Servers(id)' : i <= n}
    BY <1>1, <1>2 DEF Servers
  <2>4. FirstOf(Servers(id)') = FirstOf(Servers(id))
    BY <1>1, <1>4, <2>1, <2>2, <2>3, FirstStays
  <2>. QED BY <1>4, <2>3, <2>4 DEF FirstOf
<1>. QED BY <1>3, <1>4

-----------------------------------------------------------------------------
(* The invariant.                                                          *)

LEMMA AttributesStart == ASSUME AttributesInit PROVE AttributesInv
<1>1. clusters \in Seq(Cluster) /\ DOMAIN clusters = {} /\ result \in Result
  BY EmptySeq DEF AttributesInit, Result
<1>. QED BY <1>1 DEF AttributesInv, AttributesTypeOK, Registered

LEMMA RegisterKeeps ==
  ASSUME AttributesInv, NEW e \in Registrable, RegisterEndpoint(e)
  PROVE  AttributesInv'
<1>. USE DEF AttributesInv
<1>1. AttributesTypeOK'
  BY RegisterExtends DEF AttributesTypeOK, Result
<1>2. ASSUME NEW i \in DOMAIN clusters'
      PROVE  \E d \in Registrable : \E j \in DOMAIN d : SameShape(clusters'[i], d[j])
  <2>1. CASE i \in DOMAIN clusters
    BY <2>1, RegisterExtends DEF Registered
  <2>2. CASE i \notin DOMAIN clusters
    <3>1. i - Len(clusters) \in DOMAIN e /\ clusters'[i] = e[i - Len(clusters)]
      BY <2>2, RegisterExtends
    <3>. QED BY <3>1 DEF SameShape
  <2>. QED BY <2>1, <2>2
<1>. QED BY <1>1, <1>2 DEF Registered

LEMMA WriteKeeps ==
  ASSUME AttributesInv, NEW k \in Key, NEW v \in Value, WriteAttribute(k, v)
  PROVE  AttributesInv'
<1>. USE DEF AttributesInv
<1>1. result' \in Result
  BY DEF WriteAttribute, Result
<1>2. CASE Writables(k) = {}
  BY <1>1, <1>2, WriteChangesNone DEF AttributesTypeOK, Registered
<1>3. CASE Writables(k) # {}
  <2>1. /\ clusters' \in Seq(Cluster) /\ DOMAIN clusters' = DOMAIN clusters
        /\ \A i \in DOMAIN clusters : SameShape(clusters'[i], clusters[i])
    BY <1>3, WriteChangesOne
  <2>2. \A c, d, b : SameShape(c, d) /\ SameShape(d, b) => SameShape(c, b)
    BY DEF SameShape
  <2>. QED BY <1>1, <2>1, <2>2 DEF AttributesTypeOK, Registered
<1>. QED BY <1>2, <1>3

LEMMA HandlersAreHandlers ==
  ASSUME AttributesTypeOK, NEW id
  PROVE  HandlerOf(id) \in Handler \cup {NoHandler}
<1>1. CASE Servers(id) # {}
  <2>1. FirstOf(Servers(id)) \in Servers(id)
    BY <1>1, FirstIsThere, PlacesAreNaturals
  <2>2. clusters[FirstOf(Servers(id))] \in Cluster
    BY <2>1, ClustersAreASequence DEF Servers
  <2>. QED BY <1>1, <2>2, ClusterFields DEF HandlerOf
<1>. QED BY <1>1 DEF HandlerOf

LEMMA CommandKeeps ==
  ASSUME AttributesInv, NEW id \in ClusterId, NEW f \in Frame, HandleApsFrame(id, f)
  PROVE  AttributesInv'
<1>. USE DEF AttributesInv
<1>1. f \in Seq(0 .. 255) /\ Len(f) \in Nat
  BY AttributesAssumption, LenProperties
<1>2. CASE result' = NoResult
  BY <1>2 DEF HandleApsFrame, AttributesTypeOK, Registered, Result
<1>3. CASE Len(f) >= 3 /\ HandlerOf(id) # NoHandler /\ result' = Command(id, f)
  <2>1. f[3] \in 0 .. 255
    BY <1>1, <1>3, ElementOfSeq
  <2>2. SubSeq(f, 4, Len(f)) \in Seq(0 .. 255)
    <3>1. \A i \in 4 .. Len(f) : f[i] \in 0 .. 255
      BY <1>1, ElementOfSeq
    <3>. QED BY <1>1, <3>1, SubSeqProperties
  <2>3. HandlerOf(id) \in Handler
    BY <1>3, HandlersAreHandlers
  <2>4. Command(id, f) \in
          [op : {"command"}, cluster : ClusterId, handler : Handler, command : 0 .. 255, payload : Seq(0 .. 255)]
    BY <2>1, <2>2, <2>3 DEF Command
  <2>. QED BY <1>3, <2>4 DEF HandleApsFrame, AttributesTypeOK, Registered, Result
<1>. QED BY <1>2, <1>3 DEF HandleApsFrame

LEMMA AttributesStep == ASSUME AttributesInv, [AttributesNext]_attributesVars PROVE AttributesInv'
<1>1. ASSUME NEW e \in Registrable, RegisterEndpoint(e) PROVE AttributesInv'
  BY <1>1, RegisterKeeps
<1>2. ASSUME NEW k \in Key, ReadAttribute(k) PROVE AttributesInv'
  <2>1. Reads(k) \in Value \cup {Missing}
    BY ReadsAreValues DEF AttributesInv
  <2>2. [op |-> "read", key |-> k, value |-> Reads(k)]
          \in [op : {"read"}, key : Key, value : Value \cup {Missing}]
    BY <2>1
  <2>. QED BY <1>2, <2>2 DEF ReadAttribute, AttributesInv, AttributesTypeOK, Registered, Result
<1>3. ASSUME NEW k \in Key, NEW v \in Value, WriteAttribute(k, v) PROVE AttributesInv'
  BY <1>3, WriteKeeps
<1>4. ASSUME NEW id \in ClusterId, NEW f \in Frame, HandleApsFrame(id, f) PROVE AttributesInv'
  BY <1>4, CommandKeeps
<1>5. CASE UNCHANGED attributesVars
  BY <1>5 DEF AttributesInv, AttributesTypeOK, Registered, attributesVars
<1>. QED BY <1>1, <1>2, <1>3, <1>4, <1>5 DEF AttributesNext

LEMMA AttributesInvariant == AttributesSpec => []AttributesInv
<1>1. AttributesInit => AttributesInv
  BY AttributesStart
<1>2. AttributesInv /\ [AttributesNext]_attributesVars => AttributesInv'
  BY AttributesStep
<1>. QED BY <1>1, <1>2, PTL DEF AttributesSpec

(* Every variable has its type: no handler is called that is not there,    *)
(* and no byte is read past a frame's end.                                 *)
THEOREM AttributesTypeCorrect == AttributesSpec => []AttributesTypeOK
<1>1. AttributesInv => AttributesTypeOK
  BY DEF AttributesInv
<1>. QED BY <1>1, AttributesInvariant, PTL

-----------------------------------------------------------------------------
(* The attributes are a store.                                             *)

(* Whether a settled attribute may be written is the same wherever it is.  *)
LEMMA SettledIsSettled ==
  ASSUME AttributesInv, NEW k \in Settled
  PROVE  /\ k \in SettledWritable => Writables(k) = Holders(k)
         /\ k \notin SettledWritable => Writables(k) = {}
<1>1. ASSUME NEW i \in Holders(k)
      PROVE  \E d \in Described(k) :
               clusters[i].attributes[k.attr].writable = d.attributes[k.attr].writable
  <2>1. i \in DOMAIN clusters /\ Has(clusters[i], k)
    BY DEF Holders
  <2>2. PICK e \in Registrable : \E j \in DOMAIN e : SameShape(clusters[i], e[j])
    BY <2>1 DEF AttributesInv, Registered
  <2>3. PICK j \in DOMAIN e : SameShape(clusters[i], e[j])
    BY <2>2
  <2>4. Has(e[j], k) /\ clusters[i].attributes[k.attr].writable = e[j].attributes[k.attr].writable
    BY <2>1, <2>3 DEF SameShape, Has
  <2>5. e[j] \in Described(k)
    BY <2>4 DEF Described
  <2>. QED BY <2>4, <2>5
<1>2. CASE k \in SettledWritable
  BY <1>1, <1>2 DEF SettledWritable, Writables
<1>3. CASE k \notin SettledWritable
  <2>1. PICK c \in Described(k) : ~c.attributes[k.attr].writable
    BY <1>3 DEF SettledWritable
  <2>2. \A d \in Described(k) : d.attributes[k.attr].writable = c.attributes[k.attr].writable
    BY DEF Settled
  <2>3. \A i \in Holders(k) : ~clusters[i].attributes[k.attr].writable
    BY <1>1, <2>1, <2>2, Zenon
  <2>. QED BY <1>3, <2>3 DEF Writables
<1>. QED BY <1>2, <1>3

(* A write changes what is read of its own attribute and of no other.      *)
LEMMA WriteIsRead ==
  ASSUME AttributesInv, NEW k \in Key, NEW v \in Value, WriteAttribute(k, v), Writables(k) # {}
  PROVE  /\ \A h \in Key : h # k => Reads(h)' = Reads(h)
         /\ Writables(k) = Holders(k) => Reads(k)' = v
<1>. DEFINE n == FirstOf(Writables(k))
<1>1. /\ n \in Writables(k) /\ DOMAIN clusters' = DOMAIN clusters
      /\ \A i \in DOMAIN clusters : SameShape(clusters'[i], clusters[i])
      /\ \A i \in DOMAIN clusters : \A a \in DOMAIN clusters[i].attributes :
           clusters'[i].attributes[a].value =
             IF i = n /\ a = k.attr THEN v ELSE clusters[i].attributes[a].value
  BY WriteChangesOne DEF AttributesInv
<1>2. \A h : Holders(h)' = Holders(h)
  BY <1>1, PlacesStay
<1>3. \A h : Holders(h) # {} => FirstOf(Holders(h)) \in Holders(h)
  BY FirstIsThere, PlacesAreNaturals DEF AttributesInv
<1>4. Has(clusters[n], k)
  BY <1>1 DEF Writables, Holders
<1>. HIDE DEF n
<1>5. ASSUME NEW h \in Key, h # k
      PROVE  Reads(h)' = Reads(h)
  <2>. DEFINE i == FirstOf(Holders(h))
  <2>1. FirstOf(Holders(h))' = i
    BY <1>2 DEF FirstOf
  <2>2. CASE Holders(h) = {}
    BY <1>2, <2>2 DEF Reads
  <2>3. CASE Holders(h) # {}
    <3>1. i \in DOMAIN clusters /\ Has(clusters[i], h)
      BY <1>3, <2>3 DEF Holders
    <3>2. ~(i = n /\ h.attr = k.attr)
      BY <1>4, <1>5, <3>1, AttributesAssumption DEF Has
    <3>3. clusters'[i].attributes[h.attr].value = clusters[i].attributes[h.attr].value
      BY <1>1, <3>1, <3>2 DEF Has
    <3>. QED BY <1>2, <2>1, <2>3, <3>3 DEF Reads
  <2>. QED BY <2>2, <2>3
<1>6. ASSUME Writables(k) = Holders(k)
      PROVE  Reads(k)' = v
  <2>1. Holders(k) # {} /\ FirstOf(Holders(k)) = n /\ FirstOf(Holders(k))' = n
    BY <1>2, <1>6 DEF FirstOf, n
  <2>2. clusters'[n].attributes[k.attr].value = v
    BY <1>1, <1>4 DEF Has, Writables, Holders
  <2>. QED BY <1>2, <2>1, <2>2 DEF Reads
<1>. QED BY <1>5, <1>6

(* What registering leaves of what is read. *)
LEMMA RegisterIsRead ==
  ASSUME AttributesTypeOK, NEW e \in Registrable, RegisterEndpoint(e), NEW k, Reads(k) # Missing
  PROVE  Reads(k)' = Reads(k)
<1>1. Holders(k) # {}
  BY DEF Reads
<1>2. Holders(k)' # {} /\ FirstOf(Holders(k))' = FirstOf(Holders(k))
  BY <1>1, FirstsStay
<1>3. FirstOf(Holders(k)) \in DOMAIN clusters
  BY <1>1, FirstIsThere, PlacesAreNaturals DEF Holders
<1>4. clusters'[FirstOf(Holders(k))] = clusters[FirstOf(Holders(k))]
  BY <1>3, RegisterExtends
<1>. QED BY <1>1, <1>2, <1>4 DEF Reads

LEMMA ReadsAreValuesNext == (AttributesTypeOK => \A k : Reads(k) \in Value \cup {Missing})'
<1>1. AttributesTypeOK => \A k : Reads(k) \in Value \cup {Missing}
  BY ReadsAreValues
<1>. QED BY <1>1, PTL

LEMMA StoreInit == ASSUME AttributesInit PROVE Store!Init
<1>1. \A k : Reads(k) = Missing
  <2>1. DOMAIN clusters = {}
    BY DEF AttributesInit
  <2>. QED BY <2>1 DEF Reads, Holders
<1>. QED BY <1>1 DEF AttributesInit, NoResult, Store!Init, Store!NoResult

LEMMA StoreStep ==
  ASSUME AttributesInv, AttributesInv', [AttributesNext]_attributesVars
  PROVE  [Store!Next]_<<[k \in Settled |-> Reads(k)], Mapped>>
<1>. DEFINE store == [k \in Settled |-> Reads(k)]
<1>. SUFFICES Store!Next \/ UNCHANGED <<store, Mapped>>
  OBVIOUS
<1>. USE DEF Mapped, NoResult, Store!NoResult
<1>1. Settled \subseteq Key
  BY DEF Settled
<1>2. \A k \in Settled : Reads(k)' \in Value \cup {Missing} /\ Reads(k) \in Value \cup {Missing}
  <2>1. \A k : Reads(k) \in Value \cup {Missing}
    BY ReadsAreValues DEF AttributesInv
  <2>2. \A k : Reads(k)' \in Value \cup {Missing}
    BY ReadsAreValuesNext DEF AttributesInv
  <2>. QED BY <2>1, <2>2
<1>3. UNCHANGED clusters => UNCHANGED store
  BY DEF Reads, Holders
<1>4. ASSUME NEW e \in Registrable, RegisterEndpoint(e) PROVE Store!Next
  <2>1. \A k \in Settled : store[k] # Missing => store'[k] = store[k]
    BY <1>4, RegisterIsRead DEF AttributesInv
  <2>2. store' \in [Settled -> Value \cup {Missing}]
    BY <1>2
  <2>3. Mapped' = NoResult
    BY <1>4 DEF RegisterEndpoint
  <2>. QED BY <2>1, <2>2, <2>3 DEF Store!Next, Store!Register
<1>5. ASSUME NEW k \in Key, ReadAttribute(k) PROVE Store!Next
  <2>1. UNCHANGED store
    BY <1>3, <1>5 DEF ReadAttribute
  <2>2. CASE k \in Settled
    <3>1. Mapped' = [op |-> "read", key |-> k, value |-> store[k]]
      BY <1>5, <2>2 DEF ReadAttribute
    <3>. QED BY <2>1, <2>2, <3>1 DEF Store!Next, Store!Read
  <2>3. CASE k \notin Settled
    <3>1. Mapped' = NoResult
      BY <1>5, <2>3 DEF ReadAttribute
    <3>. QED BY <2>1, <3>1 DEF Store!Next, Store!Forget
  <2>. QED BY <2>2, <2>3
<1>6. ASSUME NEW k \in Key, NEW v \in Value, WriteAttribute(k, v) PROVE Store!Next
  <2>1. result' = [op |-> "write", key |-> k, value |-> v, ok |-> Writables(k) # {}]
    BY <1>6 DEF WriteAttribute
  <2>2. CASE k \in Settled /\ Writables(k) = {}
    <3>1. UNCHANGED store
      BY <1>3, <1>6, <2>2, WriteChangesNone
    <3>2. k \notin SettledWritable \/ Reads(k) = Missing
      BY <2>2, SettledIsSettled DEF Reads
    <3>3. Mapped' = [op |-> "write", key |-> k, value |-> v, ok |-> FALSE]
      BY <2>1, <2>2
    <3>. QED BY <2>2, <3>1, <3>2, <3>3 DEF Store!Next, Store!Refuse
  <2>3. CASE k \in Settled /\ Writables(k) # {}
    <3>1. k \in SettledWritable /\ Writables(k) = Holders(k)
      BY <2>3, SettledIsSettled
    <3>2. Reads(k) # Missing
      BY <2>3, <3>1, ReadsAreValues, AttributesAssumption DEF AttributesInv
    <3>3. store' = [store EXCEPT ![k] = v]
      BY <1>1, <1>6, <2>3, <3>1, WriteIsRead
    <3>4. Mapped' = [op |-> "write", key |-> k, value |-> v, ok |-> TRUE]
      BY <2>1, <2>3
    <3>. QED BY <2>3, <3>1, <3>2, <3>3, <3>4 DEF Store!Next, Store!Write
  <2>4. CASE k \notin Settled
    <3>1. \A h \in Settled : Reads(h)' = Reads(h)
      <4>1. CASE Writables(k) = {}
        BY <1>6, <4>1, WriteChangesNone DEF Reads, Holders
      <4>2. CASE Writables(k) # {}
        BY <1>1, <1>6, <2>4, <4>2, WriteIsRead
      <4>. QED BY <4>1, <4>2
    <3>2. UNCHANGED store /\ Mapped' = NoResult
      BY <2>1, <2>4, <3>1
    <3>. QED BY <3>2 DEF Store!Next, Store!Forget
  <2>. QED BY <2>2, <2>3, <2>4
<1>7. ASSUME NEW id \in ClusterId, NEW f \in Frame, HandleApsFrame(id, f) PROVE Store!Next
  <2>1. UNCHANGED store /\ Mapped' = NoResult
    BY <1>3, <1>7 DEF HandleApsFrame, Command
  <2>. QED BY <2>1 DEF Store!Next, Store!Forget
<1>8. CASE UNCHANGED attributesVars
  BY <1>3, <1>8 DEF attributesVars
<1>. QED BY <1>4, <1>5, <1>6, <1>7, <1>8 DEF AttributesNext

(* Of the attributes on whose being writable all endpoints agree, the      *)
(* clusters are a store: registering an endpoint again does not disturb    *)
(* what was written, and what was written is what is read.                 *)
THEOREM ClustersAreAStore == AttributesSpec => IsStore
<1>1. AttributesInit => Store!Init
  BY StoreInit
<1>2. AttributesInv /\ AttributesInv' /\ [AttributesNext]_attributesVars
        => [Store!Next]_<<[k \in Settled |-> Reads(k)], Mapped>>
  BY StoreStep
<1>. QED BY <1>1, <1>2, AttributesInvariant, PTL DEF AttributesSpec, IsStore, Store!Spec, Mapped

-----------------------------------------------------------------------------
(* The handlers.                                                           *)

LEMMA HandlersStep ==
  ASSUME AttributesInv, [AttributesNext]_attributesVars, NEW id \in ClusterId, HandlerOf(id) # NoHandler
  PROVE  HandlerOf(id)' = HandlerOf(id)
<1>. DEFINE n == FirstOf(Servers(id))
<1>1. Servers(id) # {} /\ n \in Servers(id) /\ n \in DOMAIN clusters
  BY FirstIsThere, PlacesAreNaturals DEF AttributesInv, HandlerOf, Servers
<1>2. ASSUME Servers(id)' # {}, FirstOf(Servers(id))' = n, clusters'[n].handler = clusters[n].handler
      PROVE  HandlerOf(id)' = HandlerOf(id)
  BY <1>1, <1>2 DEF HandlerOf
<1>3. ASSUME NEW e \in Registrable, RegisterEndpoint(e) PROVE HandlerOf(id)' = HandlerOf(id)
  <2>1. Servers(id)' # {} /\ FirstOf(Servers(id))' = n
    BY <1>1, <1>3, FirstsStay DEF AttributesInv
  <2>2. clusters'[n] = clusters[n]
    BY <1>1, <1>3, RegisterExtends DEF AttributesInv
  <2>. QED BY <1>2, <2>1, <2>2
<1>4. ASSUME NEW k \in Key, NEW v \in Value, WriteAttribute(k, v) PROVE HandlerOf(id)' = HandlerOf(id)
  <2>1. CASE Writables(k) = {}
    BY <1>4, <2>1, WriteChangesNone DEF HandlerOf, Servers
  <2>2. CASE Writables(k) # {}
    <3>1. DOMAIN clusters' = DOMAIN clusters /\ \A i \in DOMAIN clusters : SameShape(clusters'[i], clusters[i])
      BY <1>4, <2>2, WriteChangesOne DEF AttributesInv
    <3>2. Servers(id)' = Servers(id)
      BY <3>1, PlacesStay
    <3>3. FirstOf(Servers(id))' = n
      BY <3>2 DEF FirstOf
    <3>. QED BY <1>1, <1>2, <3>1, <3>2, <3>3 DEF SameShape
  <2>. QED BY <2>1, <2>2
<1>5. ASSUME UNCHANGED clusters PROVE HandlerOf(id)' = HandlerOf(id)
  BY <1>5 DEF HandlerOf, Servers
<1>. QED BY <1>3, <1>4, <1>5 DEF AttributesNext, attributesVars, ReadAttribute, HandleApsFrame

(* Once a cluster's commands have a handler they keep it, whatever is      *)
(* registered afterwards or written.                                       *)
THEOREM HandlersAlwaysStay == AttributesSpec => HandlersStay
<1>1. AttributesInv /\ [AttributesNext]_attributesVars
        => [\A id \in ClusterId : HandlerOf(id) # NoHandler => HandlerOf(id)' = HandlerOf(id)]_attributesVars
  BY HandlersStep
<1>. QED BY <1>1, AttributesInvariant, PTL DEF AttributesSpec, HandlersStay
=============================================================================
