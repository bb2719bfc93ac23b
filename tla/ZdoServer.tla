----------------------------- MODULE ZdoServer -----------------------------
(***************************************************************************)
(* ZigbeeZdo: the requests that ZigbeeAps hands to the callback of start,  *)
(* the answers that are handed back to sendApsData, and the endpoint table *)
(* they are taken from, which the application fills meanwhile.  What the   *)
(* APS mutex does to an answer is ZohStack's subject; here a handler ends  *)
(* when it has called sendZdoResponse.                                     *)
(*                                                                         *)
(* Nothing guards the table.  addSimpleDescriptor makes an entry, which    *)
(* may make the map grow, and then assigns the descriptor: meanwhile a     *)
(* lookup may find in each field the old value or the new one, and while   *)
(* the map grows it may miss an entry, and a loop may miss entries or meet *)
(* them again.                                                             *)
(*                                                                         *)
(* handleMgmtLqiReq and the handlers after it are never called: their      *)
(* clusters are among those handleZdoFrame ignores.                        *)
(***************************************************************************)
EXTENDS Bytes, FiniteSets

CONSTANTS
  NwkAddr,     \* m_nwkAddr
  ExtAddr,     \* m_extAddr, its eight bytes
  Descriptor,  \* the simple descriptors that the application may add
  MaxAdds,     \* how many it adds (bounds the model)
  NodeDesc,    \* what may be read of m_nodeDesc, set or not
  PowerDesc,   \* what may be read of m_powerDesc
  Whole,       \* the requests that other nodes send
  CountRange   \* values of a count or length byte: 256

Blank    == [endpoint |-> 0, profile |-> 0, in |-> <<>>, out |-> <<>>]
Absent   == [Blank EXCEPT !.endpoint = Byte]
Endpoint == {d.endpoint : d \in Descriptor}
NoAdd    == [desc |-> Absent, new |-> FALSE]

ASSUME ConstantsAssumption ==
  /\ NwkAddr \in 0 .. Byte * Byte - 1
  /\ ExtAddr \in Seq(0 .. Byte - 1) /\ Len(ExtAddr) = 8
  /\ \A d \in Descriptor :
       d \in [endpoint : 1 .. Byte - 1, profile : 0 .. Byte * Byte - 1,
              in : Seq(0 .. Byte * Byte - 1), out : Seq(0 .. Byte * Byte - 1)]
  /\ MaxAdds \in Nat
  /\ \A d \in NodeDesc \cup PowerDesc : d \in Seq(0 .. Byte - 1)
  /\ \A r \in Whole :
       r \in [dstEp : 0 .. Byte - 1, src : 0 .. Byte * Byte - 1, cluster : 0 .. Byte * Byte - 1,
              payload : Seq(0 .. Byte - 1)]
  /\ CountRange \in 1 .. Byte

VARIABLES
  table,      \* m_epMap
  adding,     \* the argument of addSimpleDescriptor, while the entry is assigned
  given,      \* the descriptors it has been called with
  pc,         \* where the handler is
  asked,      \* the request it handles
  answer,     \* what it gave to sendApsData
  eps,        \* the endpoints handleMatchDescReq has yet to look up
  matched,    \* and those it has found to match
  calm        \* no entry has been made or assigned since the request came

match == <<eps, matched>>
vars  == <<table, adding, given, pc, asked, answer, match, calm>>

NoRequest == [dstEp |-> 0, src |-> 0, cluster |-> 0, payload |-> <<>>]
NoAnswer  == [dst |-> 0, cluster |-> 0, payload |-> <<>>]

(* A request may arrive cut. *)
Requests == UNION {{[r EXCEPT !.payload = s] : s \in Prefixes(r.payload)} : r \in Whole}

Init ==
  /\ table = [e \in Endpoint |-> Absent] /\ adding = NoAdd /\ given = {}
  /\ pc = "idle" /\ asked = NoRequest /\ answer = NoAnswer
  /\ eps = <<>> /\ matched = <<>> /\ calm = TRUE

-----------------------------------------------------------------------------
(* The application.                                                        *)

(* addSimpleDescriptor: operator[] ... *)
EnterEndpoint(d) ==
  /\ adding = NoAdd
  /\ Cardinality(given) < MaxAdds
  /\ adding' = [desc |-> d, new |-> table[d.endpoint] = Absent]
  /\ given' = given \cup {d}
  /\ table' = IF adding'.new THEN [table EXCEPT ![d.endpoint] = Blank] ELSE table
  /\ calm' = FALSE
  /\ UNCHANGED <<pc, asked, answer, match>>

(* ... and the assignment. *)
AssignEndpoint ==
  /\ adding # NoAdd
  /\ table' = [table EXCEPT ![adding.desc.endpoint] = adding.desc]
  /\ adding' = NoAdd
  /\ UNCHANGED <<given, pc, asked, answer, match, calm>>

-----------------------------------------------------------------------------
(* The endpoint table, as a handler finds it.                              *)

Growing == adding.new
Mixed(a, b) ==
  [endpoint : {a.endpoint, b.endpoint}, profile : {a.profile, b.profile},
   in : {a.in, b.in}, out : {a.out, b.out}]

(* getSimpleDescriptor: what it may find, Absent if it fails. *)
SimpleDescriptors(e) ==
  IF e \notin Endpoint THEN {Absent}
  ELSE (IF adding.desc.endpoint = e THEN Mixed(table[e], adding.desc) ELSE {table[e]})
       \cup (IF Growing THEN {Absent} ELSE {})

(* getActiveEndpoints: the lists it may return. *)
Present == {e \in Endpoint : table[e] # Absent}
ActiveEndpoints ==
  IF Growing THEN BoundedSeq(Present, Cardinality(Present) + 1) ELSE SetToSeqs(Present)

-----------------------------------------------------------------------------
(* The handlers, and the answers they give.                                *)

Success   == 0
Failure   == 1
NotActive == 130
RspBit    == 32768

Cut(n) == n % CountRange

Me == Field(NwkAddr)

(* Mutant: a request for any node will do. *)
ForAnyone(p) == TRUE

ForUs(p) == FieldAt(p, 1) = NwkAddr

(* Mutant: with the cluster of the request. *)
Echo(r, status, body) == [dst |-> r.src, cluster |-> r.cluster, payload |-> <<status>> \o body]

Answer(r, status, body) == [dst |-> r.src, cluster |-> r.cluster + RspBit, payload |-> <<status>> \o body]

Handle(r, a) ==
  /\ pc = "idle"
  /\ asked' = r /\ answer' = a
  /\ pc' = "answered"
  /\ calm' = (adding = NoAdd)
  /\ UNCHANGED <<table, adding, given, match>>

StartIndex(p) == p[10]

NetworkAddrReq(r) ==
  /\ r.cluster = 0
  /\ LET p == r.payload
     IN  Handle(r, IF Len(p) < 10 THEN NoAnswer
                   ELSE IF SubSeq(p, 1, 8) # ExtAddr THEN Answer(r, Failure, <<>>)
                   ELSE Answer(r, Success, ExtAddr \o Me \o <<0, StartIndex(p)>>))

(* What it returns as start index is the request's type. *)
IeeeAddrReq(r) ==
  /\ r.cluster = 1
  /\ LET p == r.payload
     IN  Handle(r, IF Len(p) < 4 THEN NoAnswer
                   ELSE IF ~ForUs(p) THEN Answer(r, Failure, <<>>)
                   ELSE Answer(r, Success, ExtAddr \o Me \o <<0, p[3]>>))

(* The node and the power descriptor have no initial value, are set        *)
(* without a lock and are read here only.                                  *)
DescReq(r, descs) ==
  \E d \in descs :
    Handle(r, IF Len(r.payload) >= 2 /\ ForUs(r.payload) THEN Answer(r, Success, Me \o d) ELSE NoAnswer)

NodeDescReq(r)  == r.cluster = 2 /\ DescReq(r, NodeDesc)
PowerDescReq(r) == r.cluster = 3 /\ DescReq(r, PowerDesc)

Description(d) ==
  <<d.endpoint>> \o Field(d.profile)
  \o <<Cut(Len(d.in))>> \o Fields(d.in) \o <<Cut(Len(d.out))>> \o Fields(d.out)

(* Mutant: it counts itself. *)
LengthOneMore(s) == Cut(Len(s) + 1)

Length(s) == Cut(Len(s))

SimpleDescReq(r) ==
  /\ r.cluster = 4
  /\ LET p == r.payload
     IN  IF Len(p) >= 3 /\ ForUs(p)
         THEN \E d \in SimpleDescriptors(p[3]) :
                Handle(r, IF d = Absent THEN Answer(r, NotActive, Me)
                          ELSE Answer(r, Success, Me \o <<Length(Description(d))>> \o Description(d)))
         ELSE Handle(r, NoAnswer)

EndpointList(r, s) == Answer(r, Success, Me \o <<Cut(Len(s))>> \o s)

ActiveEPReq(r) ==
  /\ r.cluster = 5
  /\ IF Len(r.payload) >= 2 /\ ForUs(r.payload)
     THEN \E s \in ActiveEndpoints : Handle(r, EndpointList(r, s))
     ELSE Handle(r, NoAnswer)

(* A match request: two counted lists after the address and the profile. *)
OutAt(p) == 6 + 2 * p[5]
IsQuery(p) ==
  /\ Len(p) >= 5
  /\ Len(p) >= OutAt(p)
  /\ Len(p) >= OutAt(p) + 2 * p[OutAt(p)]
Query(p) ==
  [profile |-> FieldAt(p, 3), in |-> FieldsAt(p, 6, p[5]), out |-> FieldsAt(p, OutAt(p) + 1, p[OutAt(p)])]

(* A request is whole when it has no more and no fewer bytes than its      *)
(* handler looks at.                                                       *)
ASSUME WholeAssumption ==
  \A r \in Whole :
    LET p == r.payload
    IN  /\ r.cluster = 0 => Len(p) = 10
        /\ r.cluster = 1 => Len(p) = 4
        /\ r.cluster \in {2, 3, 5, 54} => Len(p) = 2
        /\ r.cluster = 4 => Len(p) = 3
        /\ r.cluster = 6 => IsQuery(p) /\ Len(p) = OutAt(p) + 2 * p[OutAt(p)]

MatchDescReq(r) ==
  /\ r.cluster = 6
  /\ IF IsQuery(r.payload) /\ ForUs(r.payload)
     THEN /\ pc = "idle" /\ pc' = "match"
          /\ asked' = r
          /\ eps' \in ActiveEndpoints /\ matched' = <<>>
          /\ calm' = (adding = NoAdd)
          /\ UNCHANGED <<table, adding, given, answer>>
     ELSE Handle(r, NoAnswer)

(* Mutant: every cluster must be there. *)
MeetsAll(wanted, has) == \A j \in DOMAIN wanted : \E i \in DOMAIN has : has[i] = wanted[j]

Meets(wanted, has) == wanted = <<>> \/ \E i \in DOMAIN has, j \in DOMAIN wanted : has[i] = wanted[j]

Matches(d, q) == d # Absent /\ d.profile = q.profile /\ Meets(q.in, d.in) /\ Meets(q.out, d.out)

MatchEndpoint ==
  /\ pc = "match" /\ eps # <<>>
  /\ \E d \in SimpleDescriptors(Head(eps)) :
       matched' = IF Matches(d, Query(asked.payload)) THEN Append(matched, Head(eps)) ELSE matched
  /\ eps' = Tail(eps)
  /\ UNCHANGED <<table, adding, given, pc, asked, answer, calm>>

MatchAnswer ==
  /\ pc = "match" /\ eps = <<>>
  /\ answer' = EndpointList(asked, matched)
  /\ pc' = "answered"
  /\ UNCHANGED <<table, adding, given, asked, match, calm>>

(* Nothing is bound. *)
BindReq(r)   == r.cluster = 33 /\ Handle(r, Answer(r, Success, <<>>))
UnbindReq(r) == r.cluster = 34 /\ Handle(r, Answer(r, Success, <<>>))

(* Nothing is permitted. *)
MgmtPermitJoinReq(r) ==
  /\ r.cluster = 54
  /\ Handle(r, IF Len(r.payload) >= 2 THEN Answer(r, Success, <<>>) ELSE NoAnswer)

(* Device announcements among them. *)
Ignored(r) == r.cluster \notin 0 .. 6 \cup {33, 34, 54} /\ Handle(r, NoAnswer)

HandleZdoFrame(r) ==
  \/ NetworkAddrReq(r) \/ IeeeAddrReq(r) \/ NodeDescReq(r) \/ PowerDescReq(r)
  \/ SimpleDescReq(r) \/ ActiveEPReq(r) \/ MatchDescReq(r)
  \/ BindReq(r) \/ UnbindReq(r) \/ MgmtPermitJoinReq(r) \/ Ignored(r)

(* The callback that start gives to the APS. *)
ApsIndication(r) == r.dstEp = 0 /\ r.cluster < 64 /\ HandleZdoFrame(r)

Returns ==
  /\ pc = "answered"
  /\ pc' = "idle" /\ asked' = NoRequest /\ answer' = NoAnswer
  /\ eps' = <<>> /\ matched' = <<>>
  /\ calm' = TRUE
  /\ UNCHANGED <<table, adding, given>>

-----------------------------------------------------------------------------

AppStep ==
  \/ \E d \in Descriptor : EnterEndpoint(d)
  \/ AssignEndpoint

RxStep == (\E r \in Requests : ApsIndication(r)) \/ MatchEndpoint \/ MatchAnswer \/ Returns

Next == AppStep \/ RxStep

Spec == Init /\ [][Next]_vars

-----------------------------------------------------------------------------
(* Correctness.                                                            *)

(* Every variable has its type; an answer is a sequence of bytes in the    *)
(* cluster of a response.                                                  *)
TypeOK ==
  /\ table \in [Endpoint -> Descriptor \cup {Absent, Blank}]
  /\ adding \in [desc : Descriptor, new : BOOLEAN] \cup {NoAdd}
  /\ given \subseteq Descriptor
  /\ pc \in {"idle", "match", "answered"}
  /\ asked \in Requests \cup {NoRequest}
  /\ answer.cluster \in {0} \cup 32768 .. 32831 /\ answer.payload \in Seq(0 .. Byte - 1)
  /\ eps \in Seq(Endpoint) /\ matched \in Seq(Endpoint)
  /\ calm \in BOOLEAN

(* Requests whose handler answers whatever node they are for, or always. *)
Unaddressed == {0, 1, 54}
Unchecked   == {33, 34}

(* A request that arrives whole and is for this node is answered, to the   *)
(* node that asked and with the cluster of its answer; one that arrives    *)
(* cut, that is for another node or that has no handler is not.            *)
WholeRequestsAreAnswered ==
  pc = "answered" /\ asked.cluster \notin Unchecked =>
    IF /\ asked \in Whole
       /\ \/ asked.cluster \in Unaddressed
          \/ asked.cluster \in 2 .. 6 /\ asked.payload[1] + Byte * asked.payload[2] = NwkAddr
    THEN answer.dst = asked.src /\ answer.cluster = asked.cluster + RspBit
    ELSE answer = NoAnswer

(* An address response reads back by the layout its comment gives: status, *)
(* addresses, no devices; and the one to a network address request the     *)
(* start index that was asked for.                                         *)
AddressesReadBack ==
  pc = "answered" /\ asked.cluster \in 0 .. 1 /\ answer # NoAnswer /\ answer.payload[1] = Success =>
    LET s == answer.payload
    IN  /\ Len(s) = 13
        /\ SubSeq(s, 2, 9) = ExtAddr /\ FieldAt(s, 10) = NwkAddr /\ s[12] = 0
        /\ asked.cluster = 0 => s[13] = Last(asked.payload)

(* The start index of every address response, its last byte, is the one    *)
(* that was asked for, the request's last byte.  The code does not do so:  *)
(* it answers an IEEE address request with the request's type.             *)
StartIndexIsTheOneAsked ==
  pc = "answered" /\ asked.cluster \in 0 .. 1 /\ answer # NoAnswer /\ answer.payload[1] = Success =>
    Last(answer.payload) = Last(asked.payload)

(* While the table is left alone, who reads the response that describes an *)
(* endpoint with fewer than CountRange clusters in each list, by its       *)
(* counts, finds the descriptor; and where its length fits a byte the      *)
(* length byte counts what follows it.                                     *)
DescriptionReadsBack ==
  pc = "answered" /\ asked.cluster = 4 /\ calm /\ answer # NoAnswer /\ answer.payload[1] = Success =>
    LET d == table[asked.payload[3]]
        s == Rest(answer.payload, 5)
        o == 5 + 2 * s[4]
    IN  Len(d.in) < CountRange /\ Len(d.out) < CountRange =>
          /\ s[1] = d.endpoint /\ FieldAt(s, 2) = d.profile
          /\ FieldsAt(s, 5, s[4]) = d.in /\ FieldsAt(s, o + 1, s[o]) = d.out
          /\ Len(s) = o + 2 * s[o]
          /\ Len(s) < CountRange => answer.payload[4] = Len(s)

(* Address and simple descriptor responses say what the node knows, up to  *)
(* the start index of the one and the longest lists of the other.          *)
ResponsesReadBack == AddressesReadBack /\ DescriptionReadsBack

(* What it means to match: the profile, and of each list that is asked for *)
(* a cluster in common.                                                    *)
Fits(d, q) ==
  /\ d # Absent /\ d.profile = q.profile
  /\ q.in # <<>> => ToSet(q.in) \cap ToSet(d.in) # {}
  /\ q.out # <<>> => ToSet(q.out) \cap ToSet(d.out) # {}

(* While the table is left alone, a match response lists the endpoints     *)
(* that match, each of them once.                                          *)
MatchesAreComplete ==
  pc = "answered" /\ asked.cluster = 6 /\ calm /\ answer # NoAnswer =>
    /\ ToSet(matched) = {e \in Endpoint : Fits(table[e], Query(asked.payload))}
    /\ Len(matched) = Cardinality(ToSet(matched))

(* Even when endpoints are added while a match request is handled, those   *)
(* it lists match, by a descriptor they were given, unless a descriptor    *)
(* was replaced by another, and of that one the reader took a part.  (The  *)
(* entry being made has profile 0, ZDP's own, which no one asks for.)      *)
MatchesAreReal ==
  asked.cluster = 6 =>
    \A e \in ToSet(matched) :
      LET ds == {d \in given : d.endpoint = e}
      IN  Cardinality(ds) > 1 \/ \E d \in ds : Fits(d, Query(asked.payload))

(* A match response is what the table says, as far as the table can be     *)
(* relied on while endpoints are added.                                    *)
MatchesAreRight == MatchesAreComplete /\ MatchesAreReal
=============================================================================
