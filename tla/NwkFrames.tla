----------------------------- MODULE NwkFrames -----------------------------
(***************************************************************************)
(* ZigbeeNwk's route table and the frames it is used for: what a sender    *)
(* puts on the air, and what the same code on another node makes of it.    *)
(*                                                                         *)
(* Three threads share the table.  A sender holds m_mutex; the rx thread,  *)
(* which handles route records, many-to-one requests and route errors, and *)
(* the caller of repairRoute do not.  So a route changes between the       *)
(* lookup and the copy of its path, or during that copy.                   *)
(*                                                                         *)
(* The locks are ZohStack's subject: here the rx thread is given nothing   *)
(* that makes it send.  nextHop, manyToOne and discoverySeq decide nothing *)
(* and are left out, and so is the MAC header: sendNwkFrame builds none.   *)
(***************************************************************************)
EXTENDS Bytes

CONSTANTS
  Own,         \* m_ownShortAddr
  Dest,        \* addresses of other nodes
  Path,        \* the source routes that nodes have
  Data,        \* what applications send through the APS
  Radius,      \* m_radius
  CountRange,  \* values of the hop count: 256
  SeqRange     \* values of the sequence number: 256

Broadcast == Byte * Byte - 1
Addr      == Dest \cup {Broadcast}

ASSUME ConstantsAssumption ==
  /\ Dest \subseteq 0 .. Broadcast - 1
  /\ Own \in (0 .. Broadcast - 1) \ Dest
  /\ CountRange \in 1 .. Byte
  /\ SeqRange \in 1 .. Byte
  /\ Radius \in 1 .. Byte - 1
  /\ \A p \in Path : p \in Seq(0 .. Broadcast) /\ Len(p) < CountRange
  /\ \A d \in Data :
       d \in [secure : BOOLEAN, dstEp : 0 .. Byte - 1, cluster : 0 .. Broadcast, srcEp : 0 .. Byte - 1,
              payload : Seq(0 .. Byte - 1)]

-----------------------------------------------------------------------------
(* The frames.                                                             *)

RouteFlag == 8      \* of the frame control
Extension == 4      \* starts a source route in the header

(* Mutant: the flag is forgotten. *)
BuildNwkFrameUnflagged(payload, dstAddr, srcAddr, radius, seqNum, srcRoute) ==
  <<0, seqNum>> \o Field(dstAddr) \o Field(srcAddr) \o <<radius>>
  \o (IF srcRoute = <<>> THEN <<>> ELSE <<Extension, Len(srcRoute) % CountRange>> \o Fields(srcRoute))
  \o payload

BuildNwkFrame(payload, dstAddr, srcAddr, radius, seqNum, srcRoute) ==
  <<IF srcRoute = <<>> THEN 0 ELSE RouteFlag, seqNum>>
  \o Field(dstAddr) \o Field(srcAddr) \o <<radius>>
  \o (IF srcRoute = <<>> THEN <<>> ELSE <<Extension, Len(srcRoute) % CountRange>> \o Fields(srcRoute))
  \o payload

Refused == [ok |-> FALSE]
Header(f, hops, payload) ==
  [ok |-> TRUE, seq |-> f[2], dst |-> FieldAt(f, 3), src |-> FieldAt(f, 5), radius |-> f[7],
   path |-> hops, payload |-> payload]

(* The extension is looked for only if there is a byte after its first. *)
Extended(f) == Bit(f[1], RouteFlag) /\ Len(f) > 8 /\ f[8] = Extension

(* Mutant: as many hops as there are, whatever the count. *)
ParseNwkHeaderTakesRest(f) ==
  CASE Len(f) < 7 -> Refused
    [] Len(f) >= 7 /\ Extended(f) ->
         LET rest == (Len(f) - 9) \div 2
             n    == IF f[9] <= rest THEN f[9] ELSE rest
         IN  Header(f, FieldsAt(f, 10, n), Rest(f, 10 + 2 * n))
    [] OTHER -> Header(f, <<>>, Rest(f, 8))

ParseNwkHeader(f) ==
  CASE Len(f) < 7 -> Refused
    [] Len(f) >= 7 /\ Extended(f) ->
         IF Len(f) < 9 + 2 * f[9] THEN Refused
         ELSE Header(f, FieldsAt(f, 10, f[9]), Rest(f, 10 + 2 * f[9]))
    [] OTHER -> Header(f, <<>>, Rest(f, 8))

(* The NwkCommand that handleInboundMacFrame finds; 0 is data. *)
RouteRequest == 1
ManyToOne    == 3
RouteRecord  == 4
RouteError   == 5
LinkStatus   == 6
Command(h) ==
  IF h.ok /\ h.payload # <<>> /\ h.payload[1] \in RouteRequest .. LinkStatus THEN h.payload[1] ELSE 0

(* The length checks of the four handlers that read what follows. *)
ManyToOneIsLong(s)   == Len(s) >= 2
RouteRecordIsLong(s) == Len(s) >= 2 /\ Len(s) >= 2 + 2 * s[2]
RouteErrorIsLong(s)  == Len(s) >= 5
LinkStatusIsLong(s)  == Len(s) >= 2 /\ Len(s) >= 2 + 3 * s[2]

(* A command whose handler gets past its length checks. *)
Complete(h) ==
  \/ Command(h) = ManyToOne /\ ManyToOneIsLong(h.payload)
  \/ Command(h) = RouteRecord /\ RouteRecordIsLong(h.payload)
  \/ Command(h) = RouteError /\ RouteErrorIsLong(h.payload)
  \/ Command(h) = LinkStatus /\ LinkStatusIsLong(h.payload)

(* An APS frame.  The ciphers of SecurityManager copy what they are given; *)
(* data is sent secured only where the link key is set.                    *)
ApsSecurity == 64
ApsCounter  == 34

(* Mutant: the wrong nibble. *)
ApsFrameLowNibble(d) ==
  <<IF d.secure THEN 4 ELSE 0, ApsCounter, d.dstEp>> \o Field(d.cluster) \o <<d.srcEp>> \o d.payload

ApsFrame(d) ==
  <<IF d.secure THEN ApsSecurity ELSE 0, ApsCounter, d.dstEp>> \o Field(d.cluster) \o <<d.srcEp>> \o d.payload

(* What handleNwkPayload takes out of it, from six bytes on. *)
ApsIndication(s) ==
  [secure |-> Bit(s[1], ApsSecurity), dstEp |-> s[3], cluster |-> FieldAt(s, 4), srcEp |-> s[6],
   payload |-> Rest(s, 7)]

-----------------------------------------------------------------------------

VARIABLES
  state,    \* m_routeTable: the RouteState of each entry
  route,    \* and its sourceRoute
  pc,       \* where the thread that holds m_mutex is, in sendNwkFrame
  want,     \* what it was given: the message
  useSrc,   \* useSrcRoute
  path,     \* routePath
  torn,     \* routePath was copied while it was written
  frame,    \* nwkFrame
  seq,      \* m_sequenceNumber
  rx,       \* where the rx thread is, in setRoute or repairRoute
  learned,  \* its arguments
  rpc,      \* where the caller of repairRoute is
  broken,   \* its argument
  overtaken \* threads that have decided on a discovery, and then its destination came under repair

sender == <<pc, want, useSrc, path, torn, frame, seq>>
radio  == <<rx, learned>>
repair == <<rpc, broken>>
vars   == <<state, route, pc, want, useSrc, path, torn, frame, seq, rx, learned, rpc, broken, overtaken>>

RouteStates == {"absent", "idle", "discovery", "active", "repair", "failed"}
InProgress  == {"discovery", "repair"}

Nothing == [dst |-> Broadcast, payload |-> <<>>, radius |-> 0]
Nowhere == [dst |-> Broadcast, path |-> <<>>]

Message(dstAddr, payload, radius) == [dst |-> dstAddr, payload |-> payload, radius |-> radius]

(* What is sent: application data, a many-to-one request, a link status    *)
(* of one neighbour.                                                       *)
DataMessage     == {Message(a, ApsFrame(d), 0) : a \in Addr, d \in Data}
CommandMessage  == {Message(Broadcast, <<ManyToOne, 5>>, 0)}
  \cup {Message(Broadcast, <<LinkStatus, 1>> \o Field(a) \o <<200>>, 2) : a \in Dest}
Discovery(a)    == Message(Broadcast, <<RouteRequest, 1>> \o Field(a), 0)
Messages        == DataMessage \cup CommandMessage \cup {Discovery(a) : a \in Dest}

(* What other nodes send about routes, and whatever is left of it when it  *)
(* arrives cut.  A route that a node records ends at that node.            *)
PathsOf(a) == {p \in Path : p = <<>> \/ Last(p) = a}
News(a) ==
  {<<RouteRecord, Len(p)>> \o Fields(p) : p \in PathsOf(a)} \cup {<<ManyToOne, 1>>}
  \cup {<<RouteError>> \o Field(o) \o Field(b) : o \in {Own, a}, b \in Dest}
WholeFrames == UNION {{BuildNwkFrame(s, Own, a, 1, 0, <<>>) : s \in News(a)} : a \in Dest}
Heard == UNION {{SubSeq(f, 1, n) : n \in 0 .. Len(f)} : f \in WholeFrames}

Init ==
  /\ state = [a \in Dest |-> "absent"] /\ route = [a \in Dest |-> <<>>]
  /\ pc = "idle" /\ want = Nothing /\ useSrc = FALSE /\ path = <<>> /\ torn = FALSE
  /\ frame = <<>> /\ seq = 0
  /\ rx = "idle" /\ learned = Nowhere
  /\ rpc = "idle" /\ broken = Broadcast
  /\ overtaken = {}

(* m_routeTable[a] makes the entry if there is none. *)
Entered(a) == IF state[a] = "absent" THEN [state EXCEPT ![a] = "idle"] ELSE state

(* Who is between the test and the assignment of initiateRouteDiscovery(a). *)
Deciding(a) ==
  {t \in {"sender", "caller"} :
     \/ t = "sender" /\ pc = "mark" /\ want.dst = a
     \/ t = "caller" /\ rpc = "mark" /\ broken = a}

(* The two assignments to the state that initiateRouteDiscovery and        *)
(* repairRoute make; what overtaken is told of them.                       *)
MarkDiscovery(a, thread) ==
  /\ state' = [state EXCEPT ![a] = "discovery"]
  /\ overtaken' = overtaken \ {thread}

MarkRepair(a) ==
  /\ state' = [state EXCEPT ![a] = "repair"]
  /\ overtaken' = overtaken \cup Deciding(a)

-----------------------------------------------------------------------------
(* sendNwkFrame, with m_mutex                                              *)

Send(m) ==
  /\ pc = "idle"
  /\ want' = m
  /\ pc' = IF m.dst = Broadcast THEN "build" ELSE "lookup"
  /\ UNCHANGED <<state, route, useSrc, path, torn, frame, seq, radio, repair, overtaken>>

(* lookupRoute *)
LookupRoute ==
  /\ pc = "lookup"
  /\ IF state[want.dst] = "active"
     THEN /\ useSrc' = (route[want.dst] # <<>>)
          /\ pc' = IF useSrc' THEN "copy" ELSE "build"
     ELSE /\ pc' = "discover"
          /\ UNCHANGED useSrc
  /\ UNCHANGED <<state, route, want, path, torn, frame, seq, radio, repair, overtaken>>

(* Mutant: only a discovery counts as one in progress. *)
SenderDiscoversAgain ==
  /\ pc = "discover"
  /\ state' = Entered(want.dst)
  /\ IF state[want.dst] = "discovery"
     THEN pc' = "idle" /\ want' = Nothing
     ELSE pc' = "mark" /\ UNCHANGED want
  /\ UNCHANGED <<route, useSrc, path, torn, frame, seq, radio, repair, overtaken>>

(* initiateRouteDiscovery: nothing if one is going on (the state, which is *)
(* compared with two others, is read once) ...                             *)
SenderDiscovers ==
  /\ pc = "discover"
  /\ state' = Entered(want.dst)
  /\ IF state[want.dst] \in InProgress
     THEN pc' = "idle" /\ want' = Nothing
     ELSE pc' = "mark" /\ UNCHANGED want
  /\ UNCHANGED <<route, useSrc, path, torn, frame, seq, radio, repair, overtaken>>

(* ... otherwise a request, which never gets past m_mutex.  The threads    *)
(* without m_mutex may have written to the state since.                    *)
SenderMarks ==
  /\ pc = "mark"
  /\ MarkDiscovery(want.dst, "sender")
  /\ pc' = "hung"
  /\ UNCHANGED <<route, want, useSrc, path, torn, frame, seq, radio, repair>>

(* A copy made while the rx thread assigns another path: the length of     *)
(* either, and in each place a hop of either.                              *)
Mixed(old, new) ==
  UNION {[1 .. n -> Range(old) \cup Range(new)] : n \in {Len(old), Len(new)}}

Assigned(a) == rx = "assign" /\ learned.dst = a

CopyRoute ==
  /\ pc = "copy"
  /\ path' = route[want.dst]
  /\ pc' = "build"
  /\ UNCHANGED <<state, route, want, useSrc, torn, frame, seq, radio, repair, overtaken>>

CopyTornRoute ==
  /\ pc = "copy"
  /\ Assigned(want.dst)
  /\ path' \in Mixed(route[want.dst], learned.path)
  /\ torn' = TRUE
  /\ pc' = "build"
  /\ UNCHANGED <<state, route, want, useSrc, frame, seq, radio, repair, overtaken>>

(* Mutant: the number does not wrap. *)
BuildFrameCountsOn ==
  /\ pc = "build"
  /\ frame' = BuildNwkFrame(want.payload, want.dst, Own,
                            IF want.radius = 0 THEN Radius ELSE want.radius, seq, path)
  /\ seq' = seq + 1
  /\ pc' = "sent"
  /\ UNCHANGED <<state, route, want, useSrc, path, torn, radio, repair, overtaken>>

BuildFrame ==
  /\ pc = "build"
  /\ frame' = BuildNwkFrame(want.payload, want.dst, Own,
                            IF want.radius = 0 THEN Radius ELSE want.radius, seq, path)
  /\ seq' = (seq + 1) % SeqRange
  /\ pc' = "sent"
  /\ UNCHANGED <<state, route, want, useSrc, path, torn, radio, repair, overtaken>>

SendReturns ==
  /\ pc = "sent"
  /\ pc' = "idle" /\ want' = Nothing
  /\ useSrc' = FALSE /\ path' = <<>> /\ torn' = FALSE /\ frame' = <<>>
  /\ UNCHANGED <<state, route, seq, radio, repair, overtaken>>

-----------------------------------------------------------------------------
(* handleInboundMacFrame, on the rx thread                                 *)

(* setRoute is called with l. *)
Learn(l) ==
  /\ learned' = l
  /\ rx' = "enter"
  /\ UNCHANGED <<state, route, sender, repair, overtaken>>

(* Mutant: the length is not checked, the hops that are there are taken. *)
HearRouteRecordUnchecked(f) ==
  LET h == ParseNwkHeader(f)
      s == h.payload
      n == IF 2 + 2 * s[2] <= Len(s) THEN s[2] ELSE (Len(s) - 2) \div 2
  IN  /\ rx = "idle"
      /\ Command(h) = RouteRecord /\ Len(s) >= 2
      /\ Learn([dst |-> h.src, path |-> FieldsAt(s, 3, n)])

HearRouteRecord(f) ==
  LET h == ParseNwkHeader(f)
      s == h.payload
  IN  /\ rx = "idle"
      /\ Command(h) = RouteRecord /\ Complete(h)
      /\ Learn([dst |-> h.src, path |-> FieldsAt(s, 3, s[2])])

(* Of radius one: it is not broadcast again. *)
HearManyToOne(f) ==
  LET h == ParseNwkHeader(f)
  IN  /\ rx = "idle"
      /\ Command(h) = ManyToOne /\ Complete(h)
      /\ h.radius <= 1
      /\ Learn([dst |-> h.src, path |-> <<>>])

(* setRoute *)
EnterRoute ==
  /\ rx = "enter"
  /\ state' = Entered(learned.dst)
  /\ rx' = "activate"
  /\ UNCHANGED <<route, learned, sender, repair, overtaken>>

ActivateRoute ==
  /\ rx = "activate"
  /\ state' = [state EXCEPT ![learned.dst] = "active"]
  /\ rx' = "assign"
  /\ UNCHANGED <<route, learned, sender, repair, overtaken>>

AssignRoute ==
  /\ rx = "assign"
  /\ route' = [route EXCEPT ![learned.dst] = learned.path]
  /\ rx' = "idle" /\ learned' = Nowhere
  /\ UNCHANGED <<state, sender, repair, overtaken>>

(* For a route of this node that is in the table. *)
HearRouteError(f) ==
  LET h == ParseNwkHeader(f)
      b == FieldAt(h.payload, 4)
  IN  /\ rx = "idle"
      /\ Command(h) = RouteError /\ Complete(h)
      /\ FieldAt(h.payload, 2) = Own
      /\ state[b] # "absent"
      /\ state' = [state EXCEPT ![b] = "failed"]
      /\ learned' = [dst |-> b, path |-> <<>>]
      /\ rx' = "repair"
      /\ UNCHANGED <<route, sender, repair, overtaken>>

RxRepairs ==
  /\ rx = "repair"
  /\ MarkRepair(learned.dst)
  /\ rx' = "discover"
  /\ UNCHANGED <<route, learned, sender, repair>>

(* The other threads only ever write a state that is in progress: this one *)
(* finds it so, and never gets to the assignment (TypeOK has no such place).*)
RxDiscovers ==
  /\ rx = "discover"
  /\ IF state[learned.dst] \in InProgress
     THEN rx' = "idle" /\ learned' = Nowhere
     ELSE rx' = "mark" /\ UNCHANGED learned
  /\ UNCHANGED <<state, route, sender, repair, overtaken>>

-----------------------------------------------------------------------------
(* repairRoute, called by the application                                  *)

RepairRoute(a) ==
  /\ rpc = "idle"
  /\ state[a] # "absent"
  /\ MarkRepair(a)
  /\ rpc' = "discover" /\ broken' = a
  /\ UNCHANGED <<route, sender, radio>>

RepairDiscovers ==
  /\ rpc = "discover"
  /\ IF state[broken] \in InProgress
     THEN rpc' = "idle" /\ broken' = Broadcast
     ELSE rpc' = "mark" /\ UNCHANGED broken
  /\ UNCHANGED <<state, route, sender, radio, overtaken>>

RepairMarks ==
  /\ rpc = "mark"
  /\ MarkDiscovery(broken, "caller")
  /\ rpc' = "request"
  /\ UNCHANGED <<route, broken, sender, radio>>

(* sendNwkFrame of the request, once m_mutex is free. *)
RepairRequests ==
  /\ rpc = "request" /\ pc = "idle"
  /\ want' = Discovery(broken)
  /\ pc' = "build"
  /\ rpc' = "idle" /\ broken' = Broadcast
  /\ UNCHANGED <<state, route, useSrc, path, torn, frame, seq, radio, overtaken>>

-----------------------------------------------------------------------------

SenderStep ==
  \/ \E m \in DataMessage \cup CommandMessage : Send(m)
  \/ LookupRoute \/ SenderDiscovers \/ SenderMarks \/ CopyRoute \/ CopyTornRoute \/ BuildFrame \/ SendReturns

RxStep ==
  \/ \E f \in Heard : HearRouteRecord(f) \/ HearManyToOne(f) \/ HearRouteError(f)
  \/ EnterRoute \/ ActivateRoute \/ AssignRoute \/ RxRepairs \/ RxDiscovers

RepairStep == (\E a \in Dest : RepairRoute(a)) \/ RepairDiscovers \/ RepairMarks \/ RepairRequests

Next == SenderStep \/ RxStep \/ RepairStep

Spec == Init /\ [][Next]_vars

-----------------------------------------------------------------------------
(* Correctness.                                                            *)

(* Every variable has its type. *)
TypeOK ==
  /\ state \in [Dest -> RouteStates]
  /\ route \in [Dest -> Seq(0 .. Broadcast)]
  /\ pc \in {"idle", "lookup", "discover", "mark", "copy", "build", "sent", "hung"}
  /\ want \in Messages \cup {Nothing}
  /\ useSrc \in BOOLEAN
  /\ path \in Seq(0 .. Broadcast)
  /\ torn \in BOOLEAN
  /\ frame \in Seq(0 .. Byte - 1)
  /\ seq \in 0 .. SeqRange - 1
  /\ rx \in {"idle", "enter", "activate", "assign", "repair", "discover"}
  /\ learned \in [dst : Addr, path : Seq(0 .. Broadcast)]
  /\ rpc \in {"idle", "discover", "mark", "request"}
  /\ broken \in Addr
  /\ overtaken \subseteq {"sender", "caller"}

(* parseNwkHeader finds in every frame that sendNwkFrame has built what    *)
(* went into it, even when the route changed, or was being written to,     *)
(* between the lookup and the copy.                                        *)
FrameParsesBack ==
  pc = "sent" =>
    LET h == ParseNwkHeader(frame)
    IN  /\ h.ok
        /\ h.dst = want.dst /\ h.src = Own /\ h.radius > 0
        /\ h.path = path /\ h.payload = want.payload

(* Data of the APS is never taken for a network command by the node it     *)
(* gets to, which indicates the endpoints, the cluster and the payload     *)
(* that the sender named.                                                  *)
DataIsIndicated ==
  pc = "sent" =>
    LET h == ParseNwkHeader(frame)
    IN  \A d \in Data :
          want.payload = ApsFrame(d) => Command(h) = 0 /\ ApsIndication(h.payload) = d

(* A frame that arrives cut is refused, or has its whole source route and  *)
(* no command that a handler acts on: parseNwkHeader and the handlers      *)
(* check enough lengths between them.                                      *)
CutFramesAreHarmless ==
  pc = "sent" =>
    \A n \in 0 .. Len(frame) - 1 :
      LET h == ParseNwkHeader(SubSeq(frame, 1, n))
      IN  /\ ~Complete(h)
          /\ h.ok => h.path = path \/ h.payload \in {<<>>, <<Extension>>}

(* The table holds only whole source routes, that end at their             *)
(* destination, and a frame carries one unless the copy was torn.          *)
RoutesEndAtTheirDestination ==
  /\ \A a \in Dest : route[a] # <<>> => Last(route[a]) = a
  /\ path # <<>> /\ ~torn => Last(path) = want.dst

(* A destination that is under repair leaves that state by news of it that *)
(* the rx thread hears, or by a discovery on which a thread had decided    *)
(* before the repair began: whoever asks for a discovery while it lasts,   *)
(* repairRoute included, finds it in progress and leaves it alone.         *)
RepairEndsByNewsOrOverlap ==
  [][\A a \in Dest : state[a] = "repair" /\ state'[a] # "repair" =>
       \/ learned'.dst = a /\ state'[a] \in {"active", "failed"}
       \/ state'[a] = "discovery" /\ \E t \in overtaken : t \in Deciding(a) /\ t \notin Deciding(a)']_vars

(* What the comment at the end of repairRoute says, that it does a new     *)
(* route discovery: no destination is left under repair once repairRoute   *)
(* is through with it.                                                     *)
RepairIsUnderWay ==
  \A a \in Dest : state[a] = "repair" =>
    (rpc # "idle" /\ broken = a) \/ (rx # "idle" /\ learned.dst = a)
=============================================================================
