------------------------------ MODULE ZohStack ------------------------------
(***************************************************************************)
(* The threads, mutexes and callbacks of the whole libzoh stack:           *)
(*                                                                         *)
(*   application threads -> ZDO -> APS -> NWK -> MAC -> Spinel driver      *)
(*   rx thread (RawSpinelDriver::rxLoop) -> MAC -> NWK -> APS -> ZDO       *)
(*   maintenance thread (ZigbeeNwk::maintenanceThreadLoop) -> NWK -> ...   *)
(*                                                                         *)
(* Each layer has one non-recursive std::mutex and calls the next layer,   *)
(* or its callbacks, with that mutex held.  A step of this module is the   *)
(* code between two points where a thread can be held up: taking one of    *)
(* the three mutexes that are held across calls, joining a thread, reading *)
(* the port, or touching a std::function that another thread may be        *)
(* changing.  The send mutex of the driver and the mutex of                *)
(* SecurityManager are leaves: nothing is called with them held, so their  *)
(* critical sections are part of the step that enters them.                *)
(*                                                                         *)
(* Data is kept only where it decides control: the state of a route, the   *)
(* kind of the frame received, whether the node has a short address.       *)
(***************************************************************************)
EXTENDS Naturals, FiniteSets

CONSTANTS
  App,       \* application threads, the callers of the public interface
  Addr,      \* short addresses of other nodes
  Calls,     \* which public operations the application uses
  Traffic,   \* which kinds of frame the radio hands to the rx thread
  MaxCalls   \* calls the application makes in all (bounds the model)

Rx    == "rx"      \* RawSpinelDriver::m_rxThread
Maint == "maint"   \* ZigbeeNwk::m_maintenanceThread
Threads == App \cup {Rx, Maint}

NoThread  == "none"
Broadcast == "broadcast"                \* 0xFFFF
Mutex     == {"aps", "nwk", "mac"}
Layer     == {"aps", "nwk", "mac", "spinel"}

CallKinds == {"start", "stop", "send", "broadcast", "manyToOne", "repair", "config", "association"}

(* What handleSpinelFrame and handleInboundMacFrame tell apart:            *)
(*   drop        nothing to do: parse failure, link status, route request  *)
(*               or reply (stubs), a route error for another node          *)
(*   assoc       a MAC association request                                 *)
(*   learn       a route record, or a many-to-one request of radius <= 1   *)
(*   relay       a many-to-one request of radius > 1                       *)
(*   routeError  a route error naming this node as the origin              *)
(*   forward     data for another node, no source route in the header      *)
(*   srcForward  data for another node, source route through this node     *)
(*   data        data for this node no ZDO handler answers                 *)
(*   request     a ZDO request for this node that is answered              *)
(*   txStatus    the radio reports the outcome of a transmission           *)
(*   property    any other Spinel property                                 *)
RawKinds   == {"drop", "assoc", "learn", "relay", "routeError", "forward",
               "srcForward", "data", "request"}
EventKinds == {"txStatus", "property"}

ASSUME ConstantsAssumption ==
  /\ App \cap {Rx, Maint, NoThread} = {}
  /\ Broadcast \notin Addr
  /\ Addr # {}
  /\ Calls \subseteq CallKinds
  /\ Traffic \subseteq RawKinds \cup EventKinds
  /\ MaxCalls \in Nat

Frame   == [kind : RawKinds \cup EventKinds, addr : Addr]
NoFrame == [kind |-> "none", addr |-> Broadcast]

VARIABLES
  pc,        \* where each thread is
  ret,       \* where the sendNwkFrame a thread is in returns to
  dst,       \* the destination that sendNwkFrame was given
  calls,     \* calls the application has made
  owner,     \* the thread that holds each mutex
  running,   \* m_running of each layer
  handler,   \* which callbacks are set
  route,     \* m_routeTable, as the state of each entry
  frame,     \* the frame the rx thread is handling
  hasAddr,   \* m_ownShortAddr # 0xFFFF
  assoc,     \* m_macAssocEnabled
  fault      \* why the process was terminated, or "ok"

locals  == <<ret, dst, calls>>
shared  == <<owner, running, handler, route, frame, assoc>>
vars    == <<pc, ret, dst, calls, owner, running, handler, route, frame, hasAddr, assoc, fault>>

-----------------------------------------------------------------------------
(* Where a thread can be.  A label names the operation about to happen.    *)

StartPath == {"zdoStart", "apsStart", "setNwkCb", "nwkStart", "setFrameCb", "setTxDoneCb",
              "spawnMaint", "macStart"}
StopPath  == {"apsStop", "clearNwkCb", "nwkStop", "clearFrameCb", "clearTxDoneCb", "joinMaint",
              "macStop", "clearRawCb", "clearEventCb", "spinelStop", "joinRx"}
SendPath  == {"nwkLock", "nwkDiscover", "nwkMark", "nwkRelock", "macLock"}
AppLabel  == {"idle", "apsSend", "apsUnlock", "repair", "repairDiscover", "repairMark", "macConfig",
              "macAssoc"} \cup StartPath \cup StopPath \cup SendPath
RxLabel   == {"none", "ended", "rxLoop", "rxRead", "rxDone", "rawCheck", "rawCall", "rxAssoc",
              "rxMacLock", "rxHandle", "rxRepair", "nwkCbCall", "rxApsLock", "apsSend",
              "apsUnlock", "rxMacUnlock", "eventCheck", "eventCall", "eventMacLock", "txDone"} \cup SendPath
MaintLabel == {"none", "ended", "mtLoop", "mtSleep", "mtPrune"} \cup SendPath
Label     == AppLabel \cup RxLabel \cup MaintLabel
Return    == {"idle", "apsUnlock", "rxMacUnlock", "mtPrune"}

RouteStates == {"absent", "idle", "discovery", "active", "repair", "failed"}
InProgress  == {"discovery", "repair"}
Callbacks == {"aps", "nwk", "frame", "txDone", "raw", "event"}
Faults == {"ok", "nullCallback", "threadOverwritten"}

Init ==
  /\ pc      = [t \in Threads |-> IF t \in App THEN "idle" ELSE "none"]
  /\ ret     = [t \in Threads |-> "idle"]
  /\ dst     = [t \in Threads |-> Broadcast]
  /\ calls   = 0
  /\ owner   = [m \in Mutex |-> NoThread]
  /\ running = [l \in Layer |-> FALSE]
  /\ handler = [c \in Callbacks |-> FALSE]
  /\ route   = [a \in Addr |-> "absent"]
  /\ frame   = NoFrame
  /\ hasAddr \in BOOLEAN     \* m_ownShortAddr is never assigned: any value
  /\ assoc   = FALSE
  /\ fault   = "ok"

Goto(t, l)   == pc' = [pc EXCEPT ![t] = l]
Free(m)      == owner[m] = NoThread
Acquire(t, m) == Free(m) /\ owner' = [owner EXCEPT ![m] = t]
Release(ms)  == owner' = [m \in Mutex |-> IF m \in ms THEN NoThread ELSE owner[m]]
SetHandlers(cs, on) == handler' = [c \in Callbacks |-> IF c \in cs THEN on ELSE handler[c]]

(* A critical section that calls nothing that can block is one step: the   *)
(* mutex must be free, and is free again when the step ends.               *)
UnderLock(t, m, from, to) == pc[t] = from /\ Free(m) /\ Goto(t, to)

-----------------------------------------------------------------------------
(* Application calls.                                                      *)

Entry(k) ==
  CASE k = "start" -> "zdoStart"
    [] k = "stop" -> "apsStop"
    [] k \in {"send", "broadcast"} -> "apsSend"
    [] k = "manyToOne" -> "nwkLock"
    [] k = "repair" -> "repair"
    [] k = "config" -> "macConfig"
    [] k = "association" -> "macAssoc"

Call(t, k, d) ==
  /\ pc[t] = "idle"
  /\ calls < MaxCalls
  /\ d # Broadcast <=> k \in {"send", "repair"}
  /\ calls' = calls + 1
  /\ dst' = [dst EXCEPT ![t] = d]
  /\ ret' = [ret EXCEPT ![t] = "idle"]
  /\ Goto(t, Entry(k))
  /\ UNCHANGED <<shared, hasAddr, fault>>

(* ZigbeeNwk::repairRoute called by the application: it takes no mutex. *)
Repair(t) ==
  /\ pc[t] = "repair"
  /\ IF route[dst[t]] = "absent"
     THEN Goto(t, "idle") /\ UNCHANGED route
     ELSE route' = [route EXCEPT ![dst[t]] = "repair"] /\ Goto(t, "repairDiscover")
  /\ UNCHANGED <<locals, owner, running, handler, frame, hasAddr, assoc, fault>>

(* ZigbeeMac::setChannel, setPanId, setExtendedAddress *)
MacConfig(t) ==
  /\ UnderLock(t, "mac", "macConfig", "idle")
  /\ UNCHANGED <<locals, shared, hasAddr, fault>>

(* ZigbeeMac::enableMacAssociation *)
MacAssoc(t) ==
  /\ UnderLock(t, "mac", "macAssoc", "idle")
  /\ assoc' \in BOOLEAN
  /\ UNCHANGED <<locals, owner, running, handler, route, frame, hasAddr, fault>>

-----------------------------------------------------------------------------
(* Starting the stack, from ZDO down to the driver.                        *)

ZdoStart(t) ==
  /\ UnderLock(t, "aps", "zdoStart", "apsStart")
  /\ SetHandlers({"aps"}, TRUE)
  /\ UNCHANGED <<locals, owner, running, route, frame, hasAddr, assoc, fault>>

ApsStart(t) ==
  /\ pc[t] = "apsStart"
  /\ Free("aps")
  /\ IF running["aps"]
     THEN Goto(t, "idle") /\ UNCHANGED <<owner, running>>
     ELSE /\ Acquire(t, "aps")
          /\ running' = [running EXCEPT !["aps"] = TRUE]
          /\ Goto(t, "setNwkCb")
  /\ UNCHANGED <<locals, handler, route, frame, hasAddr, assoc, fault>>

SetNwkCb(t) ==
  /\ UnderLock(t, "nwk", "setNwkCb", "nwkStart")
  /\ SetHandlers({"nwk"}, TRUE)
  /\ UNCHANGED <<locals, owner, running, route, frame, hasAddr, assoc, fault>>

NwkStart(t) ==
  /\ pc[t] = "nwkStart"
  /\ Free("nwk")
  /\ IF running["nwk"]
     THEN Release({"aps"}) /\ Goto(t, "idle") /\ UNCHANGED running
     ELSE /\ Acquire(t, "nwk")
          /\ running' = [running EXCEPT !["nwk"] = TRUE]
          /\ Goto(t, "setFrameCb")
  /\ UNCHANGED <<locals, handler, route, frame, hasAddr, assoc, fault>>

SetFrameCb(t) ==
  /\ UnderLock(t, "mac", "setFrameCb", "setTxDoneCb")
  /\ SetHandlers({"frame"}, TRUE)
  /\ UNCHANGED <<locals, owner, running, route, frame, hasAddr, assoc, fault>>

SetTxDoneCb(t) ==
  /\ UnderLock(t, "mac", "setTxDoneCb", "spawnMaint")
  /\ SetHandlers({"txDone"}, TRUE)
  /\ UNCHANGED <<locals, owner, running, route, frame, hasAddr, assoc, fault>>

(* Assigning a std::thread to one that is still joinable terminates. *)
SpawnMaint(t) ==
  /\ pc[t] = "spawnMaint"
  /\ pc' = [pc EXCEPT ![t] = "macStart", ![Maint] = "mtLoop"]
  /\ fault' = IF pc[Maint] = "none" THEN fault ELSE "threadOverwritten"
  /\ UNCHANGED <<locals, shared, hasAddr>>

(* ZigbeeMac::start, with RawSpinelDriver::start inside it; then NWK and   *)
(* APS release their mutexes and the call returns.                         *)
MacStart(t) ==
  /\ pc[t] = "macStart"
  /\ Free("mac")
  /\ IF running["mac"]
     THEN Goto(t, "idle") /\ UNCHANGED <<running, handler, fault>>
     ELSE /\ running' = [running EXCEPT !["mac"] = TRUE, !["spinel"] = TRUE]
          /\ SetHandlers({"raw", "event"}, TRUE)
          /\ IF running["spinel"]
             THEN Goto(t, "idle") /\ UNCHANGED fault
             ELSE /\ pc' = [pc EXCEPT ![t] = "idle", ![Rx] = "rxLoop"]
                  /\ fault' = IF pc[Rx] = "none" THEN fault ELSE "threadOverwritten"
  /\ Release({"nwk", "aps"})
  /\ UNCHANGED <<locals, route, frame, hasAddr, assoc>>

-----------------------------------------------------------------------------
(* Stopping the stack.  Every layer stops the one below with its own mutex *)
(* held, and the threads are joined under all the mutexes above them.      *)

ApsStop(t) ==
  /\ pc[t] = "apsStop"
  /\ Free("aps")
  /\ IF ~running["aps"]
     THEN Goto(t, "idle") /\ UNCHANGED <<owner, running>>
     ELSE /\ Acquire(t, "aps")
          /\ running' = [running EXCEPT !["aps"] = FALSE]
          /\ Goto(t, "clearNwkCb")
  /\ UNCHANGED <<locals, handler, route, frame, hasAddr, assoc, fault>>

ClearNwkCb(t) ==
  /\ UnderLock(t, "nwk", "clearNwkCb", "nwkStop")
  /\ SetHandlers({"nwk"}, FALSE)
  /\ UNCHANGED <<locals, owner, running, route, frame, hasAddr, assoc, fault>>

NwkStop(t) ==
  /\ pc[t] = "nwkStop"
  /\ Free("nwk")
  /\ IF ~running["nwk"]
     THEN Release({"aps"}) /\ Goto(t, "idle") /\ UNCHANGED running
     ELSE /\ Acquire(t, "nwk")
          /\ running' = [running EXCEPT !["nwk"] = FALSE]
          /\ Goto(t, "clearFrameCb")
  /\ UNCHANGED <<locals, handler, route, frame, hasAddr, assoc, fault>>

(* Mutant: stop forgets the frame callback. *)
ClearFrameCbForgets(t) ==
  /\ UnderLock(t, "mac", "clearFrameCb", "clearTxDoneCb")
  /\ UNCHANGED <<locals, shared, hasAddr, fault>>

ClearFrameCb(t) ==
  /\ UnderLock(t, "mac", "clearFrameCb", "clearTxDoneCb")
  /\ SetHandlers({"frame"}, FALSE)
  /\ UNCHANGED <<locals, owner, running, route, frame, hasAddr, assoc, fault>>

ClearTxDoneCb(t) ==
  /\ UnderLock(t, "mac", "clearTxDoneCb", "joinMaint")
  /\ SetHandlers({"txDone"}, FALSE)
  /\ UNCHANGED <<locals, owner, running, route, frame, hasAddr, assoc, fault>>

JoinMaint(t) ==
  /\ pc[t] = "joinMaint"
  /\ pc[Maint] \in {"none", "ended"}
  /\ pc' = [pc EXCEPT ![t] = "macStop", ![Maint] = "none"]
  /\ UNCHANGED <<locals, shared, hasAddr, fault>>

MacStop(t) ==
  /\ pc[t] = "macStop"
  /\ Free("mac")
  /\ IF ~running["mac"]
     THEN Release({"nwk", "aps"}) /\ Goto(t, "idle") /\ UNCHANGED running
     ELSE /\ Acquire(t, "mac")
          /\ running' = [running EXCEPT !["mac"] = FALSE]
          /\ Goto(t, "clearRawCb")
  /\ UNCHANGED <<locals, handler, route, frame, hasAddr, assoc, fault>>

(* The driver's two callbacks are guarded by no mutex. *)
ClearRawCb(t) ==
  /\ pc[t] = "clearRawCb"
  /\ SetHandlers({"raw"}, FALSE)
  /\ Goto(t, "clearEventCb")
  /\ UNCHANGED <<locals, owner, running, route, frame, hasAddr, assoc, fault>>

ClearEventCb(t) ==
  /\ pc[t] = "clearEventCb"
  /\ SetHandlers({"event"}, FALSE)
  /\ Goto(t, "spinelStop")
  /\ UNCHANGED <<locals, owner, running, route, frame, hasAddr, assoc, fault>>

SpinelStop(t) ==
  /\ pc[t] = "spinelStop"
  /\ running' = [running EXCEPT !["spinel"] = FALSE]
  /\ Goto(t, "joinRx")
  /\ UNCHANGED <<locals, owner, handler, route, frame, hasAddr, assoc, fault>>

(* Mutant: the rx thread is left running instead of joined. *)
JoinRxDetaches(t) ==
  /\ pc[t] = "joinRx"
  /\ Goto(t, "idle")
  /\ Release({"mac", "nwk", "aps"})
  /\ UNCHANGED <<locals, running, handler, route, frame, hasAddr, assoc, fault>>

(* The join, and the return through MAC, NWK and APS. *)
JoinRx(t) ==
  /\ pc[t] = "joinRx"
  /\ pc[Rx] \in {"none", "ended"}
  /\ pc' = [pc EXCEPT ![t] = "idle", ![Rx] = "none"]
  /\ Release({"mac", "nwk", "aps"})
  /\ UNCHANGED <<locals, running, handler, route, frame, hasAddr, assoc, fault>>

-----------------------------------------------------------------------------
(* Sending: ZigbeeAps::sendApsData, ZigbeeNwk::sendNwkFrame,               *)
(* ZigbeeMac::sendFrame, called by any thread.                             *)

(* The APS refusal returns to the caller: the application, or the ZDO      *)
(* handler that the rx thread runs with the APS mutex held.                *)
ApsSend(t) ==
  /\ pc[t] = "apsSend"
  /\ Free("aps")
  /\ IF running["aps"]
     THEN /\ Acquire(t, "aps")
          /\ ret' = [ret EXCEPT ![t] = "apsUnlock"]
          /\ Goto(t, "nwkLock")
     ELSE Goto(t, IF t = Rx THEN "apsUnlock" ELSE "idle") /\ UNCHANGED <<owner, ret>>
  /\ UNCHANGED <<dst, calls, running, handler, route, frame, hasAddr, assoc, fault>>

(* Mutant: a return that skips the unlock. *)
ApsUnlockForgets(t) ==
  /\ pc[t] = "apsUnlock"
  /\ Goto(t, IF t = Rx THEN "rxMacUnlock" ELSE "idle")
  /\ UNCHANGED <<locals, shared, hasAddr, fault>>

ApsUnlock(t) ==
  /\ pc[t] = "apsUnlock"
  /\ Release({"aps"})
  /\ Goto(t, IF t = Rx THEN "rxMacUnlock" ELSE "idle")
  /\ UNCHANGED <<locals, running, handler, route, frame, hasAddr, assoc, fault>>

AtNwkLock(t) == pc[t] \in {"nwkLock", "nwkRelock"} /\ Free("nwk")
MayTransmitUnchecked == hasAddr         \* Mutant: m_running is not looked at
MayTransmit  == running["nwk"] /\ hasAddr

(* Mutant: the early return leaves m_mutex locked. *)
SendRefusedLeaks(t) ==
  /\ AtNwkLock(t)
  /\ ~MayTransmit
  /\ Acquire(t, "nwk")
  /\ Goto(t, ret[t])
  /\ UNCHANGED <<locals, running, handler, route, frame, hasAddr, assoc, fault>>

(* Mutant: it returns as if only the application sent frames. *)
SendRefusedToApp(t) ==
  /\ AtNwkLock(t)
  /\ ~MayTransmit
  /\ Goto(t, "idle")
  /\ UNCHANGED <<locals, shared, hasAddr, fault>>

(* Not running, or no short address: false, before anything is looked up. *)
SendRefused(t) ==
  /\ AtNwkLock(t)
  /\ ~MayTransmit
  /\ Goto(t, ret[t])
  /\ UNCHANGED <<locals, shared, hasAddr, fault>>

(* A broadcast, or a unicast that lookupRoute finds an ACTIVE route for. *)
SendRouted(t) ==
  /\ AtNwkLock(t)
  /\ MayTransmit
  /\ dst[t] # Broadcast => route[dst[t]] = "active"
  /\ Acquire(t, "nwk")
  /\ Goto(t, "macLock")
  /\ UNCHANGED <<locals, running, handler, route, frame, hasAddr, assoc, fault>>

SendUnrouted(t) ==
  /\ AtNwkLock(t)
  /\ MayTransmit
  /\ dst[t] # Broadcast
  /\ route[dst[t]] # "active"
  /\ Acquire(t, "nwk")
  /\ Goto(t, "nwkDiscover")
  /\ UNCHANGED <<locals, running, handler, route, frame, hasAddr, assoc, fault>>

(* initiateRouteDiscovery, in sendNwkFrame (m_mutex held) or in a call of  *)
(* repairRoute (m_mutex not held).  The state of the entry is read again,  *)
(* and then written: the rx thread and callers of repairRoute change it    *)
(* under no lock.                                                          *)
Discovers(t) == pc[t] \in {"nwkDiscover", "repairDiscover"}

(* A discovery is under way: the frame is discarded. *)
DiscoveryPending(t) ==
  /\ Discovers(t)
  /\ route[dst[t]] \in InProgress
  /\ IF pc[t] = "nwkDiscover" THEN Release({"nwk"}) ELSE UNCHANGED owner
  /\ Goto(t, ret[t])
  /\ UNCHANGED <<locals, running, handler, route, frame, hasAddr, assoc, fault>>

(* Otherwise the entry, which operator[] has made if there was none, is    *)
(* marked ...                                                              *)
DiscoveryStarts(t) ==
  /\ Discovers(t)
  /\ route[dst[t]] \notin InProgress
  /\ route' = [route EXCEPT ![dst[t]] = IF @ = "absent" THEN "idle" ELSE @]
  /\ Goto(t, IF pc[t] = "nwkDiscover" THEN "nwkMark" ELSE "repairMark")
  /\ UNCHANGED <<locals, owner, running, handler, frame, hasAddr, assoc, fault>>

(* ... and sendNwkFrame broadcasts the route request, which takes m_mutex: *)
(* for a thread that comes from sendNwkFrame, a second time.               *)
DiscoveryMarks(t) ==
  /\ pc[t] \in {"nwkMark", "repairMark"}
  /\ route' = [route EXCEPT ![dst[t]] = "discovery"]
  /\ dst' = [dst EXCEPT ![t] = Broadcast]
  /\ Goto(t, IF pc[t] = "nwkMark" THEN "nwkRelock" ELSE "nwkLock")
  /\ UNCHANGED <<ret, calls, owner, running, handler, frame, hasAddr, assoc, fault>>

(* ZigbeeMac::sendFrame writes under the MAC mutex; NWK then returns. *)
SendFrame(t) ==
  /\ pc[t] = "macLock"
  /\ Free("mac")
  /\ Release({"nwk"})
  /\ Goto(t, ret[t])
  /\ UNCHANGED <<locals, running, handler, route, frame, hasAddr, assoc, fault>>

-----------------------------------------------------------------------------
(* The rx thread: rxLoop, handleSpinelFrame, and the handlers above it.    *)

RxLoop ==
  /\ pc[Rx] = "rxLoop"
  /\ Goto(Rx, IF running["spinel"] THEN "rxRead" ELSE "ended")
  /\ UNCHANGED <<locals, shared, hasAddr, fault>>

(* A complete frame, from the port or left in the buffer by an earlier     *)
(* read: m_running is not looked at between two frames of one buffer.      *)
RxFrame(f) ==
  /\ pc[Rx] \in {"rxRead", "rxDone"}
  /\ f.kind \in Traffic
  /\ frame' = f
  /\ Goto(Rx, IF f.kind \in RawKinds THEN "rawCheck" ELSE "eventCheck")
  /\ UNCHANGED <<locals, owner, running, handler, route, hasAddr, assoc, fault>>

(* The read returns no bytes that complete a frame. *)
RxNoFrame ==
  /\ pc[Rx] = "rxRead"
  /\ Goto(Rx, "rxLoop")
  /\ UNCHANGED <<locals, shared, hasAddr, fault>>

(* No complete frame is left in the buffer. *)
RxBufferEmpty ==
  /\ pc[Rx] = "rxDone"
  /\ frame' = NoFrame
  /\ Goto(Rx, "rxLoop")
  /\ UNCHANGED <<locals, owner, running, handler, route, hasAddr, assoc, fault>>

(* if (m_rawUnderMac) ... and the same for m_spinelEventHandler *)
RawCheck ==
  /\ pc[Rx] = "rawCheck"
  /\ Goto(Rx, IF handler["raw"] THEN "rawCall" ELSE "rxDone")
  /\ UNCHANGED <<locals, shared, hasAddr, fault>>

EventCheck ==
  /\ pc[Rx] = "eventCheck"
  /\ Goto(Rx, IF handler["event"] THEN "eventCall" ELSE "rxDone")
  /\ UNCHANGED <<locals, shared, hasAddr, fault>>

(* Calling an empty std::function throws out of the thread: terminate.     *)
(* Otherwise ZigbeeMac::handleInboundRaw runs; it reads m_macAssocEnabled  *)
(* without the mutex.                                                      *)
RawCall ==
  /\ pc[Rx] = "rawCall"
  /\ Goto(Rx, IF assoc /\ frame.kind = "assoc" THEN "rxAssoc" ELSE "rxMacLock")
  /\ fault' = IF handler["raw"] THEN fault ELSE "nullCallback"
  /\ UNCHANGED <<locals, shared, hasAddr>>

(* handleAssociationRequest: build the response and sendFrame it. *)
RxAssoc ==
  /\ UnderLock(Rx, "mac", "rxAssoc", "rxDone")
  /\ UNCHANGED <<locals, shared, hasAddr, fault>>

(* Mutant: the handler is copied, and called after the unlock. *)
RxMacLockCopies ==
  /\ UnderLock(Rx, "mac", "rxMacLock", IF handler["frame"] THEN "rxHandle" ELSE "rxDone")
  /\ UNCHANGED <<locals, shared, hasAddr, fault>>

(* The rest of handleInboundRaw: the NWK handler runs under the mutex. *)
RxMacLock ==
  /\ pc[Rx] = "rxMacLock"
  /\ Free("mac")
  /\ IF handler["frame"]
     THEN Acquire(Rx, "mac") /\ Goto(Rx, "rxHandle")
     ELSE Goto(Rx, "rxDone") /\ UNCHANGED owner
  /\ UNCHANGED <<locals, running, handler, route, frame, hasAddr, assoc, fault>>

(* ZigbeeNwk::handleInboundMacFrame, which takes no mutex of its own. *)
RxHandles(kinds) == pc[Rx] = "rxHandle" /\ frame.kind \in kinds

RxSends(d) ==
  /\ dst' = [dst EXCEPT ![Rx] = d]
  /\ ret' = [ret EXCEPT ![Rx] = "rxMacUnlock"]
  /\ Goto(Rx, "nwkLock")

RxDrop ==
  /\ RxHandles({"drop", "assoc"})
  /\ Goto(Rx, "rxMacUnlock")
  /\ UNCHANGED <<locals, shared, hasAddr, fault>>

(* Mutant: a many-to-one request is relayed whatever its radius. *)
RxLearnRelays ==
  /\ RxHandles({"learn"})
  /\ route' = [route EXCEPT ![frame.addr] = "active"]
  /\ RxSends(Broadcast)
  /\ UNCHANGED <<calls, owner, running, handler, frame, hasAddr, assoc, fault>>

RxLearn ==
  /\ RxHandles({"learn"})
  /\ route' = [route EXCEPT ![frame.addr] = "active"]
  /\ Goto(Rx, "rxMacUnlock")
  /\ UNCHANGED <<locals, owner, running, handler, frame, hasAddr, assoc, fault>>

RxRelay ==
  /\ RxHandles({"relay"})
  /\ route' = [route EXCEPT ![frame.addr] = "active"]
  /\ RxSends(Broadcast)
  /\ UNCHANGED <<calls, owner, running, handler, frame, hasAddr, assoc, fault>>

(* handleRouteError: an entry is FAILED until repairRoute. *)
RxRouteError ==
  /\ RxHandles({"routeError"})
  /\ IF route[frame.addr] = "absent"
     THEN Goto(Rx, "rxMacUnlock") /\ UNCHANGED route
     ELSE route' = [route EXCEPT ![frame.addr] = "failed"] /\ Goto(Rx, "rxRepair")
  /\ UNCHANGED <<locals, owner, running, handler, frame, hasAddr, assoc, fault>>

(* repairRoute on the rx thread: the entry goes to REPAIR_IN_PROGRESS, and *)
(* initiateRouteDiscovery, which finds a repair there, or the discovery    *)
(* that another thread had decided on, returns at once: no other thread    *)
(* writes anything else in between.                                        *)
RxRepair ==
  /\ pc[Rx] = "rxRepair"
  /\ route' = [route EXCEPT ![frame.addr] = IF @ = "absent" THEN @ ELSE "repair"]
  /\ Goto(Rx, "rxMacUnlock")
  /\ UNCHANGED <<locals, owner, running, handler, frame, hasAddr, assoc, fault>>

(* Forwarding: the next hop of the source route, or that of an ACTIVE      *)
(* route, which setRoute makes the destination itself.                     *)
RxForwards ==
  /\ \/ RxHandles({"srcForward"})
     \/ RxHandles({"forward"}) /\ route[frame.addr] = "active"
  /\ RxSends(frame.addr)
  /\ UNCHANGED <<calls, owner, running, handler, route, frame, hasAddr, assoc, fault>>

RxNoRoute ==
  /\ RxHandles({"forward"})
  /\ route[frame.addr] # "active"
  /\ Goto(Rx, "rxRepair")
  /\ UNCHANGED <<locals, shared, hasAddr, fault>>

(* if (m_cb && ...) in NWK, without its mutex *)
RxDeliver ==
  /\ RxHandles({"data", "request"})
  /\ Goto(Rx, IF handler["nwk"] THEN "nwkCbCall" ELSE "rxMacUnlock")
  /\ UNCHANGED <<locals, shared, hasAddr, fault>>

NwkCbCall ==
  /\ pc[Rx] = "nwkCbCall"
  /\ Goto(Rx, "rxApsLock")
  /\ fault' = IF handler["nwk"] THEN fault ELSE "nullCallback"
  /\ UNCHANGED <<locals, shared, hasAddr>>

(* ZigbeeAps::handleNwkPayload calls ZDO under the APS mutex; a request is *)
(* answered with sendApsData to its sender.                                *)
RxApsLock ==
  /\ pc[Rx] = "rxApsLock"
  /\ Free("aps")
  /\ IF handler["aps"] /\ frame.kind = "request"
     THEN /\ Acquire(Rx, "aps")
          /\ dst' = [dst EXCEPT ![Rx] = frame.addr]
          /\ Goto(Rx, "apsSend")
     ELSE Goto(Rx, "rxMacUnlock") /\ UNCHANGED <<owner, dst>>
  /\ UNCHANGED <<ret, calls, running, handler, route, frame, hasAddr, assoc, fault>>

(* Mutant: the mutex stays locked. *)
RxMacUnlockForgets ==
  /\ pc[Rx] = "rxMacUnlock"
  /\ Goto(Rx, "rxDone")
  /\ UNCHANGED <<locals, shared, hasAddr, fault>>

RxMacUnlock ==
  /\ pc[Rx] = "rxMacUnlock"
  /\ Release({"mac"})
  /\ Goto(Rx, "rxDone")
  /\ UNCHANGED <<locals, running, handler, route, frame, hasAddr, assoc, fault>>

EventCall ==
  /\ pc[Rx] = "eventCall"
  /\ Goto(Rx, "eventMacLock")
  /\ fault' = IF handler["event"] THEN fault ELSE "nullCallback"
  /\ UNCHANGED <<locals, shared, hasAddr>>

(* ZigbeeMac::handleSpinelEvent *)
EventMacLock ==
  /\ pc[Rx] = "eventMacLock"
  /\ Free("mac")
  /\ IF frame.kind = "txStatus" /\ handler["txDone"]
     THEN Acquire(Rx, "mac") /\ Goto(Rx, "txDone")
     ELSE Goto(Rx, "rxDone") /\ UNCHANGED owner
  /\ UNCHANGED <<locals, running, handler, route, frame, hasAddr, assoc, fault>>

(* ZigbeeNwk::handleMacTxDone, under both mutexes *)
TxDone ==
  /\ UnderLock(Rx, "nwk", "txDone", "rxDone")
  /\ Release({"mac"})
  /\ UNCHANGED <<locals, running, handler, route, frame, hasAddr, assoc, fault>>

-----------------------------------------------------------------------------
(* The maintenance thread.                                                 *)

MaintLoop ==
  /\ pc[Maint] = "mtLoop"
  /\ Goto(Maint, IF running["nwk"] THEN "mtSleep" ELSE "ended")
  /\ UNCHANGED <<locals, shared, hasAddr, fault>>

(* After 15 s: sendLinkStatus, whatever m_running is by now. *)
MaintWake ==
  /\ pc[Maint] = "mtSleep"
  /\ dst' = [dst EXCEPT ![Maint] = Broadcast]
  /\ ret' = [ret EXCEPT ![Maint] = "mtPrune"]
  /\ Goto(Maint, "nwkLock")
  /\ UNCHANGED <<calls, shared, hasAddr, fault>>

(* Mutant: one round only. *)
MaintPruneEnds ==
  /\ pc[Maint] = "mtPrune"
  /\ Goto(Maint, "ended")
  /\ UNCHANGED <<locals, shared, hasAddr, fault>>

MaintPrune ==
  /\ pc[Maint] = "mtPrune"
  /\ Goto(Maint, "mtLoop")
  /\ UNCHANGED <<locals, shared, hasAddr, fault>>

-----------------------------------------------------------------------------

StartStep(t) ==
  \/ ZdoStart(t) \/ ApsStart(t) \/ SetNwkCb(t) \/ NwkStart(t)
  \/ SetFrameCb(t) \/ SetTxDoneCb(t) \/ SpawnMaint(t) \/ MacStart(t)

StopStep(t) ==
  \/ ApsStop(t) \/ ClearNwkCb(t) \/ NwkStop(t) \/ ClearFrameCb(t) \/ ClearTxDoneCb(t)
  \/ JoinMaint(t) \/ MacStop(t) \/ ClearRawCb(t) \/ ClearEventCb(t) \/ SpinelStop(t) \/ JoinRx(t)

SendStep(t) ==
  \/ ApsSend(t) \/ ApsUnlock(t)
  \/ SendRefused(t) \/ SendRouted(t) \/ SendUnrouted(t)
  \/ DiscoveryPending(t) \/ DiscoveryStarts(t) \/ DiscoveryMarks(t)
  \/ SendFrame(t)

AppStep(t) ==
  Repair(t) \/ MacConfig(t) \/ MacAssoc(t) \/ StartStep(t) \/ StopStep(t) \/ SendStep(t)

RxHandler ==
  \/ RxDrop \/ RxLearn \/ RxRelay \/ RxRouteError \/ RxForwards \/ RxNoRoute \/ RxDeliver

(* What the rx thread does without waiting for bytes from the port. *)
RxStep ==
  \/ RxLoop \/ RawCheck \/ RawCall \/ RxAssoc \/ RxMacLock \/ RxHandler \/ RxRepair
  \/ NwkCbCall \/ RxApsLock \/ RxMacUnlock \/ EventCheck \/ EventCall \/ EventMacLock \/ TxDone
  \/ SendStep(Rx)

MaintStep == MaintLoop \/ MaintWake \/ MaintPrune \/ SendStep(Maint)

(* What the receive buffer makes it do. *)
RxReads == (\E f \in Frame : RxFrame(f)) \/ RxNoFrame \/ RxBufferEmpty

AppCalls == \E t \in App, k \in Calls, d \in Addr \cup {Broadcast} : Call(t, k, d)

(* std::terminate ends every thread. *)
Alive == fault = "ok"

Next ==
  /\ Alive
  /\ \/ AppCalls
     \/ \E t \in App : AppStep(t)
     \/ RxReads
     \/ RxStep
     \/ MaintStep

Spec == Init /\ [][Next]_vars

(* Threads run, and none is passed over for ever when a mutex it waits for *)
(* keeps becoming free.  Nothing makes the application call, and nothing   *)
(* makes bytes arrive: Call, RxFrame and RxNoFrame have no fairness.  The  *)
(* receive buffer is finite, so its frames run out.                        *)
Fairness ==
  /\ \A t \in App : SF_vars(Alive /\ AppStep(t))
  /\ SF_vars(Alive /\ RxStep)
  /\ SF_vars(Alive /\ RxBufferEmpty)
  /\ SF_vars(Alive /\ MaintStep)

FairSpec == Spec /\ Fairness

-----------------------------------------------------------------------------
(* Correctness.                                                            *)

(* The places where thread t has each mutex locked. *)
NwkStarting == {"setFrameCb", "setTxDoneCb", "spawnMaint", "macStart"}
MacStopping == {"clearRawCb", "clearEventCb", "spinelStop", "joinRx"}
NwkStopping == {"clearFrameCb", "clearTxDoneCb", "joinMaint", "macStop"} \cup MacStopping

HoldsAps(t) ==
  \/ pc[t] \in {"setNwkCb", "nwkStart", "clearNwkCb", "nwkStop", "apsUnlock"}
               \cup NwkStarting \cup NwkStopping
  \/ pc[t] \in SendPath /\ ret[t] = "apsUnlock"
  \/ pc[t] = "apsSend" /\ t = Rx

HoldsNwk(t) ==
  pc[t] \in {"nwkDiscover", "nwkMark", "nwkRelock", "macLock"} \cup NwkStarting \cup NwkStopping

UnderMac == {"rxHandle", "rxRepair", "nwkCbCall", "rxApsLock", "apsSend", "apsUnlock",
                 "rxMacUnlock", "txDone"} \cup SendPath

HoldsMac(t) == pc[t] \in MacStopping \/ (t = Rx /\ pc[t] \in UnderMac)

WantsAps == {"zdoStart", "apsStart", "apsStop", "apsSend", "rxApsLock"}
WantsNwk == {"setNwkCb", "nwkStart", "clearNwkCb", "nwkStop", "nwkLock", "nwkRelock", "txDone"}
WantsMac == {"setFrameCb", "setTxDoneCb", "macStart", "clearFrameCb", "clearTxDoneCb", "macStop",
             "macLock", "macConfig", "macAssoc", "rxAssoc", "rxMacLock", "eventMacLock"}

(* Thread t cannot go on before thread u does. *)
WaitsFor(t, u) ==
  \/ pc[t] \in WantsAps /\ owner["aps"] = u
  \/ pc[t] \in WantsNwk /\ owner["nwk"] = u
  \/ pc[t] \in WantsMac /\ owner["mac"] = u
  \/ pc[t] = "joinMaint" /\ u = Maint /\ pc[Maint] \notin {"none", "ended"}
  \/ pc[t] = "joinRx" /\ u = Rx /\ pc[Rx] \notin {"none", "ended"}

Deadlocked(S) == S # {} /\ \A t \in S : \E u \in S : WaitsFor(t, u)

Within(t) == pc[t] \in (StartPath \cup StopPath) \ {"zdoStart", "apsStart", "apsStop"}

(* Every variable has its type. *)
TypeOK ==
  /\ pc \in [Threads -> Label]
  /\ \A t \in App : pc[t] \in AppLabel
  /\ pc[Rx] \in RxLabel
  /\ pc[Maint] \in MaintLabel
  /\ ret \in [Threads -> Return]
  /\ dst \in [Threads -> Addr \cup {Broadcast}]
  /\ calls \in 0 .. MaxCalls
  /\ owner \in [Mutex -> Threads \cup {NoThread}]
  /\ running \in [Layer -> BOOLEAN]
  /\ handler \in [Callbacks -> BOOLEAN]
  /\ route \in [Addr -> RouteStates]
  /\ frame \in Frame \cup {NoFrame}
  /\ hasAddr \in BOOLEAN
  /\ assoc \in BOOLEAN
  /\ fault \in Faults

(* A thread has a mutex locked exactly where the code says it has: no path *)
(* through start, stop, sendApsData, sendNwkFrame or a handler, early      *)
(* returns included, leaks a mutex or gives up one it does not hold.       *)
LockDiscipline ==
  \A t \in Threads :
    /\ owner["aps"] = t <=> HoldsAps(t)
    /\ owner["nwk"] = t <=> HoldsNwk(t)
    /\ owner["mac"] = t <=> HoldsMac(t)

(* The four ways the stack can deadlock, and no other: a route discovery   *)
(* that sendNwkFrame starts with its own mutex held, a thread joined under *)
(* the mutexes that thread needs, and the rx thread entering the layers    *)
(* above, or sending, with the MAC mutex held.  Everything else takes the  *)
(* mutexes in the order APS, NWK, MAC.                                     *)
EveryDeadlockIsKnown ==
  \A S \in SUBSET Threads : Deadlocked(S) =>
    \E t \in S : \/ pc[t] \in {"nwkRelock", "joinMaint", "joinRx"}
                 \/ t = Rx /\ owner["mac"] = Rx

(* No threads wait for each other in a ring. *)
NoDeadlock == \A S \in SUBSET Threads : ~Deadlocked(S)

(* Unless a start or stop is under way all layers agree: they all run,     *)
(* with every callback set and both threads alive, or none does and no     *)
(* callback into a layer is left behind; and no start ever overwrites a    *)
(* thread that is still joinable.  Calls of start and stop may overlap.    *)
LayersAgree ==
  /\ fault # "threadOverwritten"
  /\ (\A t \in App : ~Within(t)) =>
       /\ \A l \in Layer : running[l] = running["aps"]
       /\ \A c \in Callbacks \ {"aps"} : handler[c] = running["aps"]
       /\ pc[Rx] \in {"none", "ended"} <=> ~running["aps"]
       /\ pc[Maint] \in {"none", "ended"} <=> ~running["aps"]

(* Once ZigbeeNwk::stop has cleared its two MAC callbacks the rx thread is *)
(* not inside NWK any more: neither in handleInboundMacFrame nor in        *)
(* handleMacTxDone.                                                        *)
ClearedHandlersAreLeft ==
  /\ ~handler["frame"] => pc[Rx] \notin UnderMac \ {"txDone"}
  /\ ~handler["txDone"] => pc[Rx] # "txDone"

(* Whoever has passed the checks of sendNwkFrame writes to a stack that    *)
(* still runs, from NWK down, when its turn on the MAC mutex comes.        *)
TransmitsOnlyWhileRunning ==
  \A t \in Threads : pc[t] \in {"nwkDiscover", "macLock"} =>
    hasAddr /\ \A l \in Layer \ {"aps"} : running[l]

(* An empty callback is only ever called while a stop is clearing them:    *)
(* NWK's payload callback between ClearNwkCb and ClearFrameCb, the         *)
(* driver's callbacks until the rx thread is joined.                       *)
NullCallsNeedStop ==
  fault = "nullCallback" =>
    \E t \in App :
      \/ pc[Rx] = "rxApsLock" /\ pc[t] \in {"nwkStop", "clearFrameCb"}
      \/ pc[Rx] # "rxApsLock" /\ pc[t] \in {"clearEventCb", "spinelStop", "joinRx"}

(* Every call of the public interface returns. *)
CallsReturn == \A t \in App : pc[t] # "idle" ~> pc[t] = "idle"

(* The rx thread gets through every frame and reads on. *)
FramesAreHandled == pc[Rx] \in {"rawCheck", "eventCheck"} ~> pc[Rx] = "rxLoop"

(* Stopping the stack ends: the rx thread is stopped and the port let go.  *)
StopReturns == \A t \in App : pc[t] = "apsStop" ~> pc[t] = "idle"

(* sendApsData returns, with the frame queued or dropped if there is no    *)
(* route yet.                                                              *)
SendReturns == \A t \in App : pc[t] = "apsSend" ~> pc[t] = "idle"

(* While the stack runs, link status is sent and neighbours are pruned     *)
(* again and again.                                                        *)
MaintenanceGoesOn == running["nwk"] ~> pc[Maint] = "mtPrune"
=============================================================================
