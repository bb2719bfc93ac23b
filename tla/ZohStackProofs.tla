--------------------------- MODULE ZohStackProofs ---------------------------
(***************************************************************************)
(* Theorems about ZohStack, for any number of application threads, any     *)
(* addresses, any calls and any traffic.                                   *)
(*                                                                         *)
(* LockInv is inductive: the types, LockDiscipline, and what is needed of  *)
(* the local variables of sendNwkFrame and of the frame being handled.     *)
(* The lock order that EveryDeadlockIsKnown states follows from it.        *)
(*                                                                         *)
(* A thread inside start or stop has the APS mutex, so there is one at a   *)
(* time and where it is says what runs, which callbacks are set and which  *)
(* threads are alive: StageOK, in the second part.  LifeInv, which is      *)
(* inductive, is that, together with LockInv and with what the threads     *)
(* inside NWK may rely on.  Without it LayersAgree is not inductive: it    *)
(* says nothing of the stages between two rests.                           *)
(***************************************************************************)
EXTENDS ZohStack, TLAPS

(* TypeOK in two parts: where the threads are, and the data. *)
PcOK ==
  /\ pc \in [Threads -> Label]
  /\ \A t \in App : pc[t] \in AppLabel
  /\ pc[Rx] \in RxLabel
  /\ pc[Maint] \in MaintLabel

DataOK ==
  /\ ret \in [Threads -> Return]
  /\ dst \in [Threads -> Addr \cup {Broadcast}]
  /\ calls \in 0 .. MaxCalls
  /\ owner \in [Mutex -> Threads \cup {NoThread}]
  /\ running \in [Layer -> BOOLEAN]
  /\ handler \in [Callbacks -> BOOLEAN]
  /\ route \in [Addr -> RouteStates]
  /\ frame \in Frame \cup {NoFrame}
  /\ hasAddr \in BOOLEAN
  /\ assoc \in BOOLEAN
  /\ fault \in Faults

(* LockDiscipline for one thread. *)
MutexOK(t) ==
  /\ owner["aps"] = t <=> HoldsAps(t)
  /\ owner["nwk"] = t <=> HoldsNwk(t)
  /\ owner["mac"] = t <=> HoldsMac(t)

(* Where the sendNwkFrame that a thread is in returns to. *)
ReturnOK ==
  \A t \in Threads : pc[t] \in SendPath \cup {"repair", "repairDiscover", "repairMark"} =>
    \/ t \in App /\ ret[t] \in {"idle", "apsUnlock"}
    \/ t = Rx /\ ret[t] = "rxMacUnlock"
    \/ t = Maint /\ ret[t] = "mtPrune"

(* An application thread in repairRoute returns from it to its caller. *)
RepairOK ==
  \A t \in Threads : pc[t] \in {"repair", "repairDiscover", "repairMark"} => ret[t] = "idle"

(* A route is looked up under the address of a node. *)
DstOK ==
  \A t \in Threads :
    pc[t] \in {"nwkDiscover", "nwkMark", "repair", "repairDiscover", "repairMark"} => dst[t] \in Addr

(* From handleSpinelFrame to the APS the rx thread has a frame in hand. *)
FrameOK ==
  pc[Rx] \in {"rawCheck", "rawCall", "rxAssoc", "rxMacLock", "rxHandle", "rxRepair", "nwkCbCall",
              "rxApsLock"} => frame \in Frame

LocalOK == ReturnOK /\ RepairOK /\ DstOK /\ FrameOK

LockInv ==
  /\ PcOK
  /\ DataOK
  /\ \A t \in Threads : MutexOK(t)
  /\ LocalOK

-----------------------------------------------------------------------------

LEMMA ThreadsAreDistinct ==
  /\ Rx \in Threads /\ Maint \in Threads /\ NoThread \notin Threads
  /\ App \subseteq Threads
  /\ Rx \notin App /\ Maint \notin App
BY ConstantsAssumption DEF Threads, Rx, Maint, NoThread

LEMMA LockInit == Init => LockInv
<1> USE ConstantsAssumption, ThreadsAreDistinct DEF Init
<1> SUFFICES ASSUME Init PROVE LockInv
  OBVIOUS
<1>1. PcOK
  BY DEF PcOK, Label, AppLabel, RxLabel, MaintLabel
<1>2. DataOK
  <2>1. ret \in [Threads -> Return] /\ dst \in [Threads -> Addr \cup {Broadcast}]
    BY DEF Return
  <2>2. calls \in 0 .. MaxCalls /\ owner \in [Mutex -> Threads \cup {NoThread}]
    OBVIOUS
  <2>3. running \in [Layer -> BOOLEAN] /\ handler \in [Callbacks -> BOOLEAN]
    OBVIOUS
  <2>4. /\ route \in [Addr -> RouteStates] /\ frame \in Frame \cup {NoFrame}
        /\ hasAddr \in BOOLEAN /\ assoc \in BOOLEAN /\ fault \in Faults
    BY DEF RouteStates, Faults
  <2> QED BY <2>1, <2>2, <2>3, <2>4 DEF DataOK
<1>3. \A t \in Threads : MutexOK(t)
  BY DEF MutexOK, HoldsAps, HoldsNwk, HoldsMac, UnderMac, NwkStarting, NwkStopping, MacStopping,
         SendPath, Mutex
<1>4. LocalOK
  BY DEF LocalOK, ReturnOK, RepairOK, DstOK, FrameOK, SendPath, Threads, Rx
<1> QED BY <1>1, <1>2, <1>3, <1>4 DEF LockInv

(* Every step of a start keeps the invariant. *)
LEMMA StartKeeps == ASSUME LockInv, NEW t \in App, StartStep(t) PROVE LockInv'
<1> USE ConstantsAssumption, ThreadsAreDistinct
<1> USE DEF LockInv, Goto, Free, Acquire, Release, UnderLock, SetHandlers, AtNwkLock, Discovers,
            RxHandles, RxSends, locals, shared, Mutex, Rx, Maint
<1>1. CASE ZdoStart(t)
  <2>1. PcOK'
    BY <1>1 DEF PcOK, DataOK, LocalOK, ZdoStart, Label, AppLabel, RxLabel, MaintLabel, StartPath,
             StopPath, SendPath, ReturnOK, RepairOK
  <2>2. DataOK'
    BY <1>1 DEF DataOK, ZdoStart, LocalOK, DstOK, FrameOK, Return, RouteStates, Faults
  <2>3. ASSUME NEW u \in Threads PROVE MutexOK(u)'
    BY <1>1 DEF PcOK, DataOK, MutexOK, LocalOK, ZdoStart, HoldsAps, HoldsNwk, HoldsMac, UnderMac,
             NwkStarting, NwkStopping, MacStopping, SendPath, ReturnOK, RepairOK
  <2>4. LocalOK'
    BY <1>1 DEF PcOK, DataOK, LocalOK, ZdoStart, ReturnOK, RepairOK, DstOK, FrameOK, SendPath
  <2> QED BY <2>1, <2>2, <2>3, <2>4
<1>2. CASE ApsStart(t)
  <2>1. PcOK'
    BY <1>2 DEF PcOK, DataOK, LocalOK, ApsStart, Label, AppLabel, RxLabel, MaintLabel, StartPath,
             StopPath, SendPath, ReturnOK, RepairOK
  <2>2. DataOK'
    <3>1. (owner \in [Mutex -> Threads \cup {NoThread}])'
      BY <1>2 DEF DataOK, ApsStart
    <3>2. (running \in [Layer -> BOOLEAN])'
      BY <1>2 DEF DataOK, ApsStart
    <3> QED BY <1>2, <3>1, <3>2 DEF DataOK, ApsStart
  <2>3. ASSUME NEW u \in Threads PROVE MutexOK(u)'
    BY <1>2 DEF PcOK, DataOK, MutexOK, LocalOK, ApsStart, HoldsAps, HoldsNwk, HoldsMac, UnderMac,
             NwkStarting, NwkStopping, MacStopping, SendPath, ReturnOK, RepairOK
  <2>4. LocalOK'
    BY <1>2 DEF PcOK, DataOK, LocalOK, ApsStart, ReturnOK, RepairOK, DstOK, FrameOK, SendPath
  <2> QED BY <2>1, <2>2, <2>3, <2>4
<1>3. CASE SetNwkCb(t)
  <2>1. PcOK'
    BY <1>3 DEF PcOK, DataOK, LocalOK, SetNwkCb, Label, AppLabel, RxLabel, MaintLabel, StartPath,
             StopPath, SendPath, ReturnOK, RepairOK
  <2>2. DataOK'
    BY <1>3 DEF DataOK, SetNwkCb, LocalOK, DstOK, FrameOK, Return, RouteStates, Faults
  <2>3. ASSUME NEW u \in Threads PROVE MutexOK(u)'
    BY <1>3 DEF PcOK, DataOK, MutexOK, LocalOK, SetNwkCb, HoldsAps, HoldsNwk, HoldsMac, UnderMac,
             NwkStarting, NwkStopping, MacStopping, SendPath, ReturnOK, RepairOK
  <2>4. LocalOK'
    BY <1>3 DEF PcOK, DataOK, LocalOK, SetNwkCb, ReturnOK, RepairOK, DstOK, FrameOK, SendPath
  <2> QED BY <2>1, <2>2, <2>3, <2>4
<1>4. CASE NwkStart(t)
  <2>1. PcOK'
    BY <1>4 DEF PcOK, DataOK, LocalOK, NwkStart, Label, AppLabel, RxLabel, MaintLabel, StartPath,
             StopPath, SendPath, ReturnOK, RepairOK
  <2>2. DataOK'
    <3>1. (owner \in [Mutex -> Threads \cup {NoThread}])'
      BY <1>4 DEF DataOK, NwkStart
    <3>2. (running \in [Layer -> BOOLEAN])'
      BY <1>4 DEF DataOK, NwkStart
    <3> QED BY <1>4, <3>1, <3>2 DEF DataOK, NwkStart
  <2>3. ASSUME NEW u \in Threads PROVE MutexOK(u)'
    BY <1>4 DEF PcOK, DataOK, MutexOK, LocalOK, NwkStart, HoldsAps, HoldsNwk, HoldsMac, UnderMac,
             NwkStarting, NwkStopping, MacStopping, SendPath, ReturnOK, RepairOK
  <2>4. LocalOK'
    BY <1>4 DEF PcOK, DataOK, LocalOK, NwkStart, ReturnOK, RepairOK, DstOK, FrameOK, SendPath
  <2> QED BY <2>1, <2>2, <2>3, <2>4
<1>5. CASE SetFrameCb(t)
  <2>1. PcOK'
    BY <1>5 DEF PcOK, DataOK, LocalOK, SetFrameCb, Label, AppLabel, RxLabel, MaintLabel,
             StartPath, StopPath, SendPath, ReturnOK, RepairOK
  <2>2. DataOK'
    BY <1>5 DEF DataOK, SetFrameCb, LocalOK, DstOK, FrameOK, Return, RouteStates, Faults
  <2>3. ASSUME NEW u \in Threads PROVE MutexOK(u)'
    BY <1>5 DEF PcOK, DataOK, MutexOK, LocalOK, SetFrameCb, HoldsAps, HoldsNwk, HoldsMac,
             UnderMac, NwkStarting, NwkStopping, MacStopping, SendPath, ReturnOK, RepairOK
  <2>4. LocalOK'
    BY <1>5 DEF PcOK, DataOK, LocalOK, SetFrameCb, ReturnOK, RepairOK, DstOK, FrameOK, SendPath
  <2> QED BY <2>1, <2>2, <2>3, <2>4
<1>6. CASE SetTxDoneCb(t)
  <2>1. PcOK'
    BY <1>6 DEF PcOK, DataOK, LocalOK, SetTxDoneCb, Label, AppLabel, RxLabel, MaintLabel,
             StartPath, StopPath, SendPath, ReturnOK, RepairOK
  <2>2. DataOK'
    BY <1>6 DEF DataOK, SetTxDoneCb, LocalOK, DstOK, FrameOK, Return, RouteStates, Faults
  <2>3. ASSUME NEW u \in Threads PROVE MutexOK(u)'
    BY <1>6 DEF PcOK, DataOK, MutexOK, LocalOK, SetTxDoneCb, HoldsAps, HoldsNwk, HoldsMac,
             UnderMac, NwkStarting, NwkStopping, MacStopping, SendPath, ReturnOK, RepairOK
  <2>4. LocalOK'
    BY <1>6 DEF PcOK, DataOK, LocalOK, SetTxDoneCb, ReturnOK, RepairOK, DstOK, FrameOK, SendPath
  <2> QED BY <2>1, <2>2, <2>3, <2>4
<1>7. CASE SpawnMaint(t)
  <2>1. PcOK'
    BY <1>7 DEF PcOK, DataOK, LocalOK, SpawnMaint, Label, AppLabel, RxLabel, MaintLabel,
             StartPath, StopPath, SendPath, ReturnOK, RepairOK
  <2>2. DataOK'
    BY <1>7 DEF DataOK, SpawnMaint, LocalOK, DstOK, FrameOK, Return, RouteStates, Faults
  <2>3. ASSUME NEW u \in Threads PROVE MutexOK(u)'
    BY <1>7 DEF PcOK, DataOK, MutexOK, LocalOK, SpawnMaint, HoldsAps, HoldsNwk, HoldsMac,
             UnderMac, NwkStarting, NwkStopping, MacStopping, SendPath, ReturnOK, RepairOK
  <2>4. LocalOK'
    BY <1>7 DEF PcOK, DataOK, LocalOK, SpawnMaint, ReturnOK, RepairOK, DstOK, FrameOK, SendPath
  <2> QED BY <2>1, <2>2, <2>3, <2>4
<1>8. CASE MacStart(t)
  <2> USE <1>8 DEF MacStart
  <2>1. /\ owner' = [m \in Mutex |-> IF m \in {"nwk", "aps"} THEN NoThread ELSE owner[m]]
        /\ UNCHANGED <<ret, dst, calls, route, frame, hasAddr, assoc>>
    OBVIOUS
  <2>2. \/ pc' = [pc EXCEPT ![t] = "idle"]
        \/ pc' = [pc EXCEPT ![t] = "idle", ![Rx] = "rxLoop"]
    OBVIOUS
  <2>3. pc[t] = "macStart" /\ owner["mac"] = NoThread
    OBVIOUS
  <2>4. PcOK'
    BY <2>2 DEF PcOK, Label, AppLabel, RxLabel
  <2>5. DataOK'
    <3>1. (running \in [Layer -> BOOLEAN])'
      BY DEF DataOK
    <3>2. (handler \in [Callbacks -> BOOLEAN])'
      BY ZenonT(20) DEF DataOK
    <3>3. (fault \in Faults)'
      BY DEF DataOK, Faults
    <3>4. (owner \in [Mutex -> Threads \cup {NoThread}])'
      BY <2>1 DEF DataOK
    <3> QED BY <2>1, <3>1, <3>2, <3>3, <3>4 DEF DataOK
  <2>6. pc[Rx] \notin UnderMac
    BY <2>3 DEF MutexOK, HoldsMac
  <2>7. ASSUME NEW u \in Threads PROVE MutexOK(u)'
    <3> USE DEF PcOK, DataOK, MutexOK, HoldsAps, HoldsNwk, HoldsMac, UnderMac, NwkStarting,
                NwkStopping, MacStopping, SendPath
    <3>1. CASE pc' = [pc EXCEPT ![t] = "idle"]
      BY <2>1, <2>3, <3>1
    <3>2. CASE pc' = [pc EXCEPT ![t] = "idle", ![Rx] = "rxLoop"]
      BY <2>1, <2>3, <2>6, <3>2 DEF RxLabel
    <3> QED BY <2>2, <3>1, <3>2
  <2>8. LocalOK'
    BY <2>1, <2>2 DEF PcOK, LocalOK, ReturnOK, RepairOK, DstOK, FrameOK, SendPath
  <2> QED BY <2>4, <2>5, <2>7, <2>8
<1> QED
  BY <1>1, <1>2, <1>3, <1>4, <1>5, <1>6, <1>7, <1>8
      DEF StartStep

(* Every step of a stop keeps it. *)
LEMMA StopKeeps == ASSUME LockInv, NEW t \in App, StopStep(t) PROVE LockInv'
<1> USE ConstantsAssumption, ThreadsAreDistinct
<1> USE DEF LockInv, Goto, Free, Acquire, Release, UnderLock, SetHandlers, AtNwkLock, Discovers,
            RxHandles, RxSends, locals, shared, Mutex, Rx, Maint
<1>1. CASE ApsStop(t)
  <2>1. PcOK'
    BY <1>1 DEF PcOK, DataOK, LocalOK, ApsStop, Label, AppLabel, RxLabel, MaintLabel, StartPath,
             StopPath, SendPath, ReturnOK, RepairOK
  <2>2. DataOK'
    <3>1. (owner \in [Mutex -> Threads \cup {NoThread}])'
      BY <1>1 DEF DataOK, ApsStop
    <3>2. (running \in [Layer -> BOOLEAN])'
      BY <1>1 DEF DataOK, ApsStop
    <3> QED BY <1>1, <3>1, <3>2 DEF DataOK, ApsStop
  <2>3. ASSUME NEW u \in Threads PROVE MutexOK(u)'
    BY <1>1 DEF PcOK, DataOK, MutexOK, LocalOK, ApsStop, HoldsAps, HoldsNwk, HoldsMac, UnderMac,
             NwkStarting, NwkStopping, MacStopping, SendPath, ReturnOK, RepairOK
  <2>4. LocalOK'
    BY <1>1 DEF PcOK, DataOK, LocalOK, ApsStop, ReturnOK, RepairOK, DstOK, FrameOK, SendPath
  <2> QED BY <2>1, <2>2, <2>3, <2>4
<1>2. CASE ClearNwkCb(t)
  <2>1. PcOK'
    BY <1>2 DEF PcOK, DataOK, LocalOK, ClearNwkCb, Label, AppLabel, RxLabel, MaintLabel,
             StartPath, StopPath, SendPath, ReturnOK, RepairOK
  <2>2. DataOK'
    BY <1>2 DEF DataOK, ClearNwkCb, LocalOK, DstOK, FrameOK, Return, RouteStates, Faults
  <2>3. ASSUME NEW u \in Threads PROVE MutexOK(u)'
    BY <1>2 DEF PcOK, DataOK, MutexOK, LocalOK, ClearNwkCb, HoldsAps, HoldsNwk, HoldsMac,
             UnderMac, NwkStarting, NwkStopping, MacStopping, SendPath, ReturnOK, RepairOK
  <2>4. LocalOK'
    BY <1>2 DEF PcOK, DataOK, LocalOK, ClearNwkCb, ReturnOK, RepairOK, DstOK, FrameOK, SendPath
  <2> QED BY <2>1, <2>2, <2>3, <2>4
<1>3. CASE NwkStop(t)
  <2>1. PcOK'
    BY <1>3 DEF PcOK, DataOK, LocalOK, NwkStop, Label, AppLabel, RxLabel, MaintLabel, StartPath,
             StopPath, SendPath, ReturnOK, RepairOK
  <2>2. DataOK'
    <3>1. (owner \in [Mutex -> Threads \cup {NoThread}])'
      BY <1>3 DEF DataOK, NwkStop
    <3>2. (running \in [Layer -> BOOLEAN])'
      BY <1>3 DEF DataOK, NwkStop
    <3> QED BY <1>3, <3>1, <3>2 DEF DataOK, NwkStop
  <2>3. ASSUME NEW u \in Threads PROVE MutexOK(u)'
    BY <1>3 DEF PcOK, DataOK, MutexOK, LocalOK, NwkStop, HoldsAps, HoldsNwk, HoldsMac, UnderMac,
             NwkStarting, NwkStopping, MacStopping, SendPath, ReturnOK, RepairOK
  <2>4. LocalOK'
    BY <1>3 DEF PcOK, DataOK, LocalOK, NwkStop, ReturnOK, RepairOK, DstOK, FrameOK, SendPath
  <2> QED BY <2>1, <2>2, <2>3, <2>4
<1>4. CASE ClearFrameCb(t)
  <2>1. PcOK'
    BY <1>4 DEF PcOK, DataOK, LocalOK, ClearFrameCb, Label, AppLabel, RxLabel, MaintLabel,
             StartPath, StopPath, SendPath, ReturnOK, RepairOK
  <2>2. DataOK'
    BY <1>4 DEF DataOK, ClearFrameCb, LocalOK, DstOK, FrameOK, Return, RouteStates, Faults
  <2>3. ASSUME NEW u \in Threads PROVE MutexOK(u)'
    BY <1>4 DEF PcOK, DataOK, MutexOK, LocalOK, ClearFrameCb, HoldsAps, HoldsNwk, HoldsMac,
             UnderMac, NwkStarting, NwkStopping, MacStopping, SendPath, ReturnOK, RepairOK
  <2>4. LocalOK'
    BY <1>4 DEF PcOK, DataOK, LocalOK, ClearFrameCb, ReturnOK, RepairOK, DstOK, FrameOK, SendPath
  <2> QED BY <2>1, <2>2, <2>3, <2>4
<1>5. CASE ClearTxDoneCb(t)
  <2>1. PcOK'
    BY <1>5 DEF PcOK, DataOK, LocalOK, ClearTxDoneCb, Label, AppLabel, RxLabel, MaintLabel,
             StartPath, StopPath, SendPath, ReturnOK, RepairOK
  <2>2. DataOK'
    BY <1>5 DEF DataOK, ClearTxDoneCb, LocalOK, DstOK, FrameOK, Return, RouteStates, Faults
  <2>3. ASSUME NEW u \in Threads PROVE MutexOK(u)'
    BY <1>5 DEF PcOK, DataOK, MutexOK, LocalOK, ClearTxDoneCb, HoldsAps, HoldsNwk, HoldsMac,
             UnderMac, NwkStarting, NwkStopping, MacStopping, SendPath, ReturnOK, RepairOK
  <2>4. LocalOK'
    BY <1>5 DEF PcOK, DataOK, LocalOK, ClearTxDoneCb, ReturnOK, RepairOK, DstOK, FrameOK, SendPath
  <2> QED BY <2>1, <2>2, <2>3, <2>4
<1>6. CASE JoinMaint(t)
  <2>1. PcOK'
    BY <1>6 DEF PcOK, DataOK, LocalOK, JoinMaint, Label, AppLabel, RxLabel, MaintLabel, StartPath,
             StopPath, SendPath, ReturnOK, RepairOK
  <2>2. DataOK'
    BY <1>6 DEF DataOK, JoinMaint, LocalOK, DstOK, FrameOK, Return, RouteStates, Faults
  <2>3. ASSUME NEW u \in Threads PROVE MutexOK(u)'
    BY <1>6 DEF PcOK, DataOK, MutexOK, LocalOK, JoinMaint, HoldsAps, HoldsNwk, HoldsMac, UnderMac,
             NwkStarting, NwkStopping, MacStopping, SendPath, ReturnOK, RepairOK
  <2>4. LocalOK'
    BY <1>6 DEF PcOK, DataOK, LocalOK, JoinMaint, ReturnOK, RepairOK, DstOK, FrameOK, SendPath
  <2> QED BY <2>1, <2>2, <2>3, <2>4
<1>7. CASE MacStop(t)
  <2>1. PcOK'
    BY <1>7 DEF PcOK, DataOK, LocalOK, MacStop, Label, AppLabel, RxLabel, MaintLabel, StartPath,
             StopPath, SendPath, ReturnOK, RepairOK
  <2>2. DataOK'
    <3>1. (owner \in [Mutex -> Threads \cup {NoThread}])'
      BY <1>7 DEF DataOK, MacStop
    <3>2. (running \in [Layer -> BOOLEAN])'
      BY <1>7 DEF DataOK, MacStop
    <3> QED BY <1>7, <3>1, <3>2 DEF DataOK, MacStop
  <2>3. ASSUME NEW u \in Threads PROVE MutexOK(u)'
    BY <1>7 DEF PcOK, DataOK, MutexOK, LocalOK, MacStop, HoldsAps, HoldsNwk, HoldsMac, UnderMac,
             NwkStarting, NwkStopping, MacStopping, SendPath, ReturnOK, RepairOK
  <2>4. LocalOK'
    BY <1>7 DEF PcOK, DataOK, LocalOK, MacStop, ReturnOK, RepairOK, DstOK, FrameOK, SendPath
  <2> QED BY <2>1, <2>2, <2>3, <2>4
<1>8. CASE ClearRawCb(t)
  <2>1. PcOK'
    BY <1>8 DEF PcOK, DataOK, LocalOK, ClearRawCb, Label, AppLabel, RxLabel, MaintLabel,
             StartPath, StopPath, SendPath, ReturnOK, RepairOK
  <2>2. DataOK'
    BY <1>8 DEF DataOK, ClearRawCb, LocalOK, DstOK, FrameOK, Return, RouteStates, Faults
  <2>3. ASSUME NEW u \in Threads PROVE MutexOK(u)'
    BY <1>8 DEF PcOK, DataOK, MutexOK, LocalOK, ClearRawCb, HoldsAps, HoldsNwk, HoldsMac,
             UnderMac, NwkStarting, NwkStopping, MacStopping, SendPath, ReturnOK, RepairOK
  <2>4. LocalOK'
    BY <1>8 DEF PcOK, DataOK, LocalOK, ClearRawCb, ReturnOK, RepairOK, DstOK, FrameOK, SendPath
  <2> QED BY <2>1, <2>2, <2>3, <2>4
<1>9. CASE ClearEventCb(t)
  <2>1. PcOK'
    BY <1>9 DEF PcOK, DataOK, LocalOK, ClearEventCb, Label, AppLabel, RxLabel, MaintLabel,
             StartPath, StopPath, SendPath, ReturnOK, RepairOK
  <2>2. DataOK'
    BY <1>9 DEF DataOK, ClearEventCb, LocalOK, DstOK, FrameOK, Return, RouteStates, Faults
  <2>3. ASSUME NEW u \in Threads PROVE MutexOK(u)'
    BY <1>9 DEF PcOK, DataOK, MutexOK, LocalOK, ClearEventCb, HoldsAps, HoldsNwk, HoldsMac,
             UnderMac, NwkStarting, NwkStopping, MacStopping, SendPath, ReturnOK, RepairOK
  <2>4. LocalOK'
    BY <1>9 DEF PcOK, DataOK, LocalOK, ClearEventCb, ReturnOK, RepairOK, DstOK, FrameOK, SendPath
  <2> QED BY <2>1, <2>2, <2>3, <2>4
<1>10. CASE SpinelStop(t)
  <2>1. PcOK'
    BY <1>10 DEF PcOK, DataOK, LocalOK, SpinelStop, Label, AppLabel, RxLabel, MaintLabel,
             StartPath, StopPath, SendPath, ReturnOK, RepairOK
  <2>2. DataOK'
    BY <1>10 DEF DataOK, SpinelStop, LocalOK, DstOK, FrameOK, Return, RouteStates, Faults
  <2>3. ASSUME NEW u \in Threads PROVE MutexOK(u)'
    BY <1>10 DEF PcOK, DataOK, MutexOK, LocalOK, SpinelStop, HoldsAps, HoldsNwk, HoldsMac,
             UnderMac, NwkStarting, NwkStopping, MacStopping, SendPath, ReturnOK, RepairOK
  <2>4. LocalOK'
    BY <1>10 DEF PcOK, DataOK, LocalOK, SpinelStop, ReturnOK, RepairOK, DstOK, FrameOK, SendPath
  <2> QED BY <2>1, <2>2, <2>3, <2>4
<1>11. CASE JoinRx(t)
  <2>1. PcOK'
    BY <1>11 DEF PcOK, DataOK, LocalOK, JoinRx, Label, AppLabel, RxLabel, MaintLabel, StartPath,
             StopPath, SendPath, ReturnOK, RepairOK
  <2>2. DataOK'
    BY <1>11 DEF DataOK, JoinRx, LocalOK, DstOK, FrameOK, Return, RouteStates, Faults
  <2>3. ASSUME NEW u \in Threads PROVE MutexOK(u)'
    BY <1>11 DEF PcOK, DataOK, MutexOK, LocalOK, JoinRx, HoldsAps, HoldsNwk, HoldsMac, UnderMac,
             NwkStarting, NwkStopping, MacStopping, SendPath, ReturnOK, RepairOK
  <2>4. LocalOK'
    BY <1>11 DEF PcOK, DataOK, LocalOK, JoinRx, ReturnOK, RepairOK, DstOK, FrameOK, SendPath
  <2> QED BY <2>1, <2>2, <2>3, <2>4
<1> QED
  BY <1>1, <1>2, <1>3, <1>4, <1>5, <1>6, <1>7, <1>8, <1>9, <1>10, <1>11
      DEF StopStep

(* Every step of a send keeps it, whichever thread takes it. *)
LEMMA SendKeeps == ASSUME LockInv, NEW t \in Threads, SendStep(t) PROVE LockInv'
<1> USE ConstantsAssumption, ThreadsAreDistinct
<1> USE DEF LockInv, Goto, Free, Acquire, Release, UnderLock, SetHandlers, AtNwkLock, Discovers,
            RxHandles, RxSends, locals, shared, Mutex, Rx, Maint
<1>1. CASE ApsSend(t)
  <2>1. PcOK'
    BY <1>1 DEF PcOK, DataOK, LocalOK, ApsSend, Label, AppLabel, RxLabel, MaintLabel, StartPath,
             StopPath, SendPath, ReturnOK, RepairOK
  <2>2. DataOK'
    BY <1>1 DEF DataOK, ApsSend, LocalOK, DstOK, FrameOK, Return, RouteStates, Faults
  <2>3. ASSUME NEW u \in Threads PROVE MutexOK(u)'
    BY <1>1 DEF PcOK, DataOK, MutexOK, LocalOK, ApsSend, HoldsAps, HoldsNwk, HoldsMac, UnderMac,
             NwkStarting, NwkStopping, MacStopping, SendPath, ReturnOK, RepairOK
  <2>4. LocalOK'
    <3>1. t # Rx
      BY <1>1 DEF MutexOK, HoldsAps, ApsSend
    <3> QED
      BY <1>1, <3>1 DEF PcOK, DataOK, LocalOK, ApsSend, ReturnOK, RepairOK, DstOK, FrameOK,
               SendPath, MaintLabel, Threads
  <2> QED BY <2>1, <2>2, <2>3, <2>4
<1>2. CASE ApsUnlock(t)
  <2>1. PcOK'
    BY <1>2 DEF PcOK, DataOK, LocalOK, ApsUnlock, Label, AppLabel, RxLabel, MaintLabel, StartPath,
             StopPath, SendPath, ReturnOK, RepairOK
  <2>2. DataOK'
    BY <1>2 DEF DataOK, ApsUnlock, LocalOK, DstOK, FrameOK, Return, RouteStates, Faults
  <2>3. ASSUME NEW u \in Threads PROVE MutexOK(u)'
    BY <1>2 DEF PcOK, DataOK, MutexOK, LocalOK, ApsUnlock, HoldsAps, HoldsNwk, HoldsMac, UnderMac,
             NwkStarting, NwkStopping, MacStopping, SendPath, ReturnOK, RepairOK
  <2>4. LocalOK'
    BY <1>2 DEF PcOK, DataOK, LocalOK, ApsUnlock, ReturnOK, RepairOK, DstOK, FrameOK, SendPath
  <2> QED BY <2>1, <2>2, <2>3, <2>4
<1>3. CASE SendRefused(t)
  <2>1. PcOK'
    BY <1>3 DEF PcOK, DataOK, LocalOK, SendRefused, Label, AppLabel, RxLabel, MaintLabel,
             StartPath, StopPath, SendPath, ReturnOK, RepairOK
  <2>2. DataOK'
    BY <1>3 DEF DataOK, SendRefused, LocalOK, DstOK, FrameOK, Return, RouteStates, Faults
  <2>3. ASSUME NEW u \in Threads PROVE MutexOK(u)'
    BY <1>3 DEF PcOK, DataOK, MutexOK, LocalOK, SendRefused, HoldsAps, HoldsNwk, HoldsMac,
             UnderMac, NwkStarting, NwkStopping, MacStopping, SendPath, ReturnOK, RepairOK
  <2>4. LocalOK'
    BY <1>3 DEF PcOK, DataOK, LocalOK, SendRefused, ReturnOK, RepairOK, DstOK, FrameOK, SendPath
  <2> QED BY <2>1, <2>2, <2>3, <2>4
<1>4. CASE SendRouted(t)
  <2>1. PcOK'
    BY <1>4 DEF PcOK, DataOK, LocalOK, SendRouted, Label, AppLabel, RxLabel, MaintLabel,
             StartPath, StopPath, SendPath, ReturnOK, RepairOK
  <2>2. DataOK'
    BY <1>4 DEF DataOK, SendRouted, LocalOK, DstOK, FrameOK, Return, RouteStates, Faults
  <2>3. ASSUME NEW u \in Threads PROVE MutexOK(u)'
    BY <1>4 DEF PcOK, DataOK, MutexOK, LocalOK, SendRouted, HoldsAps, HoldsNwk, HoldsMac,
             UnderMac, NwkStarting, NwkStopping, MacStopping, SendPath, ReturnOK, RepairOK
  <2>4. LocalOK'
    BY <1>4 DEF PcOK, DataOK, LocalOK, SendRouted, ReturnOK, RepairOK, DstOK, FrameOK, SendPath
  <2> QED BY <2>1, <2>2, <2>3, <2>4
<1>5. CASE SendUnrouted(t)
  <2>1. PcOK'
    BY <1>5 DEF PcOK, DataOK, LocalOK, SendUnrouted, Label, AppLabel, RxLabel, MaintLabel,
             StartPath, StopPath, SendPath, ReturnOK, RepairOK
  <2>2. DataOK'
    BY <1>5 DEF DataOK, SendUnrouted, LocalOK, DstOK, FrameOK, Return, RouteStates, Faults
  <2>3. ASSUME NEW u \in Threads PROVE MutexOK(u)'
    BY <1>5 DEF PcOK, DataOK, MutexOK, LocalOK, SendUnrouted, HoldsAps, HoldsNwk, HoldsMac,
             UnderMac, NwkStarting, NwkStopping, MacStopping, SendPath, ReturnOK, RepairOK
  <2>4. LocalOK'
    BY <1>5 DEF PcOK, DataOK, LocalOK, SendUnrouted, ReturnOK, RepairOK, DstOK, FrameOK, SendPath
  <2> QED BY <2>1, <2>2, <2>3, <2>4
<1>6. CASE DiscoveryPending(t)
  <2>1. PcOK'
    BY <1>6 DEF PcOK, DataOK, LocalOK, DiscoveryPending, Label, AppLabel, RxLabel, MaintLabel,
             StartPath, StopPath, SendPath, ReturnOK, RepairOK
  <2>2. DataOK'
    BY <1>6 DEF DataOK, DiscoveryPending, LocalOK, DstOK, FrameOK, Return, RouteStates, Faults
  <2>3. ASSUME NEW u \in Threads PROVE MutexOK(u)'
    BY <1>6 DEF PcOK, DataOK, MutexOK, LocalOK, DiscoveryPending, HoldsAps, HoldsNwk, HoldsMac,
             UnderMac, NwkStarting, NwkStopping, MacStopping, SendPath, ReturnOK, RepairOK
  <2>4. LocalOK'
    BY <1>6 DEF PcOK, DataOK, LocalOK, DiscoveryPending, ReturnOK, RepairOK, DstOK, FrameOK,
             SendPath
  <2> QED BY <2>1, <2>2, <2>3, <2>4
<1>7. CASE DiscoveryStarts(t)
  <2>1. PcOK'
    BY <1>7 DEF PcOK, DataOK, LocalOK, DiscoveryStarts, Label, AppLabel, RxLabel, MaintLabel,
             StartPath, StopPath, SendPath, ReturnOK, RepairOK
  <2>2. DataOK'
    BY <1>7 DEF DataOK, DiscoveryStarts, LocalOK, DstOK, FrameOK, Return, RouteStates, Faults
  <2>3. ASSUME NEW u \in Threads PROVE MutexOK(u)'
    BY <1>7 DEF PcOK, DataOK, MutexOK, LocalOK, DiscoveryStarts, HoldsAps, HoldsNwk, HoldsMac,
             UnderMac, NwkStarting, NwkStopping, MacStopping, SendPath, ReturnOK, RepairOK
  <2>4. LocalOK'
    BY <1>7 DEF PcOK, DataOK, LocalOK, DiscoveryStarts, ReturnOK, RepairOK, DstOK, FrameOK,
             SendPath
  <2> QED BY <2>1, <2>2, <2>3, <2>4
<1>8. CASE SendFrame(t)
  <2>1. PcOK'
    BY <1>8 DEF PcOK, DataOK, LocalOK, SendFrame, Label, AppLabel, RxLabel, MaintLabel, StartPath,
             StopPath, SendPath, ReturnOK, RepairOK
  <2>2. DataOK'
    BY <1>8 DEF DataOK, SendFrame, LocalOK, DstOK, FrameOK, Return, RouteStates, Faults
  <2>3. ASSUME NEW u \in Threads PROVE MutexOK(u)'
    BY <1>8 DEF PcOK, DataOK, MutexOK, LocalOK, SendFrame, HoldsAps, HoldsNwk, HoldsMac, UnderMac,
             NwkStarting, NwkStopping, MacStopping, SendPath, ReturnOK, RepairOK
  <2>4. LocalOK'
    BY <1>8 DEF PcOK, DataOK, LocalOK, SendFrame, ReturnOK, RepairOK, DstOK, FrameOK, SendPath
  <2> QED BY <2>1, <2>2, <2>3, <2>4
<1>9. CASE DiscoveryMarks(t)
  <2>1. PcOK'
    BY <1>9 DEF PcOK, DataOK, LocalOK, DiscoveryMarks, Label, AppLabel, RxLabel, MaintLabel,
             StartPath, StopPath, SendPath, ReturnOK, RepairOK
  <2>2. DataOK'
    BY <1>9 DEF DataOK, DiscoveryMarks, LocalOK, DstOK, FrameOK, Return, RouteStates, Faults
  <2>3. ASSUME NEW u \in Threads PROVE MutexOK(u)'
    BY <1>9 DEF PcOK, DataOK, MutexOK, LocalOK, DiscoveryMarks, HoldsAps, HoldsNwk, HoldsMac,
             UnderMac, NwkStarting, NwkStopping, MacStopping, SendPath, ReturnOK, RepairOK
  <2>4. LocalOK'
    BY <1>9 DEF PcOK, DataOK, LocalOK, DiscoveryMarks, ReturnOK, RepairOK, DstOK, FrameOK,
             SendPath
  <2> QED BY <2>1, <2>2, <2>3, <2>4
<1> QED
  BY <1>1, <1>2, <1>3, <1>4, <1>5, <1>6, <1>7, <1>8, <1>9
      DEF SendStep

(* Every handler of the NWK layer keeps it. *)
LEMMA HandlerKeeps == ASSUME LockInv, RxHandler PROVE LockInv'
<1> USE ConstantsAssumption, ThreadsAreDistinct
<1> USE DEF LockInv, Goto, Free, Acquire, Release, UnderLock, SetHandlers, AtNwkLock, Discovers,
            RxHandles, RxSends, locals, shared, Mutex, Rx, Maint
<1>1. CASE RxDrop
  <2>1. PcOK'
    BY <1>1 DEF PcOK, DataOK, LocalOK, RxDrop, Label, AppLabel, RxLabel, MaintLabel, StartPath,
             StopPath, SendPath, ReturnOK, RepairOK
  <2>2. DataOK'
    BY <1>1 DEF DataOK, RxDrop, LocalOK, DstOK, FrameOK, Return, RouteStates, Faults
  <2>3. ASSUME NEW u \in Threads PROVE MutexOK(u)'
    BY <1>1 DEF PcOK, DataOK, MutexOK, LocalOK, RxDrop, HoldsAps, HoldsNwk, HoldsMac, UnderMac,
             NwkStarting, NwkStopping, MacStopping, SendPath, ReturnOK, RepairOK
  <2>4. LocalOK'
    BY <1>1 DEF PcOK, DataOK, LocalOK, RxDrop, ReturnOK, RepairOK, DstOK, FrameOK, SendPath
  <2> QED BY <2>1, <2>2, <2>3, <2>4
<1>2. CASE RxLearn
  <2>1. PcOK'
    BY <1>2 DEF PcOK, DataOK, LocalOK, RxLearn, Label, AppLabel, RxLabel, MaintLabel, StartPath,
             StopPath, SendPath, ReturnOK, RepairOK
  <2>2. DataOK'
    BY <1>2 DEF DataOK, RxLearn, LocalOK, DstOK, FrameOK, Return, RouteStates, Faults
  <2>3. ASSUME NEW u \in Threads PROVE MutexOK(u)'
    BY <1>2 DEF PcOK, DataOK, MutexOK, LocalOK, RxLearn, HoldsAps, HoldsNwk, HoldsMac, UnderMac,
             NwkStarting, NwkStopping, MacStopping, SendPath, ReturnOK, RepairOK
  <2>4. LocalOK'
    BY <1>2 DEF PcOK, DataOK, LocalOK, RxLearn, ReturnOK, RepairOK, DstOK, FrameOK, SendPath
  <2> QED BY <2>1, <2>2, <2>3, <2>4
<1>3. CASE RxRelay
  <2>1. PcOK'
    BY <1>3 DEF PcOK, DataOK, LocalOK, RxRelay, Label, AppLabel, RxLabel, MaintLabel, StartPath,
             StopPath, SendPath, ReturnOK, RepairOK
  <2>2. DataOK'
    BY <1>3 DEF DataOK, RxRelay, LocalOK, DstOK, FrameOK, Return, RouteStates, Faults
  <2>3. ASSUME NEW u \in Threads PROVE MutexOK(u)'
    BY <1>3 DEF PcOK, DataOK, MutexOK, LocalOK, RxRelay, HoldsAps, HoldsNwk, HoldsMac, UnderMac,
             NwkStarting, NwkStopping, MacStopping, SendPath, ReturnOK, RepairOK
  <2>4. LocalOK'
    BY <1>3 DEF PcOK, DataOK, LocalOK, RxRelay, ReturnOK, RepairOK, DstOK, FrameOK, SendPath
  <2> QED BY <2>1, <2>2, <2>3, <2>4
<1>4. CASE RxRouteError
  <2>1. PcOK'
    BY <1>4 DEF PcOK, DataOK, LocalOK, RxRouteError, Label, AppLabel, RxLabel, MaintLabel,
             StartPath, StopPath, SendPath, ReturnOK, RepairOK
  <2>2. DataOK'
    BY <1>4 DEF DataOK, RxRouteError, LocalOK, DstOK, FrameOK, Return, RouteStates, Faults
  <2>3. ASSUME NEW u \in Threads PROVE MutexOK(u)'
    BY <1>4 DEF PcOK, DataOK, MutexOK, LocalOK, RxRouteError, HoldsAps, HoldsNwk, HoldsMac,
             UnderMac, NwkStarting, NwkStopping, MacStopping, SendPath, ReturnOK, RepairOK
  <2>4. LocalOK'
    BY <1>4 DEF PcOK, DataOK, LocalOK, RxRouteError, ReturnOK, RepairOK, DstOK, FrameOK, SendPath
  <2> QED BY <2>1, <2>2, <2>3, <2>4
<1>5. CASE RxForwards
  <2>1. PcOK'
    BY <1>5 DEF PcOK, DataOK, LocalOK, RxForwards, Label, AppLabel, RxLabel, MaintLabel,
             StartPath, StopPath, SendPath, ReturnOK, RepairOK
  <2>2. DataOK'
    <3>1. frame.addr \in Addr
      BY <1>5 DEF RxForwards, LocalOK, FrameOK, Frame
    <3> QED BY <1>5, <3>1 DEF DataOK, RxForwards, Return
  <2>3. ASSUME NEW u \in Threads PROVE MutexOK(u)'
    BY <1>5 DEF PcOK, DataOK, MutexOK, LocalOK, RxForwards, HoldsAps, HoldsNwk, HoldsMac,
             UnderMac, NwkStarting, NwkStopping, MacStopping, SendPath, ReturnOK, RepairOK
  <2>4. LocalOK'
    BY <1>5 DEF PcOK, DataOK, LocalOK, RxForwards, ReturnOK, RepairOK, DstOK, FrameOK, SendPath
  <2> QED BY <2>1, <2>2, <2>3, <2>4
<1>6. CASE RxNoRoute
  <2>1. PcOK'
    BY <1>6 DEF PcOK, DataOK, LocalOK, RxNoRoute, Label, AppLabel, RxLabel, MaintLabel, StartPath,
             StopPath, SendPath, ReturnOK, RepairOK
  <2>2. DataOK'
    BY <1>6 DEF DataOK, RxNoRoute, LocalOK, DstOK, FrameOK, Return, RouteStates, Faults
  <2>3. ASSUME NEW u \in Threads PROVE MutexOK(u)'
    BY <1>6 DEF PcOK, DataOK, MutexOK, LocalOK, RxNoRoute, HoldsAps, HoldsNwk, HoldsMac, UnderMac,
             NwkStarting, NwkStopping, MacStopping, SendPath, ReturnOK, RepairOK
  <2>4. LocalOK'
    BY <1>6 DEF PcOK, DataOK, LocalOK, RxNoRoute, ReturnOK, RepairOK, DstOK, FrameOK, SendPath
  <2> QED BY <2>1, <2>2, <2>3, <2>4
<1>7. CASE RxDeliver
  <2>1. PcOK'
    BY <1>7 DEF PcOK, DataOK, LocalOK, RxDeliver, Label, AppLabel, RxLabel, MaintLabel, StartPath,
             StopPath, SendPath, ReturnOK, RepairOK
  <2>2. DataOK'
    BY <1>7 DEF DataOK, RxDeliver, LocalOK, DstOK, FrameOK, Return, RouteStates, Faults
  <2>3. ASSUME NEW u \in Threads PROVE MutexOK(u)'
    BY <1>7 DEF PcOK, DataOK, MutexOK, LocalOK, RxDeliver, HoldsAps, HoldsNwk, HoldsMac, UnderMac,
             NwkStarting, NwkStopping, MacStopping, SendPath, ReturnOK, RepairOK
  <2>4. LocalOK'
    BY <1>7 DEF PcOK, DataOK, LocalOK, RxDeliver, ReturnOK, RepairOK, DstOK, FrameOK, SendPath
  <2> QED BY <2>1, <2>2, <2>3, <2>4
<1> QED
  BY <1>1, <1>2, <1>3, <1>4, <1>5, <1>6, <1>7
      DEF RxHandler

(* Every other step of the rx thread keeps it. *)
LEMMA RxKeeps == ASSUME LockInv, RxStep PROVE LockInv'
<1> USE ConstantsAssumption, ThreadsAreDistinct
<1> USE DEF LockInv, Goto, Free, Acquire, Release, UnderLock, SetHandlers, AtNwkLock, Discovers,
            RxHandles, RxSends, locals, shared, Mutex, Rx, Maint
<1>1. CASE RxLoop
  <2>1. PcOK'
    BY <1>1 DEF PcOK, DataOK, LocalOK, RxLoop, Label, AppLabel, RxLabel, MaintLabel, StartPath,
             StopPath, SendPath, ReturnOK, RepairOK
  <2>2. DataOK'
    BY <1>1 DEF DataOK, RxLoop, LocalOK, DstOK, FrameOK, Return, RouteStates, Faults
  <2>3. ASSUME NEW u \in Threads PROVE MutexOK(u)'
    BY <1>1 DEF PcOK, DataOK, MutexOK, LocalOK, RxLoop, HoldsAps, HoldsNwk, HoldsMac, UnderMac,
             NwkStarting, NwkStopping, MacStopping, SendPath, ReturnOK, RepairOK
  <2>4. LocalOK'
    BY <1>1 DEF PcOK, DataOK, LocalOK, RxLoop, ReturnOK, RepairOK, DstOK, FrameOK, SendPath
  <2> QED BY <2>1, <2>2, <2>3, <2>4
<1>2. CASE RawCheck
  <2>1. PcOK'
    BY <1>2 DEF PcOK, DataOK, LocalOK, RawCheck, Label, AppLabel, RxLabel, MaintLabel, StartPath,
             StopPath, SendPath, ReturnOK, RepairOK
  <2>2. DataOK'
    BY <1>2 DEF DataOK, RawCheck, LocalOK, DstOK, FrameOK, Return, RouteStates, Faults
  <2>3. ASSUME NEW u \in Threads PROVE MutexOK(u)'
    BY <1>2 DEF PcOK, DataOK, MutexOK, LocalOK, RawCheck, HoldsAps, HoldsNwk, HoldsMac, UnderMac,
             NwkStarting, NwkStopping, MacStopping, SendPath, ReturnOK, RepairOK
  <2>4. LocalOK'
    BY <1>2 DEF PcOK, DataOK, LocalOK, RawCheck, ReturnOK, RepairOK, DstOK, FrameOK, SendPath
  <2> QED BY <2>1, <2>2, <2>3, <2>4
<1>3. CASE RawCall
  <2>1. PcOK'
    BY <1>3 DEF PcOK, DataOK, LocalOK, RawCall, Label, AppLabel, RxLabel, MaintLabel, StartPath,
             StopPath, SendPath, ReturnOK, RepairOK
  <2>2. DataOK'
    BY <1>3 DEF DataOK, RawCall, LocalOK, DstOK, FrameOK, Return, RouteStates, Faults
  <2>3. ASSUME NEW u \in Threads PROVE MutexOK(u)'
    BY <1>3 DEF PcOK, DataOK, MutexOK, LocalOK, RawCall, HoldsAps, HoldsNwk, HoldsMac, UnderMac,
             NwkStarting, NwkStopping, MacStopping, SendPath, ReturnOK, RepairOK
  <2>4. LocalOK'
    BY <1>3 DEF PcOK, DataOK, LocalOK, RawCall, ReturnOK, RepairOK, DstOK, FrameOK, SendPath
  <2> QED BY <2>1, <2>2, <2>3, <2>4
<1>4. CASE RxAssoc
  <2>1. PcOK'
    BY <1>4 DEF PcOK, DataOK, LocalOK, RxAssoc, Label, AppLabel, RxLabel, MaintLabel, StartPath,
             StopPath, SendPath, ReturnOK, RepairOK
  <2>2. DataOK'
    BY <1>4 DEF DataOK, RxAssoc, LocalOK, DstOK, FrameOK, Return, RouteStates, Faults
  <2>3. ASSUME NEW u \in Threads PROVE MutexOK(u)'
    BY <1>4 DEF PcOK, DataOK, MutexOK, LocalOK, RxAssoc, HoldsAps, HoldsNwk, HoldsMac, UnderMac,
             NwkStarting, NwkStopping, MacStopping, SendPath, ReturnOK, RepairOK
  <2>4. LocalOK'
    BY <1>4 DEF PcOK, DataOK, LocalOK, RxAssoc, ReturnOK, RepairOK, DstOK, FrameOK, SendPath
  <2> QED BY <2>1, <2>2, <2>3, <2>4
<1>5. CASE RxMacLock
  <2>1. PcOK'
    BY <1>5 DEF PcOK, DataOK, LocalOK, RxMacLock, Label, AppLabel, RxLabel, MaintLabel, StartPath,
             StopPath, SendPath, ReturnOK, RepairOK
  <2>2. DataOK'
    BY <1>5 DEF DataOK, RxMacLock, LocalOK, DstOK, FrameOK, Return, RouteStates, Faults
  <2>3. ASSUME NEW u \in Threads PROVE MutexOK(u)'
    BY <1>5 DEF PcOK, DataOK, MutexOK, LocalOK, RxMacLock, HoldsAps, HoldsNwk, HoldsMac, UnderMac,
             NwkStarting, NwkStopping, MacStopping, SendPath, ReturnOK, RepairOK
  <2>4. LocalOK'
    BY <1>5 DEF PcOK, DataOK, LocalOK, RxMacLock, ReturnOK, RepairOK, DstOK, FrameOK, SendPath
  <2> QED BY <2>1, <2>2, <2>3, <2>4
<1>6. CASE RxRepair
  <2>1. PcOK'
    BY <1>6 DEF PcOK, DataOK, LocalOK, RxRepair, Label, AppLabel, RxLabel, MaintLabel, StartPath,
             StopPath, SendPath, ReturnOK, RepairOK
  <2>2. DataOK'
    BY <1>6 DEF DataOK, RxRepair, LocalOK, DstOK, FrameOK, Return, RouteStates, Faults
  <2>3. ASSUME NEW u \in Threads PROVE MutexOK(u)'
    BY <1>6 DEF PcOK, DataOK, MutexOK, LocalOK, RxRepair, HoldsAps, HoldsNwk, HoldsMac, UnderMac,
             NwkStarting, NwkStopping, MacStopping, SendPath, ReturnOK, RepairOK
  <2>4. LocalOK'
    BY <1>6 DEF PcOK, DataOK, LocalOK, RxRepair, ReturnOK, RepairOK, DstOK, FrameOK, SendPath
  <2> QED BY <2>1, <2>2, <2>3, <2>4
<1>7. CASE NwkCbCall
  <2>1. PcOK'
    BY <1>7 DEF PcOK, DataOK, LocalOK, NwkCbCall, Label, AppLabel, RxLabel, MaintLabel, StartPath,
             StopPath, SendPath, ReturnOK, RepairOK
  <2>2. DataOK'
    BY <1>7 DEF DataOK, NwkCbCall, LocalOK, DstOK, FrameOK, Return, RouteStates, Faults
  <2>3. ASSUME NEW u \in Threads PROVE MutexOK(u)'
    BY <1>7 DEF PcOK, DataOK, MutexOK, LocalOK, NwkCbCall, HoldsAps, HoldsNwk, HoldsMac, UnderMac,
             NwkStarting, NwkStopping, MacStopping, SendPath, ReturnOK, RepairOK
  <2>4. LocalOK'
    BY <1>7 DEF PcOK, DataOK, LocalOK, NwkCbCall, ReturnOK, RepairOK, DstOK, FrameOK, SendPath
  <2> QED BY <2>1, <2>2, <2>3, <2>4
<1>8. CASE RxApsLock
  <2>1. PcOK'
    BY <1>8 DEF PcOK, DataOK, LocalOK, RxApsLock, Label, AppLabel, RxLabel, MaintLabel, StartPath,
             StopPath, SendPath, ReturnOK, RepairOK
  <2>2. DataOK'
    <3>1. frame.addr \in Addr
      BY <1>8 DEF RxApsLock, LocalOK, FrameOK, Frame
    <3>2. (owner \in [Mutex -> Threads \cup {NoThread}])'
      BY <1>8 DEF DataOK, RxApsLock
    <3> QED BY <1>8, <3>1, <3>2 DEF DataOK, RxApsLock
  <2>3. ASSUME NEW u \in Threads PROVE MutexOK(u)'
    BY <1>8 DEF PcOK, DataOK, MutexOK, LocalOK, RxApsLock, HoldsAps, HoldsNwk, HoldsMac, UnderMac,
             NwkStarting, NwkStopping, MacStopping, SendPath, ReturnOK, RepairOK
  <2>4. LocalOK'
    BY <1>8 DEF PcOK, DataOK, LocalOK, RxApsLock, ReturnOK, RepairOK, DstOK, FrameOK, SendPath
  <2> QED BY <2>1, <2>2, <2>3, <2>4
<1>9. CASE RxMacUnlock
  <2>1. PcOK'
    BY <1>9 DEF PcOK, DataOK, LocalOK, RxMacUnlock, Label, AppLabel, RxLabel, MaintLabel,
             StartPath, StopPath, SendPath, ReturnOK, RepairOK
  <2>2. DataOK'
    BY <1>9 DEF DataOK, RxMacUnlock, LocalOK, DstOK, FrameOK, Return, RouteStates, Faults
  <2>3. ASSUME NEW u \in Threads PROVE MutexOK(u)'
    BY <1>9 DEF PcOK, DataOK, MutexOK, LocalOK, RxMacUnlock, HoldsAps, HoldsNwk, HoldsMac,
             UnderMac, NwkStarting, NwkStopping, MacStopping, SendPath, ReturnOK, RepairOK
  <2>4. LocalOK'
    BY <1>9 DEF PcOK, DataOK, LocalOK, RxMacUnlock, ReturnOK, RepairOK, DstOK, FrameOK, SendPath
  <2> QED BY <2>1, <2>2, <2>3, <2>4
<1>10. CASE EventCheck
  <2>1. PcOK'
    BY <1>10 DEF PcOK, DataOK, LocalOK, EventCheck, Label, AppLabel, RxLabel, MaintLabel,
             StartPath, StopPath, SendPath, ReturnOK, RepairOK
  <2>2. DataOK'
    BY <1>10 DEF DataOK, EventCheck, LocalOK, DstOK, FrameOK, Return, RouteStates, Faults
  <2>3. ASSUME NEW u \in Threads PROVE MutexOK(u)'
    BY <1>10 DEF PcOK, DataOK, MutexOK, LocalOK, EventCheck, HoldsAps, HoldsNwk, HoldsMac,
             UnderMac, NwkStarting, NwkStopping, MacStopping, SendPath, ReturnOK, RepairOK
  <2>4. LocalOK'
    BY <1>10 DEF PcOK, DataOK, LocalOK, EventCheck, ReturnOK, RepairOK, DstOK, FrameOK, SendPath
  <2> QED BY <2>1, <2>2, <2>3, <2>4
<1>11. CASE EventCall
  <2>1. PcOK'
    BY <1>11 DEF PcOK, DataOK, LocalOK, EventCall, Label, AppLabel, RxLabel, MaintLabel,
             StartPath, StopPath, SendPath, ReturnOK, RepairOK
  <2>2. DataOK'
    BY <1>11 DEF DataOK, EventCall, LocalOK, DstOK, FrameOK, Return, RouteStates, Faults
  <2>3. ASSUME NEW u \in Threads PROVE MutexOK(u)'
    BY <1>11 DEF PcOK, DataOK, MutexOK, LocalOK, EventCall, HoldsAps, HoldsNwk, HoldsMac,
             UnderMac, NwkStarting, NwkStopping, MacStopping, SendPath, ReturnOK, RepairOK
  <2>4. LocalOK'
    BY <1>11 DEF PcOK, DataOK, LocalOK, EventCall, ReturnOK, RepairOK, DstOK, FrameOK, SendPath
  <2> QED BY <2>1, <2>2, <2>3, <2>4
<1>12. CASE EventMacLock
  <2>1. PcOK'
    BY <1>12 DEF PcOK, DataOK, LocalOK, EventMacLock, Label, AppLabel, RxLabel, MaintLabel,
             StartPath, StopPath, SendPath, ReturnOK, RepairOK
  <2>2. DataOK'
    BY <1>12 DEF DataOK, EventMacLock, LocalOK, DstOK, FrameOK, Return, RouteStates, Faults
  <2>3. ASSUME NEW u \in Threads PROVE MutexOK(u)'
    BY <1>12 DEF PcOK, DataOK, MutexOK, LocalOK, EventMacLock, HoldsAps, HoldsNwk, HoldsMac,
             UnderMac, NwkStarting, NwkStopping, MacStopping, SendPath, ReturnOK, RepairOK
  <2>4. LocalOK'
    BY <1>12 DEF PcOK, DataOK, LocalOK, EventMacLock, ReturnOK, RepairOK, DstOK, FrameOK, SendPath
  <2> QED BY <2>1, <2>2, <2>3, <2>4
<1>13. CASE TxDone
  <2>1. PcOK'
    BY <1>13 DEF PcOK, DataOK, LocalOK, TxDone, Label, AppLabel, RxLabel, MaintLabel, StartPath,
             StopPath, SendPath, ReturnOK, RepairOK
  <2>2. DataOK'
    BY <1>13 DEF DataOK, TxDone, LocalOK, DstOK, FrameOK, Return, RouteStates, Faults
  <2>3. ASSUME NEW u \in Threads PROVE MutexOK(u)'
    BY <1>13 DEF PcOK, DataOK, MutexOK, LocalOK, TxDone, HoldsAps, HoldsNwk, HoldsMac, UnderMac,
             NwkStarting, NwkStopping, MacStopping, SendPath, ReturnOK, RepairOK
  <2>4. LocalOK'
    BY <1>13 DEF PcOK, DataOK, LocalOK, TxDone, ReturnOK, RepairOK, DstOK, FrameOK, SendPath
  <2> QED BY <2>1, <2>2, <2>3, <2>4
<1> QED
  BY <1>1, <1>2, <1>3, <1>4, <1>5, <1>6, <1>7, <1>8, <1>9, <1>10, <1>11, <1>12, <1>13,
     HandlerKeeps, SendKeeps DEF RxStep

(* So does looking for a frame in the receive buffer. *)
LEMMA BufferKeeps == ASSUME LockInv, RxReads PROVE LockInv'
<1> USE ConstantsAssumption, ThreadsAreDistinct
<1> USE DEF LockInv, Goto, Free, Acquire, Release, UnderLock, SetHandlers, AtNwkLock, Discovers,
            RxHandles, RxSends, locals, shared, Mutex, Rx, Maint
<1>1. CASE RxNoFrame
  <2>1. PcOK'
    BY <1>1 DEF PcOK, DataOK, LocalOK, RxNoFrame, Label, AppLabel, RxLabel, MaintLabel, StartPath,
             StopPath, SendPath, ReturnOK, RepairOK
  <2>2. DataOK'
    BY <1>1 DEF DataOK, RxNoFrame, LocalOK, DstOK, FrameOK, Return, RouteStates, Faults
  <2>3. ASSUME NEW u \in Threads PROVE MutexOK(u)'
    BY <1>1 DEF PcOK, DataOK, MutexOK, LocalOK, RxNoFrame, HoldsAps, HoldsNwk, HoldsMac, UnderMac,
             NwkStarting, NwkStopping, MacStopping, SendPath, ReturnOK, RepairOK
  <2>4. LocalOK'
    BY <1>1 DEF PcOK, DataOK, LocalOK, RxNoFrame, ReturnOK, RepairOK, DstOK, FrameOK, SendPath
  <2> QED BY <2>1, <2>2, <2>3, <2>4
<1>2. CASE RxBufferEmpty
  <2>1. PcOK'
    BY <1>2 DEF PcOK, DataOK, LocalOK, RxBufferEmpty, Label, AppLabel, RxLabel, MaintLabel,
             StartPath, StopPath, SendPath, ReturnOK, RepairOK
  <2>2. DataOK'
    BY <1>2 DEF DataOK, RxBufferEmpty, LocalOK, DstOK, FrameOK, Return, RouteStates, Faults
  <2>3. ASSUME NEW u \in Threads PROVE MutexOK(u)'
    BY <1>2 DEF PcOK, DataOK, MutexOK, LocalOK, RxBufferEmpty, HoldsAps, HoldsNwk, HoldsMac,
             UnderMac, NwkStarting, NwkStopping, MacStopping, SendPath, ReturnOK, RepairOK
  <2>4. LocalOK'
    BY <1>2 DEF PcOK, DataOK, LocalOK, RxBufferEmpty, ReturnOK, RepairOK, DstOK, FrameOK, SendPath
  <2> QED BY <2>1, <2>2, <2>3, <2>4
<1>3. ASSUME NEW f \in Frame, RxFrame(f) PROVE LockInv'
  <2>1. PcOK'
    BY <1>3 DEF PcOK, RxFrame, Label, RxLabel
  <2>2. DataOK'
    BY <1>3 DEF DataOK, RxFrame
  <2>3. ASSUME NEW u \in Threads PROVE MutexOK(u)'
    BY <1>3 DEF PcOK, DataOK, MutexOK, RxFrame, HoldsAps, HoldsNwk, HoldsMac, UnderMac, NwkStarting,
             NwkStopping, MacStopping, SendPath
  <2>4. LocalOK'
    BY <1>3 DEF PcOK, DataOK, LocalOK, RxFrame, ReturnOK, RepairOK, DstOK, FrameOK, SendPath
  <2> QED BY <2>1, <2>2, <2>3, <2>4
<1> QED
  BY <1>1, <1>2, <1>3 DEF RxReads

(* Every step of the maintenance thread keeps it. *)
LEMMA MaintKeeps == ASSUME LockInv, MaintStep PROVE LockInv'
<1> USE ConstantsAssumption, ThreadsAreDistinct
<1> USE DEF LockInv, Goto, Free, Acquire, Release, UnderLock, SetHandlers, AtNwkLock, Discovers,
            RxHandles, RxSends, locals, shared, Mutex, Rx, Maint
<1>1. CASE MaintLoop
  <2>1. PcOK'
    BY <1>1 DEF PcOK, DataOK, LocalOK, MaintLoop, Label, AppLabel, RxLabel, MaintLabel, StartPath,
             StopPath, SendPath, ReturnOK, RepairOK
  <2>2. DataOK'
    BY <1>1 DEF DataOK, MaintLoop, LocalOK, DstOK, FrameOK, Return, RouteStates, Faults
  <2>3. ASSUME NEW u \in Threads PROVE MutexOK(u)'
    BY <1>1 DEF PcOK, DataOK, MutexOK, LocalOK, MaintLoop, HoldsAps, HoldsNwk, HoldsMac, UnderMac,
             NwkStarting, NwkStopping, MacStopping, SendPath, ReturnOK, RepairOK
  <2>4. LocalOK'
    BY <1>1 DEF PcOK, DataOK, LocalOK, MaintLoop, ReturnOK, RepairOK, DstOK, FrameOK, SendPath
  <2> QED BY <2>1, <2>2, <2>3, <2>4
<1>2. CASE MaintWake
  <2>1. PcOK'
    BY <1>2 DEF PcOK, DataOK, LocalOK, MaintWake, Label, AppLabel, RxLabel, MaintLabel, StartPath,
             StopPath, SendPath, ReturnOK, RepairOK
  <2>2. DataOK'
    BY <1>2 DEF DataOK, MaintWake, LocalOK, DstOK, FrameOK, Return, RouteStates, Faults
  <2>3. ASSUME NEW u \in Threads PROVE MutexOK(u)'
    BY <1>2 DEF PcOK, DataOK, MutexOK, LocalOK, MaintWake, HoldsAps, HoldsNwk, HoldsMac, UnderMac,
             NwkStarting, NwkStopping, MacStopping, SendPath, ReturnOK, RepairOK
  <2>4. LocalOK'
    BY <1>2 DEF PcOK, DataOK, LocalOK, MaintWake, ReturnOK, RepairOK, DstOK, FrameOK, SendPath
  <2> QED BY <2>1, <2>2, <2>3, <2>4
<1>3. CASE MaintPrune
  <2>1. PcOK'
    BY <1>3 DEF PcOK, DataOK, LocalOK, MaintPrune, Label, AppLabel, RxLabel, MaintLabel,
             StartPath, StopPath, SendPath, ReturnOK, RepairOK
  <2>2. DataOK'
    BY <1>3 DEF DataOK, MaintPrune, LocalOK, DstOK, FrameOK, Return, RouteStates, Faults
  <2>3. ASSUME NEW u \in Threads PROVE MutexOK(u)'
    BY <1>3 DEF PcOK, DataOK, MutexOK, LocalOK, MaintPrune, HoldsAps, HoldsNwk, HoldsMac,
             UnderMac, NwkStarting, NwkStopping, MacStopping, SendPath, ReturnOK, RepairOK
  <2>4. LocalOK'
    BY <1>3 DEF PcOK, DataOK, LocalOK, MaintPrune, ReturnOK, RepairOK, DstOK, FrameOK, SendPath
  <2> QED BY <2>1, <2>2, <2>3, <2>4
<1> QED
  BY <1>1, <1>2, <1>3, SendKeeps DEF MaintStep

(* The other steps of an application thread keep it. *)
LEMMA AppKeeps == ASSUME LockInv, NEW t \in App, AppStep(t) PROVE LockInv'
<1> USE ConstantsAssumption, ThreadsAreDistinct
<1> USE DEF LockInv, Goto, Free, Acquire, Release, UnderLock, SetHandlers, AtNwkLock, Discovers,
            RxHandles, RxSends, locals, shared, Mutex, Rx, Maint
<1>1. CASE Repair(t)
  <2>1. PcOK'
    BY <1>1 DEF PcOK, DataOK, LocalOK, Repair, Label, AppLabel, RxLabel, MaintLabel, StartPath,
             StopPath, SendPath, ReturnOK, RepairOK
  <2>2. DataOK'
    BY <1>1 DEF DataOK, Repair, LocalOK, DstOK, FrameOK, Return, RouteStates, Faults
  <2>3. ASSUME NEW u \in Threads PROVE MutexOK(u)'
    BY <1>1 DEF PcOK, DataOK, MutexOK, LocalOK, Repair, HoldsAps, HoldsNwk, HoldsMac, UnderMac,
             NwkStarting, NwkStopping, MacStopping, SendPath, ReturnOK, RepairOK
  <2>4. LocalOK'
    BY <1>1 DEF PcOK, DataOK, LocalOK, Repair, ReturnOK, RepairOK, DstOK, FrameOK, SendPath
  <2> QED BY <2>1, <2>2, <2>3, <2>4
<1>2. CASE MacConfig(t)
  <2>1. PcOK'
    BY <1>2 DEF PcOK, DataOK, LocalOK, MacConfig, Label, AppLabel, RxLabel, MaintLabel, StartPath,
             StopPath, SendPath, ReturnOK, RepairOK
  <2>2. DataOK'
    BY <1>2 DEF DataOK, MacConfig, LocalOK, DstOK, FrameOK, Return, RouteStates, Faults
  <2>3. ASSUME NEW u \in Threads PROVE MutexOK(u)'
    BY <1>2 DEF PcOK, DataOK, MutexOK, LocalOK, MacConfig, HoldsAps, HoldsNwk, HoldsMac, UnderMac,
             NwkStarting, NwkStopping, MacStopping, SendPath, ReturnOK, RepairOK
  <2>4. LocalOK'
    BY <1>2 DEF PcOK, DataOK, LocalOK, MacConfig, ReturnOK, RepairOK, DstOK, FrameOK, SendPath
  <2> QED BY <2>1, <2>2, <2>3, <2>4
<1>3. CASE MacAssoc(t)
  <2>1. PcOK'
    BY <1>3 DEF PcOK, DataOK, LocalOK, MacAssoc, Label, AppLabel, RxLabel, MaintLabel, StartPath,
             StopPath, SendPath, ReturnOK, RepairOK
  <2>2. DataOK'
    BY <1>3 DEF DataOK, MacAssoc, LocalOK, DstOK, FrameOK, Return, RouteStates, Faults
  <2>3. ASSUME NEW u \in Threads PROVE MutexOK(u)'
    BY <1>3 DEF PcOK, DataOK, MutexOK, LocalOK, MacAssoc, HoldsAps, HoldsNwk, HoldsMac, UnderMac,
             NwkStarting, NwkStopping, MacStopping, SendPath, ReturnOK, RepairOK
  <2>4. LocalOK'
    BY <1>3 DEF PcOK, DataOK, LocalOK, MacAssoc, ReturnOK, RepairOK, DstOK, FrameOK, SendPath
  <2> QED BY <2>1, <2>2, <2>3, <2>4
<1> QED
  BY <1>1, <1>2, <1>3, StartKeeps, StopKeeps, SendKeeps DEF AppStep

(* A new call keeps it. *)
LEMMA CallKeeps ==
  ASSUME LockInv, NEW t \in App, NEW k \in Calls, NEW d \in Addr \cup {Broadcast}, Call(t, k, d)
  PROVE  LockInv'
<1> USE ConstantsAssumption, ThreadsAreDistinct
<1> USE DEF LockInv, Goto, shared, Rx, Maint
<1>1. /\ pc[t] = "idle"
      /\ \/ pc' = [pc EXCEPT ![t] = "zdoStart"]
         \/ pc' = [pc EXCEPT ![t] = "apsStop"]
         \/ pc' = [pc EXCEPT ![t] = "apsSend"]
         \/ pc' = [pc EXCEPT ![t] = "nwkLock"]
         \/ k = "repair" /\ pc' = [pc EXCEPT ![t] = "repair"]
         \/ pc' = [pc EXCEPT ![t] = "macConfig"]
         \/ pc' = [pc EXCEPT ![t] = "macAssoc"]
  BY DEF Call, Entry, CallKinds
<1>2. PcOK'
  BY <1>1 DEF PcOK, Label, AppLabel, StartPath, StopPath, SendPath
<1>3. DataOK'
  BY DEF DataOK, Call, Return
<1>4. ASSUME NEW u \in Threads PROVE MutexOK(u)'
  BY <1>1 DEF PcOK, DataOK, MutexOK, Call, HoldsAps, HoldsNwk, HoldsMac, UnderMac, NwkStarting,
              NwkStopping, MacStopping, SendPath
<1>5. LocalOK'
  BY <1>1 DEF PcOK, DataOK, LocalOK, Call, ReturnOK, RepairOK, DstOK, FrameOK, SendPath
<1> QED BY <1>2, <1>3, <1>4, <1>5

LEMMA StutterKeeps == ASSUME LockInv, UNCHANGED vars PROVE LockInv'
BY DEF LockInv, PcOK, DataOK, LocalOK, MutexOK, ReturnOK, RepairOK, DstOK, FrameOK, HoldsAps, HoldsNwk,
       HoldsMac, vars

LEMMA LockStep == LockInv /\ [Next]_vars => LockInv'
<1> SUFFICES ASSUME LockInv, [Next]_vars PROVE LockInv'
  OBVIOUS
<1>1. CASE AppCalls
  BY <1>1, CallKeeps DEF AppCalls
<1>2. CASE \E t \in App : AppStep(t)
  BY <1>2, AppKeeps
<1>3. CASE RxReads
  BY <1>3, BufferKeeps
<1>4. CASE RxStep
  BY <1>4, RxKeeps
<1>5. CASE MaintStep
  BY <1>5, MaintKeeps
<1>6. CASE UNCHANGED vars
  BY <1>6, StutterKeeps
<1> QED BY <1>1, <1>2, <1>3, <1>4, <1>5, <1>6 DEF Next

LEMMA LockInvariant == Spec => []LockInv
BY LockInit, LockStep, PTL DEF Spec

-----------------------------------------------------------------------------

(* Every variable always has its type. *)
THEOREM TypeCorrect == Spec => []TypeOK
<1>1. LockInv => TypeOK
  BY DEF LockInv, PcOK, DataOK, TypeOK
<1> QED BY <1>1, LockInvariant, PTL

(* No path through start, stop, the send calls or a handler leaks a mutex, *)
(* or unlocks one it does not hold.                                        *)
THEOREM LocksAreDisciplined == Spec => []LockDiscipline
<1>1. LockInv => LockDiscipline
  BY DEF LockInv, MutexOK, LockDiscipline
<1> QED BY <1>1, LockInvariant, PTL

(* The mutexes are ordered APS, NWK, MAC: in a set of threads that wait    *)
(* for each other and has none of the known causes, no thread can wait for *)
(* the MAC mutex, hence none for NWK's, hence none for APS's.              *)
LEMMA LockOrder == LockInv => EveryDeadlockIsKnown
<1> USE ThreadsAreDistinct
<1> SUFFICES ASSUME LockInv, NEW S \in SUBSET Threads, Deadlocked(S),
                    \A t \in S : pc[t] \notin {"nwkRelock", "joinMaint", "joinRx"},
                    ~(Rx \in S /\ owner["mac"] = Rx)
             PROVE  FALSE
  BY DEF EveryDeadlockIsKnown
<1> USE DEF LockInv
<1>1. \A t \in S : \E u \in S :
        \/ pc[t] \in WantsAps /\ owner["aps"] = u
        \/ pc[t] \in WantsNwk /\ owner["nwk"] = u
        \/ pc[t] \in WantsMac /\ owner["mac"] = u
  BY DEF Deadlocked, WaitsFor
<1>2. \A u \in S : owner["mac"] # u
  <2> SUFFICES ASSUME NEW u \in S, owner["mac"] = u PROVE FALSE
    OBVIOUS
  <2>1. pc[u] \in MacStopping
    BY DEF MutexOK, HoldsMac
  <2> QED BY <1>1, <2>1 DEF MacStopping, WantsAps, WantsNwk, WantsMac
<1>3. \A u \in S : owner["nwk"] # u
  <2> SUFFICES ASSUME NEW u \in S, owner["nwk"] = u PROVE FALSE
    OBVIOUS
  <2>1. HoldsNwk(u)
    BY DEF MutexOK
  <2>2. pc[u] \notin WantsAps \cup WantsNwk
    BY <2>1 DEF HoldsNwk, NwkStarting, NwkStopping, MacStopping, WantsAps, WantsNwk
  <2> QED BY <1>1, <1>2, <2>2
<1>4. \A u \in S : owner["aps"] # u
  <2> SUFFICES ASSUME NEW u \in S, owner["aps"] = u PROVE FALSE
    OBVIOUS
  <2>1. HoldsAps(u)
    BY DEF MutexOK
  <2>2. pc[u] \notin WantsAps
    <3>1. CASE pc[u] = "apsSend" /\ u = Rx
      BY <3>1 DEF MutexOK, HoldsMac, UnderMac
    <3>2. CASE ~(pc[u] = "apsSend" /\ u = Rx)
      BY <2>1, <3>2 DEF HoldsAps, NwkStarting, NwkStopping, MacStopping, SendPath, WantsAps
    <3> QED BY <3>1, <3>2
  <2> QED BY <1>1, <1>2, <1>3, <2>2
<1> QED BY <1>1, <1>2, <1>3, <1>4 DEF Deadlocked

(* Whatever the application does and whatever the radio hands up, threads  *)
(* wait for each other only through the four known causes.                 *)
THEOREM DeadlocksAreKnown == Spec => []EveryDeadlockIsKnown
BY LockOrder, LockInvariant, PTL

-----------------------------------------------------------------------------
(* Starting and stopping.                                                  *)

(* The stack at stage s of a start or a stop, or "up" or "down" between.   *)
Starting == {"setNwkCb", "nwkStart"} \cup NwkStarting
Up       == {"up", "clearNwkCb", "nwkStop"}
NwkDown  == {"clearFrameCb", "clearTxDoneCb", "joinMaint"}

RunningAt(s) ==
  /\ running["aps"] <=> s \in Starting \cup {"up"}
  /\ running["nwk"] <=> s \in Up \cup NwkStarting
  /\ running["mac"] <=> s \in Up \cup NwkDown \cup {"macStop"}
  /\ running["spinel"] <=> s \in Up \cup NwkDown \cup {"macStop", "clearRawCb", "clearEventCb", "spinelStop"}

HandlersAt(s) ==
  /\ handler["nwk"] <=> s \in (Starting \ {"setNwkCb"}) \cup {"up", "clearNwkCb"}
  /\ handler["frame"] <=> s \in (NwkStarting \ {"setFrameCb"}) \cup Up \cup {"clearFrameCb"}
  /\ handler["txDone"] <=> s \in {"spawnMaint", "macStart"} \cup Up \cup {"clearFrameCb", "clearTxDoneCb"}
  /\ handler["raw"] <=> s \in Up \cup NwkDown \cup {"macStop", "clearRawCb"}
  /\ handler["event"] <=> s \in Up \cup NwkDown \cup {"macStop", "clearRawCb", "clearEventCb"}

ThreadsAt(s) ==
  /\ pc[Maint] = "none" <=> s \notin {"macStart"} \cup Up \cup NwkDown
  /\ pc[Maint] = "ended" => s \in NwkDown
  /\ pc[Rx] = "none" <=> s \in Starting \cup {"down"}
  /\ pc[Rx] = "ended" => s = "joinRx"

StageOK(s) == RunningAt(s) /\ HandlersAt(s) /\ ThreadsAt(s)

StagesOK ==
  /\ \A t \in App : Within(t) => StageOK(pc[t])
  /\ (\A t \in App : ~Within(t)) => StageOK("up") \/ StageOK("down")

(* TransmitsOnlyWhileRunning, of NWK alone. *)
SendersOK ==
  \A t \in Threads : pc[t] \in {"nwkDiscover", "macLock"} => hasAddr /\ running["nwk"]

LifeInv ==
  /\ LockInv
  /\ StagesOK
  /\ SendersOK
  /\ ClearedHandlersAreLeft
  /\ fault # "threadOverwritten"
  /\ NullCallsNeedStop

(* Calls that never wait for a lock that is held above the rx thread, and  *)
(* frames for which the rx thread sends nothing with the MAC mutex held.   *)
QuietCalls   == {"start", "manyToOne", "repair", "config", "association"}
QuietTraffic == {"drop", "assoc", "learn", "routeError", "data", "property"}

Quiet == Calls \subseteq QuietCalls /\ Traffic \subseteq QuietTraffic

QuietSend == {"nwkLock", "macLock"}
QuietApp  ==
  {"idle", "repair", "repairDiscover", "repairMark", "macConfig", "macAssoc"} \cup StartPath \cup QuietSend

(* No unicast, nothing sent by the rx thread, no stop. *)
QuietOK ==
  /\ \A t \in App : pc[t] \in QuietApp /\ ret[t] = "idle"
  /\ \A t \in Threads : pc[t] = "nwkLock" => dst[t] = Broadcast
  /\ pc[Rx] \notin SendPath \cup {"apsSend", "apsUnlock", "txDone"}
  /\ pc[Maint] \notin SendPath \ QuietSend
  /\ frame.kind \in QuietTraffic \cup {"none"}

QuietInv == LifeInv /\ QuietOK

-----------------------------------------------------------------------------
(* Moving from stage to stage.                                             *)

Stages == Starting \cup {"clearNwkCb", "nwkStop"} \cup NwkDown \cup {"macStop"} \cup MacStopping

LEMMA WithinIsAStage == \A t \in Threads : Within(t) <=> pc[t] \in Stages
BY DEF Within, Stages, StartPath, StopPath, Starting, NwkDown, NwkStarting, MacStopping

(* Only one thread is inside a start or a stop.                            *)
LEMMA WithinIsAlone ==
  ASSUME LockInv
  PROVE  /\ \A t \in App, u \in App : Within(t) /\ Within(u) => t = u
         /\ Free("aps") => \A t \in App : ~Within(t)
<1>1. \A t \in App : Within(t) => owner["aps"] = t
  <2>1. \A t \in App : Within(t) => HoldsAps(t)
    BY WithinIsAStage, ThreadsAreDistinct
       DEF Stages, Starting, NwkDown, HoldsAps, NwkStarting, NwkStopping, MacStopping
  <2>. QED BY <2>1, ThreadsAreDistinct DEF LockInv, MutexOK
<1>. QED BY <1>1, ThreadsAreDistinct DEF Free

(* The thread inside goes on to another stage, or one enters. *)
LEMMA StageMoves ==
  ASSUME LockInv, NEW t \in App, Within(t) \/ Free("aps"),
         \A u \in App : u # t => pc'[u] = pc[u],
         NEW l \in Stages, pc'[t] = l, StageOK(l)'
  PROVE  StagesOK'
<1>1. \A u \in App : u # t => ~Within(u)
  BY WithinIsAlone
<1>2. \A u \in App : u # t => ~Within(u)'
  BY <1>1 DEF Within
<1>3. Within(t)'
  BY DEF Within, Stages, StartPath, StopPath, Starting, NwkDown, NwkStarting, MacStopping
<1>4. StageOK(pc[t])'
  BY DEF StageOK, RunningAt, HandlersAt, ThreadsAt
<1>. QED BY <1>2, <1>3, <1>4 DEF StagesOK

(* The thread inside leaves. *)
LEMMA StageEnds ==
  ASSUME LockInv, NEW t \in App, Within(t),
         \A u \in App : u # t => pc'[u] = pc[u],
         pc'[t] = "idle", StageOK("up")' \/ StageOK("down")'
  PROVE  StagesOK'
<1>1. \A u \in App : u # t => ~Within(u)
  BY WithinIsAlone
<1>2. \A u \in App : ~Within(u)'
  BY <1>1 DEF Within, StartPath, StopPath
<1>. QED BY <1>2 DEF StagesOK

(* Any other step, of a thread that does not enter or leave. *)
LEMMA StageStays ==
  ASSUME StagesOK, UNCHANGED <<running, handler>>,
         \A u \in App : pc'[u] = pc[u] \/ (pc[u] \notin Stages /\ pc'[u] \notin Stages),
         pc'[Maint] = "none" <=> pc[Maint] = "none",
         pc'[Maint] = "ended" => pc[Maint] = "ended" \/ ~running["nwk"],
         pc'[Rx] = "none" <=> pc[Rx] = "none",
         pc'[Rx] = "ended" => pc[Rx] = "ended" \/ ~running["spinel"]
  PROVE  StagesOK'
<1>1. ASSUME NEW s \in Stages \cup {"up", "down"}, StageOK(s)
      PROVE  StageOK(s)'
  <2>1. RunningAt(s)' /\ HandlersAt(s)'
    BY <1>1 DEF StageOK, RunningAt, HandlersAt
  <2>2. pc'[Maint] = "ended" => s \in NwkDown
    BY <1>1 DEF StageOK, RunningAt, ThreadsAt, Up, NwkStarting
  <2>3. pc'[Rx] = "ended" => s = "joinRx"
    BY <1>1 DEF StageOK, RunningAt, ThreadsAt, Stages, Up, Starting, NwkDown, NwkStarting, MacStopping
  <2>. QED BY <1>1, <2>1, <2>2, <2>3 DEF StageOK, ThreadsAt
<1>2. \A u \in App : Within(u) <=> pc[u] \in Stages
  BY WithinIsAStage, ThreadsAreDistinct
<1>3. \A u \in App : Within(u)' <=> pc'[u] \in Stages
  BY DEF Within, Stages, StartPath, StopPath, Starting, NwkDown, NwkStarting, MacStopping
<1>4. ASSUME NEW u \in App, Within(u)' PROVE StageOK(pc[u])'
  <2>1. pc'[u] = pc[u] /\ pc[u] \in Stages /\ StageOK(pc[u])
    BY <1>2, <1>3, <1>4 DEF StagesOK
  <2>2. ASSUME NEW s \in Stages, s = pc[u] PROVE StageOK(pc[u])'
    <3>1. StageOK(s)'
      BY <1>1, <2>1, <2>2
    <3>. QED BY <2>1, <2>2, <3>1 DEF StageOK, RunningAt, HandlersAt, ThreadsAt
  <2>. QED BY <2>1, <2>2
<1>5. (\A u \in App : ~Within(u)') => \A u \in App : ~Within(u)
  BY <1>2, <1>3
<1>. QED BY <1>1, <1>4, <1>5 DEF StagesOK

-----------------------------------------------------------------------------
(* The stages of a start and of a stop.                                    *)

LEMMA StartStages ==
  ASSUME LifeInv, NEW t \in App, StartStep(t)
  PROVE  StagesOK' /\ fault' # "threadOverwritten"
<1>. USE ThreadsAreDistinct
<1>. USE DEF Goto, UnderLock, SetHandlers, Acquire, shared
<1>1. /\ pc \in [Threads -> Label] /\ running \in [Layer -> BOOLEAN]
      /\ handler \in [Callbacks -> BOOLEAN] /\ t # Rx /\ t # Maint /\ Rx # Maint
      /\ fault # "threadOverwritten"
  BY DEF LifeInv, LockInv, PcOK, DataOK, Rx, Maint
<1>2. \A l \in Stages : pc[t] = l => Within(t) /\ StageOK(l)
  BY WithinIsAStage DEF LifeInv, StagesOK, StageOK, RunningAt, HandlersAt, ThreadsAt
<1>3. ASSUME NEW l \in Stages, Within(t) \/ Free("aps"), StageOK(l)',
             pc'[t] = l, \A u \in App : u # t => pc'[u] = pc[u]
      PROVE  StagesOK'
  BY <1>3, StageMoves DEF LifeInv
<1>4. \A u \in Threads : Free("aps") /\ u \in App => ~Within(u)
  BY WithinIsAlone DEF LifeInv
<1>5. Free("aps") => StageOK("up") \/ StageOK("down")
  BY <1>4 DEF LifeInv, StagesOK
<1>6. ASSUME UNCHANGED <<running, handler>>, pc'[t] \notin Stages, pc[t] \notin Stages,
             \A u \in Threads : u # t => pc'[u] = pc[u]
      PROVE  StagesOK'
  BY <1>1, <1>6, StageStays DEF LifeInv
<1>7. CASE ZdoStart(t)
  <2>1. StagesOK'
    <3>1. \A u \in App : ~Within(u)
      BY <1>7, WithinIsAlone DEF LifeInv, ZdoStart
    <3>2. StageOK("up")' \/ StageOK("down")'
      BY <1>1, <1>5, <1>7 DEF ZdoStart, StageOK, RunningAt, HandlersAt, ThreadsAt, Callbacks
    <3>3. \A u \in App : ~Within(u)'
      BY <1>1, <1>7, <3>1 DEF ZdoStart, Within, StartPath, StopPath
    <3>. QED BY <3>2, <3>3 DEF StagesOK
  <2>. QED BY <1>1, <1>7, <2>1 DEF ZdoStart
<1>8. CASE ApsStart(t)
  <2>1. pc[t] = "apsStart" /\ Free("aps") /\ \A u \in Threads : u # t => pc'[u] = pc[u]
    BY <1>1, <1>8 DEF ApsStart
  <2>2. CASE running["aps"]
    <3>1. pc'[t] = "idle" /\ UNCHANGED <<running, handler>>
      BY <1>1, <1>8, <2>2 DEF ApsStart
    <3>. QED
      BY <1>1, <1>6, <1>8, <2>1, <3>1 DEF ApsStart, Stages, Starting, NwkStarting, NwkDown, MacStopping
  <2>3. CASE ~running["aps"]
    <3>1. StageOK("down")
      BY <1>5, <2>1, <2>3 DEF StageOK, RunningAt
    <3>2. pc'[t] = "setNwkCb" /\ StageOK("setNwkCb")'
      BY <1>1, <1>8, <2>1, <2>3, <3>1
         DEF ApsStart, StageOK, RunningAt, HandlersAt, ThreadsAt, Starting, NwkStarting, NwkDown, Up, Layer
    <3>3. StagesOK'
      BY <1>3, <2>1, <3>2 DEF Stages, Starting
    <3>. QED BY <1>1, <1>8, <3>3 DEF ApsStart
  <2>. QED BY <2>2, <2>3
<1>9. CASE SetNwkCb(t)
  <2>1. pc[t] = "setNwkCb" /\ pc'[t] = "nwkStart" /\ \A u \in Threads : u # t => pc'[u] = pc[u]
    BY <1>1, <1>9 DEF SetNwkCb
  <2>2. StageOK("setNwkCb")
    BY <1>2, <2>1 DEF Stages, Starting, NwkStarting, NwkDown, MacStopping
  <2>3. StageOK("nwkStart")'
    BY <1>1, <1>9, <2>1, <2>2
       DEF SetNwkCb, StageOK, RunningAt, HandlersAt, ThreadsAt, Starting, NwkStarting, NwkDown, Up, Layer, Callbacks
  <2>4. StagesOK'
    BY <1>2, <1>3, <2>1, <2>3 DEF Stages, Starting, NwkStarting, NwkDown, MacStopping
  <2>. QED BY <1>1, <1>9, <2>4 DEF SetNwkCb
<1>10. CASE NwkStart(t)
  <2>1. pc[t] = "nwkStart" /\ \A u \in Threads : u # t => pc'[u] = pc[u]
    BY <1>1, <1>10 DEF NwkStart
  <2>2. StageOK("nwkStart")
    BY <1>2, <2>1 DEF Stages, Starting
  <2>3. ~running["nwk"]
    BY <2>2 DEF StageOK, RunningAt, Up, NwkStarting
  <2>4. pc'[t] = "setFrameCb" /\ StageOK("setFrameCb")'
    BY <1>1, <1>10, <2>1, <2>2, <2>3
       DEF NwkStart, StageOK, RunningAt, HandlersAt, ThreadsAt, Starting, NwkStarting, NwkDown, Up, Layer
  <2>5. StagesOK'
    BY <1>2, <1>3, <2>1, <2>4 DEF Stages, Starting, NwkStarting
  <2>. QED BY <1>1, <1>10, <2>5 DEF NwkStart
<1>11. CASE SetFrameCb(t)
  <2>1. pc[t] = "setFrameCb" /\ pc'[t] = "setTxDoneCb" /\ \A u \in Threads : u # t => pc'[u] = pc[u]
    BY <1>1, <1>11 DEF SetFrameCb
  <2>2. StageOK("setFrameCb")
    BY <1>2, <2>1 DEF Stages, Starting, NwkStarting, NwkDown, MacStopping
  <2>3. StageOK("setTxDoneCb")'
    BY <1>1, <1>11, <2>1, <2>2
       DEF SetFrameCb, StageOK, RunningAt, HandlersAt, ThreadsAt, Starting, NwkStarting, NwkDown, Up, Layer, Callbacks
  <2>4. StagesOK'
    BY <1>2, <1>3, <2>1, <2>3 DEF Stages, Starting, NwkStarting, NwkDown, MacStopping
  <2>. QED BY <1>1, <1>11, <2>4 DEF SetFrameCb
<1>12. CASE SetTxDoneCb(t)
  <2>1. pc[t] = "setTxDoneCb" /\ pc'[t] = "spawnMaint" /\ \A u \in Threads : u # t => pc'[u] = pc[u]
    BY <1>1, <1>12 DEF SetTxDoneCb
  <2>2. StageOK("setTxDoneCb")
    BY <1>2, <2>1 DEF Stages, Starting, NwkStarting, NwkDown, MacStopping
  <2>3. StageOK("spawnMaint")'
    BY <1>1, <1>12, <2>1, <2>2
       DEF SetTxDoneCb, StageOK, RunningAt, HandlersAt, ThreadsAt, Starting, NwkStarting, NwkDown, Up, Layer, Callbacks
  <2>4. StagesOK'
    BY <1>2, <1>3, <2>1, <2>3 DEF Stages, Starting, NwkStarting, NwkDown, MacStopping
  <2>. QED BY <1>1, <1>12, <2>4 DEF SetTxDoneCb
<1>13. CASE SpawnMaint(t)
  <2>1. /\ pc[t] = "spawnMaint" /\ pc'[t] = "macStart" /\ pc'[Maint] = "mtLoop" /\ pc'[Rx] = pc[Rx]
        /\ \A u \in App : u # t => pc'[u] = pc[u]
    BY <1>1, <1>13 DEF SpawnMaint
  <2>2. StageOK("spawnMaint")
    BY <1>2, <2>1 DEF Stages, Starting, NwkStarting
  <2>3. StageOK("macStart")'
    BY <1>1, <1>13, <2>1, <2>2
       DEF SpawnMaint, StageOK, RunningAt, HandlersAt, ThreadsAt, Starting, NwkStarting, NwkDown, Up
  <2>4. StagesOK'
    BY <1>2, <1>3, <2>1, <2>3 DEF Stages, Starting, NwkStarting
  <2>5. pc[Maint] = "none"
    BY <2>2 DEF StageOK, ThreadsAt, Up, NwkDown
  <2>. QED BY <1>1, <1>13, <2>4, <2>5 DEF SpawnMaint
<1>14. CASE MacStart(t)
  <2>1. pc[t] = "macStart" /\ StageOK("macStart") /\ Within(t)
    BY <1>2, <1>14 DEF MacStart, Stages, Starting, NwkStarting
  <2>2. ~running["mac"] /\ ~running["spinel"] /\ pc[Rx] = "none"
    BY <2>1 DEF StageOK, RunningAt, ThreadsAt, Up, NwkDown, Starting, NwkStarting
  <2>3. pc' = [pc EXCEPT ![t] = "idle", ![Rx] = "rxLoop"] /\ fault' = fault
    BY <1>14, <2>2 DEF MacStart
  <2>4. /\ running' = [running EXCEPT !["mac"] = TRUE, !["spinel"] = TRUE]
        /\ handler' = [c \in Callbacks |-> IF c \in {"raw", "event"} THEN TRUE ELSE handler[c]]
    BY <1>14, <2>2 DEF MacStart
  <2>5. StageOK("up")'
    BY <1>1, <2>1, <2>3, <2>4
       DEF StageOK, RunningAt, HandlersAt, ThreadsAt, Starting, NwkStarting, NwkDown, Up, Layer, Callbacks
  <2>6. StagesOK'
    BY <1>1, <2>1, <2>3, <2>5, StageEnds DEF LifeInv
  <2>. QED BY <1>1, <2>3, <2>6
<1>. QED BY <1>7, <1>8, <1>9, <1>10, <1>11, <1>12, <1>13, <1>14 DEF StartStep

LEMMA StopStages ==
  ASSUME LifeInv, NEW t \in App, StopStep(t)
  PROVE  StagesOK' /\ fault' # "threadOverwritten"
<1>. USE ThreadsAreDistinct
<1>. USE DEF Goto, UnderLock, SetHandlers, Acquire, shared
<1>1. /\ pc \in [Threads -> Label] /\ running \in [Layer -> BOOLEAN]
      /\ handler \in [Callbacks -> BOOLEAN] /\ t # Rx /\ t # Maint /\ Rx # Maint
      /\ fault # "threadOverwritten"
  BY DEF LifeInv, LockInv, PcOK, DataOK, Rx, Maint
<1>2. \A l \in Stages : pc[t] = l => Within(t) /\ StageOK(l)
  BY WithinIsAStage DEF LifeInv, StagesOK, StageOK, RunningAt, HandlersAt, ThreadsAt
<1>3. ASSUME NEW l \in Stages, Within(t) \/ Free("aps"), StageOK(l)',
             pc'[t] = l, \A u \in App : u # t => pc'[u] = pc[u]
      PROVE  StagesOK'
  BY <1>3, StageMoves DEF LifeInv
<1>4. \A u \in Threads : Free("aps") /\ u \in App => ~Within(u)
  BY WithinIsAlone DEF LifeInv
<1>5. Free("aps") => StageOK("up") \/ StageOK("down")
  BY <1>4 DEF LifeInv, StagesOK
<1>6. ASSUME UNCHANGED <<running, handler>>, pc'[t] \notin Stages, pc[t] \notin Stages,
             \A u \in Threads : u # t => pc'[u] = pc[u]
      PROVE  StagesOK'
  BY <1>1, <1>6, StageStays DEF LifeInv
<1>7. CASE ApsStop(t)
  <2>1. pc[t] = "apsStop" /\ Free("aps") /\ \A u \in Threads : u # t => pc'[u] = pc[u]
    BY <1>1, <1>7 DEF ApsStop
  <2>2. CASE ~running["aps"]
    <3>1. pc'[t] = "idle" /\ UNCHANGED <<running, handler>>
      BY <1>1, <1>7, <2>2 DEF ApsStop
    <3>. QED
      BY <1>1, <1>6, <1>7, <2>1, <3>1 DEF ApsStop, Stages, Starting, NwkStarting, NwkDown, MacStopping
  <2>3. CASE running["aps"]
    <3>1. StageOK("up")
      BY <1>5, <2>1, <2>3 DEF StageOK, RunningAt, Starting, NwkStarting
    <3>2. pc'[t] = "clearNwkCb" /\ StageOK("clearNwkCb")'
      BY <1>1, <1>7, <2>1, <2>3, <3>1
         DEF ApsStop, StageOK, RunningAt, HandlersAt, ThreadsAt, Starting, NwkStarting, NwkDown, Up, Layer
    <3>3. StagesOK'
      BY <1>3, <2>1, <3>2 DEF Stages
    <3>. QED BY <1>1, <1>7, <3>3 DEF ApsStop
  <2>. QED BY <2>2, <2>3
<1>8. CASE ClearNwkCb(t)
  <2>1. pc[t] = "clearNwkCb" /\ pc'[t] = "nwkStop" /\ \A u \in Threads : u # t => pc'[u] = pc[u]
    BY <1>1, <1>8 DEF ClearNwkCb
  <2>2. StageOK("clearNwkCb")
    BY <1>2, <2>1 DEF Stages, Starting, NwkStarting, NwkDown, MacStopping
  <2>3. StageOK("nwkStop")'
    BY <1>1, <1>8, <2>1, <2>2
       DEF ClearNwkCb, StageOK, RunningAt, HandlersAt, ThreadsAt, Starting, NwkStarting, NwkDown, Up, Layer, Callbacks
  <2>4. StagesOK'
    BY <1>2, <1>3, <2>1, <2>3 DEF Stages, Starting, NwkStarting, NwkDown, MacStopping
  <2>. QED BY <1>1, <1>8, <2>4 DEF ClearNwkCb
<1>9. CASE NwkStop(t)
  <2>1. pc[t] = "nwkStop" /\ \A u \in Threads : u # t => pc'[u] = pc[u]
    BY <1>1, <1>9 DEF NwkStop
  <2>2. StageOK("nwkStop")
    BY <1>2, <2>1 DEF Stages
  <2>3. running["nwk"]
    BY <2>2 DEF StageOK, RunningAt, Up
  <2>4. pc'[t] = "clearFrameCb" /\ StageOK("clearFrameCb")'
    BY <1>1, <1>9, <2>1, <2>2, <2>3
       DEF NwkStop, StageOK, RunningAt, HandlersAt, ThreadsAt, Starting, NwkStarting, NwkDown, Up, Layer
  <2>5. StagesOK'
    BY <1>2, <1>3, <2>1, <2>4 DEF Stages, NwkDown
  <2>. QED BY <1>1, <1>9, <2>5 DEF NwkStop
<1>10. CASE ClearFrameCb(t)
  <2>1. pc[t] = "clearFrameCb" /\ pc'[t] = "clearTxDoneCb" /\ \A u \in Threads : u # t => pc'[u] = pc[u]
    BY <1>1, <1>10 DEF ClearFrameCb
  <2>2. StageOK("clearFrameCb")
    BY <1>2, <2>1 DEF Stages, Starting, NwkStarting, NwkDown, MacStopping
  <2>3. StageOK("clearTxDoneCb")'
    BY <1>1, <1>10, <2>1, <2>2
       DEF ClearFrameCb, StageOK, RunningAt, HandlersAt, ThreadsAt, Starting, NwkStarting, NwkDown, Up, Layer, Callbacks
  <2>4. StagesOK'
    BY <1>2, <1>3, <2>1, <2>3 DEF Stages, Starting, NwkStarting, NwkDown, MacStopping
  <2>. QED BY <1>1, <1>10, <2>4 DEF ClearFrameCb
<1>11. CASE ClearTxDoneCb(t)
  <2>1. pc[t] = "clearTxDoneCb" /\ pc'[t] = "joinMaint" /\ \A u \in Threads : u # t => pc'[u] = pc[u]
    BY <1>1, <1>11 DEF ClearTxDoneCb
  <2>2. StageOK("clearTxDoneCb")
    BY <1>2, <2>1 DEF Stages, Starting, NwkStarting, NwkDown, MacStopping
  <2>3. StageOK("joinMaint")'
    BY <1>1, <1>11, <2>1, <2>2
       DEF ClearTxDoneCb, StageOK, RunningAt, HandlersAt, ThreadsAt, Starting, NwkStarting, NwkDown, Up, Layer, Callbacks
  <2>4. StagesOK'
    BY <1>2, <1>3, <2>1, <2>3 DEF Stages, Starting, NwkStarting, NwkDown, MacStopping
  <2>. QED BY <1>1, <1>11, <2>4 DEF ClearTxDoneCb
<1>12. CASE JoinMaint(t)
  <2>1. /\ pc[t] = "joinMaint" /\ pc'[t] = "macStop" /\ pc'[Maint] = "none" /\ pc'[Rx] = pc[Rx]
        /\ \A u \in App : u # t => pc'[u] = pc[u]
    BY <1>1, <1>12 DEF JoinMaint
  <2>2. StageOK("joinMaint")
    BY <1>2, <2>1 DEF Stages, NwkDown
  <2>3. StageOK("macStop")'
    BY <1>1, <1>12, <2>1, <2>2
       DEF JoinMaint, StageOK, RunningAt, HandlersAt, ThreadsAt, Starting, NwkStarting, NwkDown, Up
  <2>4. StagesOK'
    BY <1>2, <1>3, <2>1, <2>3 DEF Stages, NwkDown
  <2>. QED BY <1>1, <1>12, <2>4 DEF JoinMaint
<1>13. CASE MacStop(t)
  <2>1. pc[t] = "macStop" /\ \A u \in Threads : u # t => pc'[u] = pc[u]
    BY <1>1, <1>13 DEF MacStop
  <2>2. StageOK("macStop")
    BY <1>2, <2>1 DEF Stages
  <2>3. running["mac"]
    BY <2>2 DEF StageOK, RunningAt
  <2>4. pc'[t] = "clearRawCb" /\ StageOK("clearRawCb")'
    BY <1>1, <1>13, <2>1, <2>2, <2>3
       DEF MacStop, StageOK, RunningAt, HandlersAt, ThreadsAt, Starting, NwkStarting, NwkDown, Up, Layer
  <2>5. StagesOK'
    BY <1>2, <1>3, <2>1, <2>4 DEF Stages, MacStopping
  <2>. QED BY <1>1, <1>13, <2>5 DEF MacStop
<1>14. CASE ClearRawCb(t)
  <2>1. pc[t] = "clearRawCb" /\ pc'[t] = "clearEventCb" /\ \A u \in Threads : u # t => pc'[u] = pc[u]
    BY <1>1, <1>14 DEF ClearRawCb
  <2>2. StageOK("clearRawCb")
    BY <1>2, <2>1 DEF Stages, Starting, NwkStarting, NwkDown, MacStopping
  <2>3. StageOK("clearEventCb")'
    BY <1>1, <1>14, <2>1, <2>2
       DEF ClearRawCb, StageOK, RunningAt, HandlersAt, ThreadsAt, Starting, NwkStarting, NwkDown, Up, Layer, Callbacks
  <2>4. StagesOK'
    BY <1>2, <1>3, <2>1, <2>3 DEF Stages, Starting, NwkStarting, NwkDown, MacStopping
  <2>. QED BY <1>1, <1>14, <2>4 DEF ClearRawCb
<1>15. CASE ClearEventCb(t)
  <2>1. pc[t] = "clearEventCb" /\ pc'[t] = "spinelStop" /\ \A u \in Threads : u # t => pc'[u] = pc[u]
    BY <1>1, <1>15 DEF ClearEventCb
  <2>2. StageOK("clearEventCb")
    BY <1>2, <2>1 DEF Stages, Starting, NwkStarting, NwkDown, MacStopping
  <2>3. StageOK("spinelStop")'
    BY <1>1, <1>15, <2>1, <2>2
       DEF ClearEventCb, StageOK, RunningAt, HandlersAt, ThreadsAt, Starting, NwkStarting, NwkDown, Up, Layer, Callbacks
  <2>4. StagesOK'
    BY <1>2, <1>3, <2>1, <2>3 DEF Stages, Starting, NwkStarting, NwkDown, MacStopping
  <2>. QED BY <1>1, <1>15, <2>4 DEF ClearEventCb
<1>16. CASE SpinelStop(t)
  <2>1. pc[t] = "spinelStop" /\ pc'[t] = "joinRx" /\ \A u \in Threads : u # t => pc'[u] = pc[u]
    BY <1>1, <1>16 DEF SpinelStop
  <2>2. StageOK("spinelStop")
    BY <1>2, <2>1 DEF Stages, Starting, NwkStarting, NwkDown, MacStopping
  <2>3. StageOK("joinRx")'
    BY <1>1, <1>16, <2>1, <2>2
       DEF SpinelStop, StageOK, RunningAt, HandlersAt, ThreadsAt, Starting, NwkStarting, NwkDown, Up, Layer, Callbacks
  <2>4. StagesOK'
    BY <1>2, <1>3, <2>1, <2>3 DEF Stages, Starting, NwkStarting, NwkDown, MacStopping
  <2>. QED BY <1>1, <1>16, <2>4 DEF SpinelStop
<1>17. CASE JoinRx(t)
  <2>1. pc[t] = "joinRx" /\ StageOK("joinRx") /\ Within(t)
    BY <1>2, <1>17 DEF JoinRx, Stages, MacStopping
  <2>2. pc' = [pc EXCEPT ![t] = "idle", ![Rx] = "none"] /\ UNCHANGED <<running, handler, fault>>
    BY <1>17 DEF JoinRx
  <2>3. StageOK("down")'
    BY <1>1, <2>1, <2>2
       DEF StageOK, RunningAt, HandlersAt, ThreadsAt, Starting, NwkStarting, NwkDown, Up
  <2>4. StagesOK'
    BY <1>1, <2>1, <2>2, <2>3, StageEnds DEF LifeInv
  <2>. QED BY <1>1, <2>2, <2>4
<1>. QED
  BY <1>7, <1>8, <1>9, <1>10, <1>11, <1>12, <1>13, <1>14, <1>15, <1>16, <1>17 DEF StopStep

-----------------------------------------------------------------------------
(* The steps of the other threads, and those of a send.                    *)

(* What LifeInv adds to LockInv.                                           *)
LifeOK == StagesOK /\ SendersOK /\ ClearedHandlersAreLeft

(* A step that only takes thread t from a place outside start and stop to  *)
(* another keeps it, if the new place is one t may be at.                  *)
LEMMA PlaceKeeps ==
  ASSUME LifeInv, NEW t \in Threads, NEW l,
         UNCHANGED <<running, handler, hasAddr>>, pc' = [pc EXCEPT ![t] = l],
         pc[t] \notin Stages \cup {"none"}, l \notin Stages \cup {"none"},
         l = "ended" => t \in App \/ (t = Rx /\ ~running["spinel"]) \/ (t = Maint /\ ~running["nwk"]),
         l \in {"nwkDiscover", "macLock"} => hasAddr /\ running["nwk"],
         t = Rx /\ l \in UnderMac \ {"txDone"} =>
           pc[t] \in UnderMac \ {"txDone"} \/ handler["frame"],
         t = Rx /\ l = "txDone" => handler["txDone"]
  PROVE  LifeOK'
<1>. USE ThreadsAreDistinct
<1>1. /\ pc \in [Threads -> Label] /\ Rx # Maint
      /\ pc'[t] = l /\ \A u \in Threads : u # t => pc'[u] = pc[u]
  BY DEF LifeInv, LockInv, PcOK, Rx, Maint
<1>2. StagesOK'
  <2>1. \A u \in App : pc'[u] = pc[u] \/ (pc[u] \notin Stages /\ pc'[u] \notin Stages)
    BY <1>1
  <2>2. /\ pc'[Maint] = "none" <=> pc[Maint] = "none"
        /\ pc'[Maint] = "ended" => pc[Maint] = "ended" \/ ~running["nwk"]
    BY <1>1
  <2>3. /\ pc'[Rx] = "none" <=> pc[Rx] = "none"
        /\ pc'[Rx] = "ended" => pc[Rx] = "ended" \/ ~running["spinel"]
    BY <1>1
  <2>. QED BY <2>1, <2>2, <2>3, StageStays DEF LifeInv
<1>3. SendersOK'
  BY <1>1 DEF LifeInv, SendersOK
<1>4. ClearedHandlersAreLeft'
  BY <1>1 DEF LifeInv, ClearedHandlersAreLeft
<1>. QED BY <1>2, <1>3, <1>4 DEF LifeOK

LEMMA SendLives ==
  ASSUME LifeInv, NEW t \in Threads, SendStep(t)
  PROVE  LifeOK' /\ fault' = fault
<1>. USE DEF Goto, shared, Acquire
<1>1. pc \in [Threads -> Label]
  BY DEF LifeInv, LockInv, PcOK
<1>2. pc[t] \in SendPath \cup {"repairDiscover", "repairMark"} =>
        IF t = Rx THEN ret[t] = "rxMacUnlock" ELSE ret[t] \in {"idle", "apsUnlock", "mtPrune"}
  BY ThreadsAreDistinct DEF LifeInv, LockInv, LocalOK, ReturnOK, Rx, Maint
<1>. DEFINE OfRepair == {"repairDiscover", "repairMark"}
            Places == {"apsSend", "apsUnlock"} \cup OfRepair \cup SendPath
<1>3. \A l \in Places \cup {"idle", "mtPrune", "rxMacUnlock"} : l \notin Stages \cup {"none", "ended", "txDone"}
  BY DEF SendPath, Stages, Starting, NwkStarting, NwkDown, MacStopping
<1>4. t = Rx => \A l \in Places \cup {"rxMacUnlock"} : l \notin OfRepair => l \in UnderMac \ {"txDone"}
  BY DEF UnderMac, SendPath
<1>5. pc[Rx] \notin OfRepair
  BY DEF LifeInv, LockInv, PcOK, RxLabel, SendPath
<1>6. ASSUME NEW l \in Places \cup {"idle", "mtPrune", "rxMacUnlock"}, pc' = [pc EXCEPT ![t] = l],
             pc[t] \in Places, UNCHANGED <<running, handler, hasAddr>>,
             l \in {"nwkDiscover", "macLock"} => MayTransmit
      PROVE  LifeOK'
  <2>1. pc[t] \notin Stages \cup {"none"} /\ l \notin Stages \cup {"none"} /\ l # "ended" /\ l # "txDone"
    BY <1>3, <1>6
  <2>2. t = Rx => pc[t] \in UnderMac \ {"txDone"}
    BY <1>4, <1>5, <1>6
  <2>. QED BY <1>6, <2>1, <2>2, PlaceKeeps DEF MayTransmit
<1>. HIDE DEF LifeInv
<1>7. ASSUME SendRefused(t) \/ DiscoveryPending(t) \/ SendFrame(t)
      PROVE  LifeOK' /\ fault' = fault
  <2>1. /\ pc[t] \in Places /\ pc' = [pc EXCEPT ![t] = ret[t]]
        /\ pc[t] \in SendPath \cup {"repairDiscover", "repairMark"}
        /\ UNCHANGED <<running, handler, hasAddr, fault>>
    BY <1>7 DEF SendRefused, DiscoveryPending, SendFrame, AtNwkLock, Discovers, SendPath
  <2>2. ret[t] \in {"idle", "apsUnlock", "mtPrune", "rxMacUnlock"}
    BY <1>2, <2>1
  <2>. QED BY <1>6, <2>1, <2>2
<1>8. ASSUME SendRouted(t) \/ SendUnrouted(t)
      PROVE  LifeOK' /\ fault' = fault
  <2>1. /\ pc[t] \in Places /\ UNCHANGED <<running, handler, hasAddr, fault>> /\ MayTransmit
        /\ pc' = [pc EXCEPT ![t] = "macLock"] \/ pc' = [pc EXCEPT ![t] = "nwkDiscover"]
    BY <1>8 DEF SendRouted, SendUnrouted, AtNwkLock, SendPath
  <2>2. "macLock" \in Places /\ "nwkDiscover" \in Places
    BY DEF SendPath
  <2>. QED BY <1>6, <2>1, <2>2
<1>9. ASSUME DiscoveryStarts(t) \/ DiscoveryMarks(t)
      PROVE  LifeOK' /\ fault' = fault
  <2>1. /\ pc[t] \in Places /\ UNCHANGED <<running, handler, hasAddr, fault>>
        /\ \E l \in {"nwkMark", "repairMark", "nwkRelock", "nwkLock"} : pc' = [pc EXCEPT ![t] = l]
    BY <1>9 DEF DiscoveryStarts, DiscoveryMarks, Discovers, SendPath, locals
  <2>2. {"nwkMark", "repairMark", "nwkRelock", "nwkLock"} \subseteq Places
    BY DEF SendPath
  <2>. QED BY <1>6, <2>1, <2>2
<1>10. ASSUME ApsSend(t) \/ ApsUnlock(t)
       PROVE  LifeOK' /\ fault' = fault
  <2>1. /\ pc[t] \in Places /\ UNCHANGED <<running, handler, hasAddr, fault>>
        /\ \E l \in {"nwkLock", "apsUnlock", "rxMacUnlock", "idle"} : pc' = [pc EXCEPT ![t] = l]
    BY <1>10 DEF ApsSend, ApsUnlock, locals
  <2>2. {"nwkLock", "apsUnlock", "rxMacUnlock", "idle"} \subseteq Places \cup {"idle", "mtPrune", "rxMacUnlock"}
    BY DEF SendPath
  <2>. QED BY <1>6, <2>1, <2>2
<1>. QED BY <1>7, <1>8, <1>9, <1>10 DEF SendStep

(* The stack is at some stage, and if not at rest a thread is there.       *)
LEMMA SomeStage ==
  ASSUME LifeInv
  PROVE  \E s \in Stages \cup {"up", "down"} :
           StageOK(s) /\ (s \in Stages => \E t \in App : pc[t] = s)
<1>1. CASE \E t \in App : Within(t)
  <2>1. PICK t \in App : Within(t)
    BY <1>1
  <2>2. pc[t] \in Stages /\ StageOK(pc[t])
    BY <2>1, WithinIsAStage, ThreadsAreDistinct DEF LifeInv, StagesOK
  <2>. QED BY <2>2
<1>2. CASE \A t \in App : ~Within(t)
  <2>1. StageOK("up") \/ StageOK("down")
    BY <1>2 DEF LifeInv, StagesOK
  <2>2. "up" \notin Stages /\ "down" \notin Stages
    BY DEF Stages, Starting, NwkStarting, NwkDown, MacStopping
  <2>. QED BY <2>1, <2>2
<1>. QED BY <1>1, <1>2

(* Where the rx thread can be about to call an empty callback. *)
LEMMA EmptyCallback ==
  ASSUME LifeInv
  PROVE  /\ pc[Rx] = "nwkCbCall" /\ ~handler["nwk"] =>
              \E t \in App : pc[t] \in {"nwkStop", "clearFrameCb"}
         /\ pc[Rx] = "rawCall" /\ ~handler["raw"] =>
              \E t \in App : pc[t] \in {"clearEventCb", "spinelStop", "joinRx"}
         /\ pc[Rx] = "eventCall" /\ ~handler["event"] =>
              \E t \in App : pc[t] \in {"spinelStop", "joinRx"}
<1>1. PICK s \in Stages \cup {"up", "down"} :
        StageOK(s) /\ (s \in Stages => \E t \in App : pc[t] = s)
  BY SomeStage
<1>2. pc[Rx] # "none" => s \notin Starting \cup {"down"}
  BY <1>1 DEF StageOK, ThreadsAt
<1>3. ASSUME pc[Rx] = "nwkCbCall", ~handler["nwk"]
      PROVE  \E t \in App : pc[t] \in {"nwkStop", "clearFrameCb"}
  <2>1. handler["frame"]
    BY <1>3 DEF LifeInv, ClearedHandlersAreLeft, UnderMac
  <2>2. s \in {"nwkStop", "clearFrameCb"}
    BY <1>1, <1>2, <1>3, <2>1 DEF StageOK, HandlersAt, Up, Starting
  <2>. QED BY <1>1, <2>2 DEF Stages, NwkDown
<1>4. ASSUME pc[Rx] = "rawCall", ~handler["raw"]
      PROVE  \E t \in App : pc[t] \in {"clearEventCb", "spinelStop", "joinRx"}
  <2>1. s \in {"clearEventCb", "spinelStop", "joinRx"}
    BY <1>1, <1>2, <1>4 DEF StageOK, HandlersAt, Up, NwkDown, Stages, MacStopping
  <2>. QED BY <1>1, <2>1 DEF Stages, MacStopping
<1>5. ASSUME pc[Rx] = "eventCall", ~handler["event"]
      PROVE  \E t \in App : pc[t] \in {"spinelStop", "joinRx"}
  <2>1. s \in {"spinelStop", "joinRx"}
    BY <1>1, <1>2, <1>5 DEF StageOK, HandlersAt, Up, NwkDown, Stages, MacStopping
  <2>. QED BY <1>1, <2>1 DEF Stages, MacStopping
<1>. QED BY <1>3, <1>4, <1>5

(* What a step may do to the fault. *)
FaultOK == fault # "threadOverwritten" /\ NullCallsNeedStop

LEMMA NoFault == ASSUME LifeInv, Alive, fault' = fault PROVE FaultOK'
BY DEF Alive, FaultOK, NullCallsNeedStop

LEMMA RxLives ==
  ASSUME LifeInv, Alive, RxStep
  PROVE  LifeOK' /\ FaultOK'
<1>. USE ThreadsAreDistinct
<1>. USE DEF Goto, shared, UnderLock, RxHandles, RxSends, locals
<1>1. pc \in [Threads -> Label] /\ \A t \in App : t # Rx
  BY DEF LifeInv, LockInv, PcOK
<1>. DEFINE Within1 == {"rxHandle", "rxRepair", "nwkCbCall", "rxApsLock", "rxMacUnlock", "apsSend", "nwkLock"}
            Outside == {"rxRead", "rxDone", "rawCall", "rxAssoc", "rxMacLock", "eventCall", "eventMacLock",
                        "rxLoop", "rawCheck", "eventCheck"}
<1>2. Within1 \subseteq UnderMac \ {"txDone"}
  BY DEF UnderMac, SendPath
<1>3. \A l \in Within1 \cup Outside \cup {"txDone", "ended"} : l \notin Stages \cup {"none", "nwkDiscover", "macLock"}
  BY DEF Stages, Starting, NwkStarting, NwkDown, MacStopping
<1>4. ASSUME NEW l \in Within1, pc' = [pc EXCEPT ![Rx] = l], pc[Rx] \in Within1,
             UNCHANGED <<running, handler, hasAddr>>
      PROVE  LifeOK'
  <2>1. l \in UnderMac \ {"txDone"} /\ pc[Rx] \in UnderMac \ {"txDone"}
    BY <1>2, <1>4
  <2>2. l # "ended"
    BY <1>4
  <2>3. pc[Rx] \notin Stages \cup {"none"} /\ l \notin Stages \cup {"none", "nwkDiscover", "macLock"}
    BY <1>3, <1>4
  <2>. QED BY <1>4, <2>1, <2>2, <2>3, PlaceKeeps
<1>5. ASSUME NEW l \in Outside, pc' = [pc EXCEPT ![Rx] = l],
             pc[Rx] \in Within1 \cup Outside \cup {"txDone"}, UNCHANGED <<running, handler, hasAddr>>
      PROVE  LifeOK'
  <2>1. l \notin UnderMac
    BY <1>5 DEF UnderMac, SendPath
  <2>2. l # "ended" /\ l # "txDone"
    BY <1>5
  <2>3. pc[Rx] \notin Stages \cup {"none"} /\ l \notin Stages \cup {"none", "nwkDiscover", "macLock"}
    BY <1>3, <1>5
  <2>. QED BY <1>5, <2>1, <2>2, <2>3, PlaceKeeps
<1>6. CASE SendStep(Rx)
  BY <1>6, SendLives, NoFault
<1>7. CASE RxLoop
  <2>1. pc[Rx] = "rxLoop" /\ UNCHANGED <<running, handler, hasAddr, fault>>
    BY <1>7 DEF RxLoop
  <2>2. CASE running["spinel"]
    BY <1>5, <1>7, <2>1, <2>2, NoFault DEF RxLoop
  <2>3. CASE ~running["spinel"]
    <3>1. pc' = [pc EXCEPT ![Rx] = "ended"]
      BY <1>7, <2>3 DEF RxLoop
    <3>2. "ended" \notin UnderMac /\ pc[Rx] \notin Stages \cup {"none"}
      BY <1>3, <2>1 DEF UnderMac, SendPath
    <3>. QED BY <1>3, <2>1, <2>3, <3>1, <3>2, NoFault, PlaceKeeps
  <2>. QED BY <2>2, <2>3
<1>8. CASE RawCheck \/ EventCheck
  <2>1. /\ pc[Rx] \in Outside /\ \E l \in Outside : pc' = [pc EXCEPT ![Rx] = l]
        /\ UNCHANGED <<running, handler, hasAddr, fault>>
    BY <1>8 DEF RawCheck, EventCheck
  <2>. QED BY <1>5, <2>1, NoFault
<1>9. CASE RawCall
  <2>1. /\ pc[Rx] = "rawCall" /\ \E l \in {"rxAssoc", "rxMacLock"} : pc' = [pc EXCEPT ![Rx] = l]
        /\ UNCHANGED <<running, handler, hasAddr>>
        /\ fault' = IF handler["raw"] THEN fault ELSE "nullCallback"
    BY <1>9 DEF RawCall
  <2>2. LifeOK'
    BY <1>5, <2>1
  <2>3. pc'[Rx] # "rxApsLock" /\ \A t \in App : pc'[t] = pc[t]
    BY <1>1, <2>1
  <2>4. CASE handler["raw"]
    BY <2>1, <2>2, <2>4, NoFault
  <2>5. CASE ~handler["raw"]
    BY <2>1, <2>2, <2>3, <2>5, EmptyCallback DEF FaultOK, NullCallsNeedStop
  <2>. QED BY <2>4, <2>5
<1>10. CASE EventCall
  <2>1. /\ pc[Rx] = "eventCall" /\ pc' = [pc EXCEPT ![Rx] = "eventMacLock"]
        /\ UNCHANGED <<running, handler, hasAddr>>
        /\ fault' = IF handler["event"] THEN fault ELSE "nullCallback"
    BY <1>10 DEF EventCall
  <2>2. LifeOK'
    BY <1>5, <2>1
  <2>3. pc'[Rx] # "rxApsLock" /\ \A t \in App : pc'[t] = pc[t]
    BY <1>1, <2>1
  <2>4. CASE handler["event"]
    BY <2>1, <2>2, <2>4, NoFault
  <2>5. CASE ~handler["event"]
    BY <2>1, <2>2, <2>3, <2>5, EmptyCallback DEF FaultOK, NullCallsNeedStop
  <2>. QED BY <2>4, <2>5
<1>11. CASE NwkCbCall
  <2>1. /\ pc[Rx] = "nwkCbCall" /\ pc' = [pc EXCEPT ![Rx] = "rxApsLock"]
        /\ UNCHANGED <<running, handler, hasAddr>>
        /\ fault' = IF handler["nwk"] THEN fault ELSE "nullCallback"
    BY <1>11 DEF NwkCbCall
  <2>2. LifeOK'
    BY <1>4, <2>1
  <2>3. pc'[Rx] = "rxApsLock" /\ \A t \in App : pc'[t] = pc[t]
    BY <1>1, <2>1
  <2>4. CASE handler["nwk"]
    BY <2>1, <2>2, <2>4, NoFault
  <2>5. CASE ~handler["nwk"]
    BY <2>1, <2>2, <2>3, <2>5, EmptyCallback DEF FaultOK, NullCallsNeedStop
  <2>. QED BY <2>4, <2>5
<1>12. CASE RxAssoc \/ RxMacUnlock \/ TxDone
  <2>1. /\ pc[Rx] \in Outside \cup Within1 \cup {"txDone"} /\ pc' = [pc EXCEPT ![Rx] = "rxDone"]
        /\ UNCHANGED <<running, handler, hasAddr, fault>>
    BY <1>12 DEF RxAssoc, RxMacUnlock, TxDone
  <2>. QED BY <1>5, <2>1, NoFault
<1>13. CASE RxMacLock
  <2>1. pc[Rx] = "rxMacLock" /\ UNCHANGED <<running, handler, hasAddr, fault>>
    BY <1>13 DEF RxMacLock
  <2>2. CASE handler["frame"]
    <3>1. pc' = [pc EXCEPT ![Rx] = "rxHandle"]
      BY <1>13, <2>2 DEF RxMacLock
    <3>2. "rxHandle" \notin Stages \cup {"none"} /\ pc[Rx] \notin Stages \cup {"none"}
      BY <1>3, <2>1
    <3>. QED BY <2>1, <2>2, <3>1, <3>2, NoFault, PlaceKeeps
  <2>3. CASE ~handler["frame"]
    BY <1>5, <1>13, <2>1, <2>3, NoFault DEF RxMacLock
  <2>. QED BY <2>2, <2>3
<1>14. CASE EventMacLock
  <2>1. pc[Rx] = "eventMacLock" /\ UNCHANGED <<running, handler, hasAddr, fault>>
    BY <1>14 DEF EventMacLock
  <2>2. CASE frame.kind = "txStatus" /\ handler["txDone"]
    <3>1. pc' = [pc EXCEPT ![Rx] = "txDone"]
      BY <1>14, <2>2 DEF EventMacLock
    <3>2. "txDone" \notin Stages \cup {"none"} /\ pc[Rx] \notin Stages \cup {"none"}
      BY <1>3, <2>1
    <3>. QED BY <2>1, <2>2, <3>1, <3>2, NoFault, PlaceKeeps
  <2>3. CASE ~(frame.kind = "txStatus" /\ handler["txDone"])
    BY <1>5, <1>14, <2>1, <2>3, NoFault DEF EventMacLock
  <2>. QED BY <2>2, <2>3
<1>15. CASE RxHandler \/ RxRepair \/ RxApsLock
  <2>1. /\ pc[Rx] \in Within1 /\ UNCHANGED <<running, handler, hasAddr, fault>>
        /\ \E l \in Within1 : pc' = [pc EXCEPT ![Rx] = l]
    <3>1. CASE RxDrop \/ RxLearn \/ RxRelay
      BY <3>1 DEF RxDrop, RxLearn, RxRelay
    <3>2. CASE RxRouteError
      BY <3>2 DEF RxRouteError
    <3>3. CASE RxForwards \/ RxNoRoute
      BY <3>3 DEF RxForwards, RxNoRoute
    <3>4. CASE RxDeliver \/ RxRepair
      BY <3>4 DEF RxDeliver, RxRepair
    <3>5. CASE RxApsLock
      BY <3>5 DEF RxApsLock
    <3>. QED BY <1>15, <3>1, <3>2, <3>3, <3>4, <3>5 DEF RxHandler
  <2>. QED BY <1>4, <2>1, NoFault
<1>. QED
  BY <1>6, <1>7, <1>8, <1>9, <1>10, <1>11, <1>12, <1>13, <1>14, <1>15 DEF RxStep

LEMMA ReadsLive ==
  ASSUME LifeInv, Alive, RxReads
  PROVE  LifeOK' /\ FaultOK'
<1>1. /\ pc[Rx] \in {"rxRead", "rxDone"} /\ UNCHANGED <<running, handler, hasAddr, fault>>
      /\ \E l \in {"rawCheck", "eventCheck", "rxLoop"} : pc' = [pc EXCEPT ![Rx] = l]
  BY DEF RxReads, RxFrame, RxNoFrame, RxBufferEmpty, Goto, shared
<1>2. {"rxRead", "rxDone", "rawCheck", "eventCheck", "rxLoop"} \cap
        (Stages \cup UnderMac \cup {"none", "ended", "nwkDiscover", "macLock"}) = {}
  BY DEF Stages, Starting, NwkStarting, NwkDown, MacStopping, UnderMac, SendPath
<1>3. LifeOK'
  BY <1>1, <1>2, PlaceKeeps, ThreadsAreDistinct
<1>. QED BY <1>1, <1>3, NoFault

LEMMA MaintLives ==
  ASSUME LifeInv, Alive, MaintStep
  PROVE  LifeOK' /\ FaultOK'
<1>1. CASE SendStep(Maint)
  BY <1>1, SendLives, NoFault, ThreadsAreDistinct
<1>2. CASE MaintLoop \/ MaintWake \/ MaintPrune
  <2>1. /\ pc[Maint] \in {"mtLoop", "mtSleep", "mtPrune"} /\ UNCHANGED <<running, handler, hasAddr, fault>>
        /\ \E l \in {"mtSleep", "nwkLock", "mtLoop", "ended"} :
             pc' = [pc EXCEPT ![Maint] = l] /\ (l = "ended" => ~running["nwk"])
    BY <1>2 DEF MaintLoop, MaintWake, MaintPrune, Goto, shared
  <2>2. {"mtLoop", "mtSleep", "mtPrune", "nwkLock", "ended"} \cap (Stages \cup {"none", "nwkDiscover", "macLock"}) = {}
    BY DEF Stages, Starting, NwkStarting, NwkDown, MacStopping
  <2>3. LifeOK'
    BY <2>1, <2>2, PlaceKeeps, ThreadsAreDistinct DEF Rx, Maint
  <2>. QED BY <2>1, <2>3, NoFault
<1>. QED BY <1>1, <1>2 DEF MaintStep

LEMMA StartLives ==
  ASSUME LifeInv, Alive, NEW t \in App, StartStep(t)
  PROVE  LifeOK' /\ FaultOK'
<1>. USE ThreadsAreDistinct
<1>1. StagesOK' /\ fault' # "threadOverwritten"
  BY StartStages
<1>2. /\ pc \in [Threads -> Label] /\ running \in [Layer -> BOOLEAN]
      /\ handler \in [Callbacks -> BOOLEAN] /\ t # Rx /\ t # Maint
  BY DEF LifeInv, LockInv, PcOK, DataOK
<1>. DEFINE After == StartPath \cup {"idle"}
<1>3. /\ \A u \in Threads : pc'[u] = pc[u] \/ pc'[u] \in After \cup {"mtLoop", "rxLoop"}
      /\ hasAddr' = hasAddr /\ (running["nwk"] => running'["nwk"])
      /\ \A c \in Callbacks : handler[c] => handler'[c]
      /\ fault' \in {fault, "threadOverwritten"}
  <2>. USE <1>2 DEF Goto, UnderLock, SetHandlers, shared, StartPath, Layer
  <2>1. CASE ZdoStart(t)
    BY <2>1 DEF ZdoStart
  <2>2. CASE ApsStart(t) \/ NwkStart(t)
    BY <2>2 DEF ApsStart, NwkStart
  <2>3. CASE SetNwkCb(t)
    BY <2>3 DEF SetNwkCb
  <2>4. CASE SetFrameCb(t)
    BY <2>4 DEF SetFrameCb
  <2>5. CASE SetTxDoneCb(t)
    BY <2>5 DEF SetTxDoneCb
  <2>6. CASE SpawnMaint(t)
    BY <2>6 DEF SpawnMaint
  <2>7. CASE MacStart(t)
    BY <2>7 DEF MacStart
  <2>. QED BY <2>1, <2>2, <2>3, <2>4, <2>5, <2>6, <2>7 DEF StartStep
<1>4. \A l \in After \cup {"mtLoop", "rxLoop"} : l \notin {"nwkDiscover", "macLock"} \cup UnderMac
  BY DEF StartPath, UnderMac, SendPath
<1>5. SendersOK'
  <2>1. \A u \in Threads : pc'[u] \in {"nwkDiscover", "macLock"} => pc'[u] = pc[u]
    BY <1>3, <1>4
  <2>. QED BY <1>3, <2>1 DEF LifeInv, SendersOK
<1>6. ClearedHandlersAreLeft'
  <2>1. pc'[Rx] = pc[Rx] \/ pc'[Rx] \notin UnderMac
    BY <1>3, <1>4
  <2>2. /\ ~handler'["frame"] => ~handler["frame"]
        /\ ~handler'["txDone"] => ~handler["txDone"]
    BY <1>3 DEF Callbacks
  <2>3. "txDone" \in UnderMac
    BY DEF UnderMac
  <2>. QED BY <2>1, <2>2, <2>3 DEF LifeInv, ClearedHandlersAreLeft
<1>. QED BY <1>1, <1>3, <1>5, <1>6, NoFault DEF LifeOK

LEMMA StopLives ==
  ASSUME LifeInv, Alive, NEW t \in App, StopStep(t)
  PROVE  LifeOK' /\ FaultOK'
<1>. USE ThreadsAreDistinct
<1>1. StagesOK'
  BY StopStages
<1>2. /\ pc \in [Threads -> Label] /\ running \in [Layer -> BOOLEAN]
      /\ handler \in [Callbacks -> BOOLEAN] /\ t # Rx /\ t # Maint
  BY DEF LifeInv, LockInv, PcOK, DataOK
<1>. DEFINE After == StopPath \cup {"idle"}
<1>3. /\ \A u \in Threads : pc'[u] = pc[u] \/ pc'[u] \in After \cup {"none"}
      /\ hasAddr' = hasAddr /\ fault' = fault
      /\ running["nwk"] => running'["nwk"] \/ Free("nwk")
      /\ handler["frame"] => handler'["frame"] \/ Free("mac")
      /\ handler["txDone"] => handler'["txDone"] \/ Free("mac")
  <2>. USE <1>2 DEF Goto, UnderLock, SetHandlers, shared, StopPath, Layer, Callbacks
  <2>1. CASE ApsStop(t) \/ NwkStop(t) \/ MacStop(t)
    BY <2>1 DEF ApsStop, NwkStop, MacStop
  <2>2. CASE ClearNwkCb(t)
    BY <2>2 DEF ClearNwkCb
  <2>3. CASE ClearFrameCb(t)
    BY <2>3 DEF ClearFrameCb
  <2>4. CASE ClearTxDoneCb(t)
    BY <2>4 DEF ClearTxDoneCb
  <2>5. CASE JoinMaint(t) \/ JoinRx(t)
    BY <2>5 DEF JoinMaint, JoinRx
  <2>6. CASE ClearRawCb(t) \/ ClearEventCb(t)
    BY <2>6, ZenonT(20) DEF ClearRawCb, ClearEventCb
  <2>7. CASE SpinelStop(t)
    BY <2>7 DEF SpinelStop
  <2>. QED BY <2>1, <2>2, <2>3, <2>4, <2>5, <2>6, <2>7 DEF StopStep
<1>4. \A l \in After \cup {"none"} : l \notin {"nwkDiscover", "macLock"} \cup UnderMac
  BY DEF StopPath, UnderMac, SendPath
<1>5. /\ Free("nwk") => \A u \in Threads : pc[u] \notin {"nwkDiscover", "macLock"}
      /\ Free("mac") => pc[Rx] \notin UnderMac
  BY DEF LifeInv, LockInv, MutexOK, HoldsNwk, HoldsMac, Free
<1>6. SendersOK'
  <2>1. \A u \in Threads : pc'[u] \in {"nwkDiscover", "macLock"} => pc'[u] = pc[u]
    BY <1>3, <1>4
  <2>. QED BY <1>3, <1>5, <2>1 DEF LifeInv, SendersOK
<1>7. ClearedHandlersAreLeft'
  <2>1. pc'[Rx] = pc[Rx] \/ pc'[Rx] \notin UnderMac
    BY <1>3, <1>4
  <2>2. "txDone" \in UnderMac
    BY DEF UnderMac
  <2>. QED BY <1>3, <1>5, <2>1, <2>2 DEF LifeInv, ClearedHandlersAreLeft
<1>. QED BY <1>1, <1>3, <1>6, <1>7, NoFault DEF LifeOK

LEMMA AppLives ==
  ASSUME LifeInv, Alive, NEW t \in App, AppStep(t)
  PROVE  LifeOK' /\ FaultOK'
<1>1. CASE Repair(t) \/ MacConfig(t) \/ MacAssoc(t)
  <2>1. /\ pc[t] \in {"repair", "macConfig", "macAssoc"} /\ UNCHANGED <<running, handler, hasAddr, fault>>
        /\ \E l \in {"idle", "repairDiscover"} : pc' = [pc EXCEPT ![t] = l]
    BY <1>1 DEF Repair, MacConfig, MacAssoc, Goto, UnderLock, shared
  <2>2. {"repair", "macConfig", "macAssoc", "idle", "repairDiscover"}
          \cap (Stages \cup {"none", "ended", "nwkDiscover", "macLock"}) = {}
    BY DEF Stages, Starting, NwkStarting, NwkDown, MacStopping
  <2>3. LifeOK'
    BY <2>1, <2>2, PlaceKeeps, ThreadsAreDistinct
  <2>. QED BY <2>1, <2>3, NoFault
<1>2. CASE SendStep(t)
  BY <1>2, SendLives, NoFault, ThreadsAreDistinct
<1>. QED BY <1>1, <1>2, StartLives, StopLives DEF AppStep

LEMMA CallLives ==
  ASSUME LifeInv, Alive, AppCalls
  PROVE  LifeOK' /\ FaultOK'
<1>1. PICK t \in App, k \in Calls, d \in Addr \cup {Broadcast} : Call(t, k, d)
  BY DEF AppCalls
<1>. DEFINE Entries == {"zdoStart", "apsStop", "apsSend", "nwkLock", "repair", "macConfig", "macAssoc"}
<1>2. Entry(k) \in Entries
  BY ConstantsAssumption DEF Entry, CallKinds
<1>3. /\ pc[t] = "idle" /\ UNCHANGED <<running, handler, hasAddr, fault>>
      /\ pc' = [pc EXCEPT ![t] = Entry(k)]
  BY <1>1 DEF Call, Goto, shared
<1>4. (Entries \cup {"idle"}) \cap (Stages \cup {"none", "ended", "nwkDiscover", "macLock"}) = {}
  BY DEF Stages, Starting, NwkStarting, NwkDown, MacStopping
<1>5. LifeOK'
  <2>1. /\ Entry(k) \notin Stages \cup {"none", "ended", "nwkDiscover", "macLock"}
        /\ pc[t] \notin Stages \cup {"none"}
    BY <1>2, <1>3, <1>4
  <2>. QED BY <1>3, <2>1, PlaceKeeps, ThreadsAreDistinct
<1>. QED BY <1>3, <1>5, NoFault

-----------------------------------------------------------------------------
(* The invariant, and what follows from it.                                *)

LEMMA LifeInit == Init => LifeInv
<1>. SUFFICES ASSUME Init PROVE LifeInv
  OBVIOUS
<1>. USE ThreadsAreDistinct, ConstantsAssumption DEF Init
<1>1. /\ \A t \in App : pc[t] = "idle"
      /\ pc[Rx] = "none" /\ pc[Maint] = "none"
      /\ \A l \in Layer : ~running[l]
      /\ \A c \in Callbacks : ~handler[c]
  OBVIOUS
<1>2. \A t \in App : ~Within(t)
  BY <1>1 DEF Within, StartPath, StopPath
<1>3. StageOK("down")
  BY <1>1 DEF StageOK, RunningAt, HandlersAt, ThreadsAt, Layer, Callbacks, Starting, NwkStarting, Up, NwkDown
<1>4. SendersOK
  BY <1>1 DEF SendersOK, Threads
<1>5. ClearedHandlersAreLeft
  BY <1>1 DEF ClearedHandlersAreLeft, UnderMac, SendPath
<1>. QED BY <1>2, <1>3, <1>4, <1>5, LockInit DEF LifeInv, StagesOK, NullCallsNeedStop

LEMMA LifeStutters == ASSUME LifeInv, UNCHANGED vars PROVE LifeInv'
<1>1. LockInv'
  BY StutterKeeps DEF LifeInv
<1>2. StagesOK'
  BY DEF LifeInv, StagesOK, StageOK, RunningAt, HandlersAt, ThreadsAt, Within, vars
<1>3. SendersOK' /\ ClearedHandlersAreLeft' /\ NullCallsNeedStop' /\ fault' # "threadOverwritten"
  BY DEF LifeInv, SendersOK, ClearedHandlersAreLeft, NullCallsNeedStop, vars
<1>. QED BY <1>1, <1>2, <1>3 DEF LifeInv

LEMMA LifeStep == LifeInv /\ [Next]_vars => LifeInv'
<1>. SUFFICES ASSUME LifeInv, [Next]_vars PROVE LifeInv'
  OBVIOUS
<1>1. CASE UNCHANGED vars
  BY <1>1, LifeStutters
<1>2. CASE Next
  <2>1. LockInv'
    BY LockStep DEF LifeInv
  <2>2. LifeOK' /\ FaultOK'
    BY <1>2, AppLives, CallLives, ReadsLive, RxLives, MaintLives DEF Next
  <2>. QED BY <2>1, <2>2 DEF LifeInv, LifeOK, FaultOK
<1>. QED BY <1>1, <1>2

LEMMA LifeInvariant == Spec => []LifeInv
BY LifeInit, LifeStep, PTL DEF Spec

(* Unless a start or a stop is under way all layers agree, with every      *)
(* callback set and both threads alive, or none of them; and no start      *)
(* overwrites a thread that was not joined, however starts and stops of    *)
(* several threads overlap.                                                *)
THEOREM LayersAlwaysAgree == Spec => []LayersAgree
<1>1. ASSUME LifeInv PROVE LayersAgree
  <2>1. ASSUME \A t \in App : ~Within(t)
        PROVE  /\ \A l \in Layer : running[l] = running["aps"]
               /\ \A c \in Callbacks \ {"aps"} : handler[c] = running["aps"]
               /\ pc[Rx] \in {"none", "ended"} <=> ~running["aps"]
               /\ pc[Maint] \in {"none", "ended"} <=> ~running["aps"]
    <3>1. running \in [Layer -> BOOLEAN] /\ handler \in [Callbacks -> BOOLEAN]
      BY <1>1 DEF LifeInv, LockInv, DataOK
    <3>2. StageOK("up") \/ StageOK("down")
      BY <1>1, <2>1 DEF LifeInv, StagesOK
    <3>3. CASE StageOK("up")
      BY <3>1, <3>3 DEF StageOK, RunningAt, HandlersAt, ThreadsAt, Layer, Callbacks, Starting, NwkStarting, Up, NwkDown
    <3>4. CASE StageOK("down")
      BY <3>1, <3>4 DEF StageOK, RunningAt, HandlersAt, ThreadsAt, Layer, Callbacks, Starting, NwkStarting, Up, NwkDown
    <3>. QED BY <3>2, <3>3, <3>4
  <2>. QED BY <1>1, <2>1 DEF LayersAgree, LifeInv
<1>. QED BY <1>1, LifeInvariant, PTL

(* Once stop has cleared NWK's callbacks the rx thread is not inside NWK.  *)
THEOREM ClearedHandlersAreAlwaysLeft == Spec => []ClearedHandlersAreLeft
<1>1. LifeInv => ClearedHandlersAreLeft
  BY DEF LifeInv
<1>. QED BY <1>1, LifeInvariant, PTL

(* Whoever has passed the checks of sendNwkFrame writes to a stack that    *)
(* runs from NWK down, even if a stop began in between.                    *)
THEOREM TransmitsWhileRunning == Spec => []TransmitsOnlyWhileRunning
<1>1. ASSUME LifeInv PROVE TransmitsOnlyWhileRunning
  <2>1. ASSUME NEW t \in Threads, pc[t] \in {"nwkDiscover", "macLock"}
        PROVE  hasAddr /\ \A l \in Layer \ {"aps"} : running[l]
    <3>1. hasAddr /\ running["nwk"]
      BY <1>1, <2>1 DEF LifeInv, SendersOK
    <3>2. PICK s \in Stages \cup {"up", "down"} :
            StageOK(s) /\ (s \in Stages => \E u \in App : pc[u] = s)
      BY <1>1, SomeStage
    <3>3. owner["nwk"] = t
      BY <1>1, <2>1 DEF LifeInv, LockInv, MutexOK, HoldsNwk
    <3>4. s \notin NwkStarting
      <4>1. \A u \in App : pc[u] \in NwkStarting => owner["nwk"] = u
        BY <1>1, ThreadsAreDistinct DEF LifeInv, LockInv, MutexOK, HoldsNwk
      <4>2. pc[t] \notin NwkStarting
        BY <2>1 DEF NwkStarting
      <4>. QED BY <3>2, <3>3, <4>1, <4>2 DEF Stages, Starting
    <3>5. s \in Up
      BY <3>1, <3>2, <3>4 DEF StageOK, RunningAt
    <3>. QED BY <3>1, <3>2, <3>5 DEF StageOK, RunningAt, Layer
  <2>. QED BY <2>1 DEF TransmitsOnlyWhileRunning
<1>. QED BY <1>1, LifeInvariant, PTL

(* An empty callback is only ever called while a stop is clearing them.    *)
THEOREM EmptyCallbacksNeedStop == Spec => []NullCallsNeedStop
<1>1. LifeInv => NullCallsNeedStop
  BY DEF LifeInv
<1>. QED BY <1>1, LifeInvariant, PTL

-----------------------------------------------------------------------------
(* A stack that is only started, and that sends only broadcasts.           *)

LEMMA QuietInit == Init => QuietOK
<1>. SUFFICES ASSUME Init PROVE QuietOK
  OBVIOUS
<1>1. /\ \A t \in App : pc[t] = "idle" /\ ret[t] = "idle"
      /\ pc[Rx] = "none" /\ pc[Maint] = "none" /\ frame.kind = "none"
  BY ThreadsAreDistinct DEF Init, NoFrame
<1>2. \A t \in Threads : pc[t] # "nwkLock"
  BY <1>1 DEF Threads
<1>. QED BY <1>1, <1>2 DEF QuietOK, QuietApp, QuietSend, SendPath

LEMMA QuietCall ==
  ASSUME Quiet, QuietInv, AppCalls
  PROVE  QuietOK'
<1>. USE ThreadsAreDistinct
<1>1. PICK t \in App, k \in Calls, d \in Addr \cup {Broadcast} : Call(t, k, d)
  BY DEF AppCalls
<1>2. /\ pc \in [Threads -> Label] /\ ret \in [Threads -> Return]
      /\ dst \in [Threads -> Addr \cup {Broadcast}] /\ t # Rx /\ t # Maint
  BY DEF QuietInv, LifeInv, LockInv, PcOK, DataOK
<1>3. k \in QuietCalls /\ Entry(k) \in QuietApp /\ (Entry(k) = "nwkLock" => k = "manyToOne")
  BY DEF Quiet, QuietCalls, Entry, QuietApp, QuietSend, StartPath
<1>4. Entry(k) = "nwkLock" => d = Broadcast
  BY <1>1, <1>3, ConstantsAssumption DEF Call
<1>5. /\ pc' = [pc EXCEPT ![t] = Entry(k)] /\ dst' = [dst EXCEPT ![t] = d]
      /\ ret' = [ret EXCEPT ![t] = "idle"] /\ frame' = frame
  BY <1>1 DEF Call, Goto, shared
<1>. QED BY <1>2, <1>3, <1>4, <1>5 DEF QuietInv, QuietOK

LEMMA QuietStart ==
  ASSUME QuietInv, NEW t \in App, StartStep(t)
  PROVE  QuietOK'
<1>. USE ThreadsAreDistinct
<1>1. pc \in [Threads -> Label] /\ t # Rx /\ t # Maint /\ Rx # Maint
  BY DEF QuietInv, LifeInv, LockInv, PcOK, Rx, Maint
<1>2. /\ \A u \in App : pc'[u] = pc[u] \/ pc'[u] \in StartPath \cup {"idle"}
      /\ pc'[Rx] \in {pc[Rx], "rxLoop"} /\ pc'[Maint] \in {pc[Maint], "mtLoop"}
      /\ UNCHANGED <<ret, dst, frame>>
  <2>. USE <1>1 DEF Goto, UnderLock, shared, locals, StartPath
  <2>1. CASE ZdoStart(t) \/ SetNwkCb(t) \/ SetFrameCb(t) \/ SetTxDoneCb(t)
    BY <2>1 DEF ZdoStart, SetNwkCb, SetFrameCb, SetTxDoneCb
  <2>2. CASE ApsStart(t) \/ NwkStart(t)
    BY <2>2 DEF ApsStart, NwkStart
  <2>3. CASE SpawnMaint(t)
    BY <2>3 DEF SpawnMaint
  <2>4. CASE MacStart(t)
    BY <2>4 DEF MacStart
  <2>. QED BY <2>1, <2>2, <2>3, <2>4 DEF StartStep
<1>3. StartPath \cup {"idle"} \subseteq QuietApp \ {"nwkLock"}
  BY DEF StartPath, QuietApp
<1>4. {"rxLoop", "mtLoop"} \cap (SendPath \cup {"apsSend", "apsUnlock", "txDone", "nwkLock"}) = {}
  BY DEF SendPath
<1>5. \A u \in Threads : pc'[u] = "nwkLock" => pc[u] = "nwkLock"
  BY <1>2, <1>3, <1>4 DEF Threads
<1>. QED BY <1>2, <1>3, <1>4, <1>5 DEF QuietInv, QuietOK

LEMMA QuietNeverStops == ASSUME QuietInv, NEW t \in App PROVE ~StopStep(t)
<1>1. pc[t] \in QuietApp
  BY DEF QuietInv, QuietOK
<1>. QED
  BY <1>1 DEF QuietApp, StartPath, QuietSend, StopStep, ApsStop, ClearNwkCb, NwkStop, ClearFrameCb,
     ClearTxDoneCb, JoinMaint, MacStop, ClearRawCb, ClearEventCb, SpinelStop, JoinRx, UnderLock

LEMMA QuietSends ==
  ASSUME QuietInv, NEW t \in Threads, SendStep(t)
  PROVE  QuietOK'
<1>. USE ThreadsAreDistinct
<1>1. /\ pc \in [Threads -> Label] /\ dst \in [Threads -> Addr \cup {Broadcast}] /\ Rx # Maint
  BY DEF QuietInv, LifeInv, LockInv, PcOK, DataOK, Rx, Maint
<1>2. pc[t] \in {"nwkLock", "macLock", "repairDiscover", "repairMark"} /\ t # Rx
  <2>1. pc[t] \in SendPath \cup {"apsSend", "apsUnlock", "repairDiscover", "repairMark"}
    BY DEF SendStep, ApsSend, ApsUnlock, SendRefused, SendRouted, SendUnrouted, DiscoveryPending,
           DiscoveryStarts, DiscoveryMarks, SendFrame, AtNwkLock, Discovers, SendPath
  <2>2. CASE t \in App
    BY <2>1, <2>2 DEF QuietInv, QuietOK, QuietApp, QuietSend, StartPath, SendPath
  <2>3. CASE t = Rx
    BY <2>1, <2>3 DEF QuietInv, QuietOK, LifeInv, LockInv, PcOK, RxLabel, SendPath
  <2>4. CASE t = Maint
    BY <2>1, <2>4, <1>1 DEF QuietInv, QuietOK, QuietSend, LifeInv, LockInv, PcOK, MaintLabel, SendPath
  <2>. QED BY <2>2, <2>3, <2>4 DEF Threads
<1>3. IF t \in App THEN ret[t] = "idle" ELSE t = Maint /\ ret[t] = "mtPrune"
  <2>1. CASE t \in App
    BY <2>1 DEF QuietInv, QuietOK
  <2>2. CASE t = Maint
    BY <1>1, <1>2, <2>2 DEF QuietInv, LifeInv, LockInv, LocalOK, ReturnOK, SendPath
  <2>. QED BY <1>2, <2>1, <2>2 DEF Threads
<1>4. /\ frame' = frame /\ ret' = ret
      /\ \/ pc' = [pc EXCEPT ![t] = "macLock"] /\ dst' = dst
         \/ t \in App /\ pc' = [pc EXCEPT ![t] = "repairMark"] /\ dst' = dst
         \/ pc' = [pc EXCEPT ![t] = "nwkLock"] /\ dst' = [dst EXCEPT ![t] = Broadcast]
         \/ pc' = [pc EXCEPT ![t] = ret[t]] /\ dst' = dst
  <2>. USE <1>2 DEF Goto, locals, shared, AtNwkLock
  <2>1. ~ApsSend(t) /\ ~ApsUnlock(t)
    BY DEF ApsSend, ApsUnlock
  <2>2. ~SendUnrouted(t)
    BY DEF SendUnrouted, QuietInv, QuietOK
  <2>3. CASE SendRefused(t) \/ SendFrame(t)
    BY <2>3 DEF SendRefused, SendFrame
  <2>4. CASE SendRouted(t)
    BY <2>4 DEF SendRouted
  <2>5. CASE DiscoveryPending(t)
    BY <2>5 DEF DiscoveryPending, Discovers
  <2>6. CASE DiscoveryStarts(t)
    <3>1. pc[t] = "repairDiscover"
      BY <2>6 DEF DiscoveryStarts, Discovers
    <3>2. t \in App
      BY <1>2, <3>1 DEF Threads, QuietInv, LifeInv, LockInv, PcOK, MaintLabel, SendPath
    <3>. QED BY <2>6, <3>1, <3>2 DEF DiscoveryStarts
  <2>7. CASE DiscoveryMarks(t)
    BY <2>7 DEF DiscoveryMarks
  <2>. QED BY <2>1, <2>2, <2>3, <2>4, <2>5, <2>6, <2>7 DEF SendStep
<1>5. \A u \in Threads : u # t => pc'[u] = pc[u] /\ dst'[u] = dst[u]
  BY <1>1, <1>4
<1>6. /\ pc'[t] \in QuietSend \cup {ret[t]} \/ (t \in App /\ pc'[t] = "repairMark")
      /\ pc'[t] = "nwkLock" => dst'[t] = Broadcast
  BY <1>1, <1>3, <1>4 DEF QuietSend
<1>7. \A u \in App : pc'[u] \in QuietApp /\ ret'[u] = "idle"
  BY <1>3, <1>4, <1>5, <1>6 DEF QuietInv, QuietOK, QuietApp
<1>8. pc'[Rx] = pc[Rx]
  BY <1>2, <1>5
<1>9. pc'[Maint] \notin SendPath \ QuietSend
  BY <1>3, <1>5, <1>6 DEF QuietInv, QuietOK, SendPath, QuietSend
<1>. QED BY <1>4, <1>5, <1>6, <1>7, <1>8, <1>9 DEF QuietInv, QuietOK

LEMMA QuietPlain ==
  ASSUME QuietInv, NEW t \in {Rx, Maint}, NEW l, pc' = [pc EXCEPT ![t] = l],
         t = Rx => dst' = dst /\ l \notin SendPath \cup {"apsSend", "apsUnlock", "txDone"},
         t = Maint => (\A u \in Threads : dst'[u] = IF u = Maint THEN Broadcast ELSE dst[u]) \/ (dst' = dst /\ l # "nwkLock"),
         t = Maint => l \notin SendPath \ QuietSend,
         \A u \in App : ret'[u] = ret[u], frame'.kind \in QuietTraffic \cup {"none"}
  PROVE  QuietOK'
<1>. USE ThreadsAreDistinct
<1>1. pc \in [Threads -> Label] /\ Rx # Maint
  BY DEF QuietInv, LifeInv, LockInv, PcOK, Rx, Maint
<1>2. pc'[t] = l /\ \A u \in Threads : u # t => pc'[u] = pc[u]
  BY <1>1
<1>3. \A u \in Threads : pc'[u] = "nwkLock" => dst'[u] = Broadcast
  BY <1>1, <1>2 DEF QuietInv, QuietOK, SendPath
<1>. QED BY <1>1, <1>2, <1>3 DEF QuietInv, QuietOK

LEMMA QuietRx == ASSUME QuietInv, RxStep PROVE QuietOK'
<1>. USE ThreadsAreDistinct
<1>. DEFINE Places == {"rxRead", "ended", "rawCall", "rxDone", "rxAssoc", "rxMacLock", "rxHandle", "rxRepair",
                        "rxMacUnlock", "nwkCbCall", "rxApsLock", "eventCall", "eventMacLock"}
<1>1. /\ frame.kind \in QuietTraffic \cup {"none"}
      /\ pc[Rx] \notin SendPath \cup {"apsSend", "apsUnlock", "txDone"}
  BY DEF QuietInv, QuietOK
<1>2. \A l \in Places : l \notin SendPath \cup {"apsSend", "apsUnlock", "txDone"}
  BY DEF SendPath
<1>3. CASE SendStep(Rx)
  BY <1>3, QuietSends
<1>4. CASE \E l \in Places : pc' = [pc EXCEPT ![Rx] = l] /\ UNCHANGED <<dst, ret, frame>>
  <2>1. Rx # Maint
    BY DEF Rx, Maint
  <2>. QED BY <1>1, <1>2, <1>4, <2>1, QuietPlain
<1>5. ASSUME ~SendStep(Rx)
      PROVE  \E l \in Places : pc' = [pc EXCEPT ![Rx] = l] /\ UNCHANGED <<dst, ret, frame>>
  <2>. USE DEF Goto, shared, UnderLock, RxHandles, RxSends, locals
  <2>1. CASE RxLoop \/ RawCheck \/ EventCheck
    BY <2>1 DEF RxLoop, RawCheck, EventCheck
  <2>2. CASE RawCall \/ EventCall \/ NwkCbCall
    BY <2>2 DEF RawCall, EventCall, NwkCbCall
  <2>3. CASE RxAssoc \/ RxMacUnlock \/ RxRepair
    BY <2>3 DEF RxAssoc, RxMacUnlock, RxRepair
  <2>4. CASE RxMacLock
    BY <2>4 DEF RxMacLock
  <2>5. CASE EventMacLock
    BY <1>1, <2>5 DEF EventMacLock, QuietTraffic
  <2>6. CASE RxApsLock
    BY <1>1, <2>6 DEF RxApsLock, QuietTraffic
  <2>7. CASE RxHandler
    <3>1. ~RxRelay /\ ~RxForwards
      BY <1>1 DEF RxRelay, RxForwards, QuietTraffic
    <3>2. CASE RxDrop \/ RxLearn \/ RxNoRoute
      BY <3>2 DEF RxDrop, RxLearn, RxNoRoute
    <3>3. CASE RxRouteError \/ RxDeliver
      BY <3>3 DEF RxRouteError, RxDeliver
    <3>. QED BY <2>7, <3>1, <3>2, <3>3 DEF RxHandler
  <2>8. ~TxDone
    BY <1>1 DEF TxDone
  <2>. QED BY <1>5, <2>1, <2>2, <2>3, <2>4, <2>5, <2>6, <2>7, <2>8 DEF RxStep
<1>. QED BY <1>3, <1>4, <1>5

LEMMA QuietReads == ASSUME Quiet, QuietInv, RxReads PROVE QuietOK'
<1>. DEFINE Places == {"rawCheck", "eventCheck", "rxLoop"}
<1>1. /\ \E l \in Places : pc' = [pc EXCEPT ![Rx] = l]
      /\ UNCHANGED <<dst, ret>> /\ frame'.kind \in QuietTraffic \cup {"none"}
  <2>1. CASE \E f \in Frame : RxFrame(f)
    BY <2>1 DEF RxFrame, Goto, locals, Quiet
  <2>2. CASE RxNoFrame
    BY <2>2 DEF RxNoFrame, Goto, locals, shared, QuietInv, QuietOK
  <2>3. CASE RxBufferEmpty
    BY <2>3 DEF RxBufferEmpty, Goto, locals, NoFrame
  <2>. QED BY <2>1, <2>2, <2>3 DEF RxReads
<1>2. \A l \in Places : l \notin SendPath \cup {"apsSend", "apsUnlock", "txDone"}
  BY DEF SendPath
<1>3. Rx # Maint
  BY DEF Rx, Maint
<1>. QED BY <1>1, <1>2, <1>3, QuietPlain

LEMMA QuietMaint == ASSUME QuietInv, MaintStep PROVE QuietOK'
<1>. USE ThreadsAreDistinct
<1>0. Rx # Maint
  BY DEF Rx, Maint
<1>1. CASE SendStep(Maint)
  BY <1>1, QuietSends
<1>2. CASE MaintWake
  <2>1. /\ dst \in [Threads -> Addr \cup {Broadcast}] /\ ret \in [Threads -> Return]
        /\ frame.kind \in QuietTraffic \cup {"none"}
    BY DEF QuietInv, QuietOK, LifeInv, LockInv, DataOK
  <2>2. /\ pc' = [pc EXCEPT ![Maint] = "nwkLock"]
        /\ \A u \in Threads : dst'[u] = IF u = Maint THEN Broadcast ELSE dst[u]
        /\ \A u \in App : ret'[u] = ret[u]
        /\ frame' = frame
    BY <1>2, <2>1 DEF MaintWake, Goto, shared
  <2>3. "nwkLock" \notin SendPath \ QuietSend
    BY DEF QuietSend
  <2>. QED BY <1>0, <2>1, <2>2, <2>3, QuietPlain
<1>3. CASE MaintLoop \/ MaintPrune
  <2>1. /\ \E l \in {"mtSleep", "ended", "mtLoop"} : pc' = [pc EXCEPT ![Maint] = l]
        /\ UNCHANGED <<dst, ret, frame>> /\ frame.kind \in QuietTraffic \cup {"none"}
    BY <1>3 DEF MaintLoop, MaintPrune, Goto, locals, shared, QuietInv, QuietOK
  <2>2. \A l \in {"mtSleep", "ended", "mtLoop"} : l \notin SendPath /\ l # "nwkLock"
    BY DEF SendPath
  <2>. QED BY <1>0, <2>1, <2>2, QuietPlain
<1>. QED BY <1>1, <1>2, <1>3 DEF MaintStep

LEMMA QuietApps == ASSUME QuietInv, NEW t \in App, AppStep(t) PROVE QuietOK'
<1>. USE ThreadsAreDistinct
<1>1. CASE Repair(t) \/ MacConfig(t) \/ MacAssoc(t)
  <2>1. pc \in [Threads -> Label] /\ t # Rx /\ t # Maint
    BY DEF QuietInv, LifeInv, LockInv, PcOK
  <2>2. /\ \E l \in {"idle", "repairDiscover"} : pc' = [pc EXCEPT ![t] = l]
        /\ UNCHANGED <<dst, ret, frame>>
    BY <1>1 DEF Repair, MacConfig, MacAssoc, Goto, UnderLock, shared, locals
  <2>3. {"idle", "repairDiscover"} \subseteq QuietApp \ {"nwkLock"}
    BY DEF QuietApp
  <2>. QED BY <2>1, <2>2, <2>3 DEF QuietInv, QuietOK
<1>. QED BY <1>1, QuietSends, QuietStart, QuietNeverStops DEF AppStep

LEMMA QuietStep == ASSUME Quiet, QuietInv, [Next]_vars PROVE QuietInv'
<1>1. LifeInv'
  BY LifeStep DEF QuietInv
<1>2. CASE UNCHANGED vars
  BY <1>1, <1>2 DEF QuietInv, QuietOK, vars
<1>3. CASE Next
  BY <1>1, <1>3, QuietCall, QuietApps, QuietReads, QuietRx, QuietMaint DEF Next, QuietInv
<1>. QED BY <1>1, <1>2, <1>3 DEF QuietInv

(* The rx thread, which takes the APS mutex with the MAC mutex held, never *)
(* meets a thread that has it: only a start has, and the rx thread is not  *)
(* there before a start ends.                                              *)
LEMMA QuietIsFree == ASSUME QuietInv PROVE NoDeadlock
<1>. USE ThreadsAreDistinct
<1>. SUFFICES ASSUME NEW S \in SUBSET Threads, Deadlocked(S) PROVE FALSE
  BY DEF NoDeadlock
<1>0. EveryDeadlockIsKnown
  BY LockOrder DEF QuietInv, LifeInv
<1>1. PICK t \in S :
        pc[t] \in {"nwkRelock", "joinMaint", "joinRx"} \/ (t = Rx /\ owner["mac"] = Rx)
  BY <1>0 DEF EveryDeadlockIsKnown
<1>2. pc[t] \notin {"nwkRelock", "joinMaint", "joinRx"}
  <2>1. CASE t \in App
    BY <2>1 DEF QuietInv, QuietOK, QuietApp, QuietSend, StartPath
  <2>2. CASE t = Rx
    BY <2>2 DEF QuietInv, QuietOK, LifeInv, LockInv, PcOK, RxLabel, SendPath
  <2>3. CASE t = Maint
    BY <2>3 DEF QuietInv, QuietOK, QuietSend, LifeInv, LockInv, PcOK, MaintLabel, SendPath
  <2>. QED BY <2>1, <2>2, <2>3 DEF Threads
<1>3. pc[Rx] \in {"rxHandle", "rxRepair", "nwkCbCall", "rxApsLock", "rxMacUnlock"}
  <2>1. HoldsMac(Rx)
    BY <1>1, <1>2 DEF QuietInv, LifeInv, LockInv, MutexOK
  <2>2. pc[Rx] \notin MacStopping
    BY DEF QuietInv, LifeInv, LockInv, PcOK, RxLabel, SendPath, MacStopping
  <2>. QED BY <2>1, <2>2 DEF HoldsMac, UnderMac, QuietInv, QuietOK
<1>4. PICK u \in S : WaitsFor(Rx, u)
  BY <1>1, <1>2 DEF Deadlocked
<1>5. pc[Rx] = "rxApsLock" /\ owner["aps"] = u
  BY <1>3, <1>4 DEF WaitsFor, WantsAps, WantsNwk, WantsMac
<1>6. HoldsAps(u)
  BY <1>5 DEF QuietInv, LifeInv, LockInv, MutexOK
<1>7. CASE u \in App
  <2>1. pc[u] \in Starting
    BY <1>6, <1>7 DEF HoldsAps, QuietInv, QuietOK, QuietApp, QuietSend, StartPath, SendPath, Starting,
       NwkStarting, NwkStopping, MacStopping
  <2>2. Within(u)
    BY <1>7, <2>1, WithinIsAStage DEF Stages
  <2>3. StageOK(pc[u])
    BY <1>7, <2>2 DEF QuietInv, LifeInv, StagesOK
  <2>. QED BY <1>5, <2>1, <2>3 DEF StageOK, ThreadsAt
<1>8. CASE u = Rx
  BY <1>5, <1>6, <1>8 DEF HoldsAps, SendPath, NwkStarting, NwkStopping, MacStopping
<1>9. CASE u = Maint
  <2>1. pc[Maint] \in SendPath /\ ret[Maint] = "apsUnlock"
    BY <1>6, <1>9 DEF HoldsAps, QuietInv, LifeInv, LockInv, PcOK, MaintLabel, SendPath, NwkStarting,
       NwkStopping, MacStopping, Rx, Maint
  <2>. QED BY <2>1 DEF QuietInv, LifeInv, LockInv, LocalOK, ReturnOK, Rx, Maint
<1>. QED BY <1>7, <1>8, <1>9 DEF Threads

(* A stack that is started and never stopped, that sends only broadcasts   *)
(* and whose radio hands up no frame that makes the rx thread send, does   *)
(* not deadlock, however many threads call it.                             *)
THEOREM QuietStacksNeverDeadlock == Quiet /\ Spec => []NoDeadlock
<1>1. Quiet /\ Init => QuietInv
  BY LifeInit, QuietInit DEF QuietInv
<1>2. Quiet /\ QuietInv /\ [Next]_vars => (Quiet /\ QuietInv)'
  BY QuietStep DEF Quiet
<1>3. QuietInv => NoDeadlock
  BY QuietIsFree
<1>. QED BY <1>1, <1>2, <1>3, PTL DEF Spec

=============================================================================
