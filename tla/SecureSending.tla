--------------------------- MODULE SecureSending ---------------------------
(***************************************************************************)
(* SecurityManager and the way a frame takes through it: sendApsData       *)
(* encrypts with a link key if it is asked to, sendNwkFrame takes a frame  *)
(* counter of the network key and hands the frame to the MAC.  Both        *)
(* ciphers are stubs that copy; what is modelled is which key and which    *)
(* counter a frame takes, and in which order frames are handed over.       *)
(*                                                                         *)
(* SecurityManager's mutex makes each of its operations one step.  The     *)
(* mutex of ZigbeeNwk is held from before the counter is taken until the   *)
(* MAC has the frame; setNetworkKey does not take it.  Neither keys nor    *)
(* counter outlive the process.                                            *)
(*                                                                         *)
(* ZigbeeNwk's other module is NwkNeighbours; NwkProofs extends both, so   *)
(* they share no names.                                                    *)
(***************************************************************************)
EXTENDS Integers, Sequences

CONSTANTS
  Thread,       \* threads that send
  NwkKey,       \* network keys
  NoKey,        \* no network key
  Device,       \* extended addresses with which link keys may be stored
  Stub,         \* 0x1122334455667788, the one whose link key is used
  CounterRange, \* values of m_nwkTxFrameCounter: 2^32
  MaxEpochs,    \* network keys set, and restarts (bounds the model)
  MaxRounds,    \* times the counter wraps (bounds the model)
  MaxFrames     \* frames handed to the MAC (bounds the model)

ASSUME SendingAssumption ==
  /\ NoKey \notin NwkKey
  /\ CounterRange \in Nat \ {0, 1}
  /\ MaxEpochs \in Nat /\ MaxRounds \in Nat /\ MaxFrames \in Nat

VARIABLES
  nwkKey,    \* m_nwkKey
  counter,   \* m_nwkTxFrameCounter
  linkKeys,  \* the addresses in m_linkKeys
  stage,     \* where each thread is
  frame,     \* the frame it holds
  epoch,     \* which setNetworkKey or start of the process the counter is of
  round,     \* how often the counter has wrapped in this epoch
  left       \* the frames handed to the MAC

keys == <<nwkKey, counter, linkKeys, epoch, round>>
sendingVars == <<keys, stage, frame, left>>

NoFrame == [key |-> NoKey, epoch |-> 0, round |-> 0, counter |-> 0]

SendingInit ==
  /\ nwkKey = NoKey /\ counter = 1 /\ linkKeys = {}
  /\ stage = [t \in Thread |-> "idle"]
  /\ frame = [t \in Thread |-> NoFrame]
  /\ epoch = 0 /\ round = 0
  /\ left = <<>>

-----------------------------------------------------------------------------
(* The keys.                                                               *)

SetNetworkKey(k) ==
  /\ epoch < MaxEpochs
  /\ nwkKey' = k /\ counter' = 1
  /\ epoch' = epoch + 1 /\ round' = 0
  /\ UNCHANGED <<linkKeys, stage, frame, left>>

SetLinkKey(d) ==
  /\ linkKeys' = linkKeys \cup {d}
  /\ UNCHANGED <<nwkKey, counter, epoch, round, stage, frame, left>>

(* The process ends, at any point, and is started again. *)
Restart ==
  /\ epoch < MaxEpochs
  /\ nwkKey' = NoKey /\ counter' = 1 /\ linkKeys' = {}
  /\ stage' = [t \in Thread |-> "idle"] /\ frame' = [t \in Thread |-> NoFrame]
  /\ epoch' = epoch + 1 /\ round' = 0
  /\ UNCHANGED left

-----------------------------------------------------------------------------
(* Sending.                                                                *)

Goto(t, where) == stage' = [stage EXCEPT ![t] = where]

(* A frame of the NWK itself, or of the APS without security. *)
SendPlain(t) ==
  /\ stage[t] = "idle" /\ Goto(t, "nwk")
  /\ UNCHANGED <<keys, frame, left>>

(* apsEncrypt; without the link key sendApsData returns false. *)
SendSecured(t) ==
  /\ stage[t] = "idle" /\ Stub \in linkKeys /\ Goto(t, "nwk")
  /\ UNCHANGED <<keys, frame, left>>

(* No route, or not running: sendNwkFrame ends before it takes a counter. *)
NotSent(t) ==
  /\ stage[t] = "nwk" /\ Goto(t, "idle")
  /\ UNCHANGED <<keys, frame, left>>

NwkMutexFree == \A t \in Thread : stage[t] # "mac"

(* Mutant: a wider counter. *)
Wider(n) == n + 1

Increment(n) == (n + 1) % CounterRange

(* Also when no network key was ever set. *)
TakeCounter(t) ==
  /\ counter + 1 < CounterRange \/ round < MaxRounds
  /\ frame' = [frame EXCEPT ![t] = [key |-> nwkKey, epoch |-> epoch, round |-> round, counter |-> counter]]
  /\ counter' = Increment(counter)
  /\ round' = IF counter' = 0 THEN round + 1 ELSE round
  /\ UNCHANGED <<nwkKey, linkKeys, epoch, left>>

(* Mutant: the NWK mutex is not held while the MAC is called. *)
NwkEncryptUnlocked(t) == stage[t] = "nwk" /\ Goto(t, "mac") /\ TakeCounter(t)

NwkEncrypt(t) == stage[t] = "nwk" /\ NwkMutexFree /\ Goto(t, "mac") /\ TakeCounter(t)

(* The MAC takes the frame or, when it does not run, refuses it. *)
MacSend(t) ==
  /\ stage[t] = "mac" /\ Goto(t, "idle")
  /\ \/ Len(left) < MaxFrames /\ left' = Append(left, [sent |-> frame[t], at |-> epoch])
     \/ UNCHANGED left
  /\ frame' = [frame EXCEPT ![t] = NoFrame]
  /\ UNCHANGED keys

SendingNext ==
  \/ \E k \in NwkKey : SetNetworkKey(k)
  \/ \E d \in Device : SetLinkKey(d)
  \/ Restart
  \/ \E t \in Thread : SendPlain(t) \/ SendSecured(t) \/ NotSent(t) \/ NwkEncrypt(t) \/ MacSend(t)

SendingSpec == SendingInit /\ [][SendingNext]_sendingVars

-----------------------------------------------------------------------------
(* Correctness.                                                            *)

Frame == [key : NwkKey \cup {NoKey}, epoch : 0 .. MaxEpochs, round : 0 .. MaxRounds, counter : 0 .. CounterRange - 1]

(* Every variable has its type; the counter does not outgrow its width.    *)
SendingTypeOK ==
  /\ nwkKey \in NwkKey \cup {NoKey}
  /\ counter \in 0 .. CounterRange - 1
  /\ linkKeys \subseteq Device
  /\ stage \in [Thread -> {"idle", "nwk", "mac"}]
  /\ frame \in [Thread -> Frame]
  /\ epoch \in 0 .. MaxEpochs /\ round \in 0 .. MaxRounds
  /\ left \in Seq([sent : Frame, at : 0 .. MaxEpochs])

Before(f, g) ==
  \/ f.epoch < g.epoch
  \/ f.epoch = g.epoch /\ f.round < g.round
  \/ f.epoch = g.epoch /\ f.round = g.round /\ f.counter < g.counter

(* Frames are handed to the MAC in the order of their counters, however    *)
(* many threads send and however the key is set meanwhile.  So a receiver  *)
(* that keeps the last counter does not take a new frame for a replay, and *)
(* a key meets the same counter again only after it was set again, after a *)
(* restart, or when the counter has wrapped.                               *)
CountersLeaveInOrder ==
  \A i, j \in DOMAIN left : i < j => Before(left[i].sent, left[j].sent)

(* After setNetworkKey at most one more frame leaves under the key before: *)
(* the one whose counter had been taken.                                   *)
LateFrames(e) == {i \in DOMAIN left : left[i].at = e /\ left[i].sent.epoch < e}
OneLateFrame == \A e \in 1 .. MaxEpochs : \A i, j \in LateFrames(e) : i = j
=============================================================================
