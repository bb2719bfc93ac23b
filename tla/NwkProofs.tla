----------------------------- MODULE NwkProofs -----------------------------
(***************************************************************************)
(* Proofs about the neighbour table of ZigbeeNwk (NwkNeighbours), for any  *)
(* set of neighbours, timeout and width of the count, and about the frames *)
(* that it secures and sends (SecureSending), for any number of threads,   *)
(* any keys and any width of the frame counter.                            *)
(***************************************************************************)
EXTENDS NwkNeighbours, SecureSending, FiniteSetTheorems, TLAPS

-----------------------------------------------------------------------------
(***************************************************************************)
(* The neighbour table.  The invariants of a finished loop are carried     *)
(* through the loop: an entry that is not to be visited any more is a      *)
(* victim, was heard in time, or is being made (Visited), and what is      *)
(* listed or still to be listed is never less than what was announced      *)
(* (Announced).  Both survive the rx thread, because it only adds entries, *)
(* and only makes them younger - unless it makes the map grow, which       *)
(* regrown remembers.                                                      *)
(***************************************************************************)

Finite == IsFiniteSet(table) /\ IsFiniteSet(listed) /\ IsFiniteSet(todo)

Announced ==
  /\ pc = "list" /\ ~regrown => count <= Cardinality(listed \cup todo)
  /\ pc = "sent" /\ ~regrown => count <= Cardinality(listed)

Visited ==
  /\ pc = "collect" /\ ~regrown =>
       \A a \in table : a \in todo \cup victims \cup entering \/ SilentFor(a) <= Stale
  /\ pc = "erase" /\ ~regrown =>
       \A a \in table : a \in victims \cup entering \/ SilentFor(a) <= Stale

NeighbourInv ==
  /\ TypeOK
  /\ Finite
  /\ Announced
  /\ Visited
  /\ VictimsWereSilent
  /\ Pruning \/ victims = {}

LEMMA NeighbourInit == ASSUME Init PROVE NeighbourInv
<1>. USE ConstantsAssumption
<1>1. Oldest \in 0 .. Oldest /\ 0 \in 0 .. CountRange - 1 /\ 0 \in 0 .. MaxLag /\ 0 \in 0 .. MaxDelay
  BY DEF Oldest
<1>2. FirstRoom \in Nat
  OBVIOUS
<1>3. TypeOK
  BY <1>1, <1>2, Zenon DEF Init, TypeOK
<1>4. Finite
  BY FS_EmptySet DEF Init, Finite
<1>. QED BY <1>3, <1>4 DEF Init, NeighbourInv, Announced, Visited, VictimsWereSilent

(* Time: all entries age with the clock, or are older than any timeout.    *)
LEMMA TickKeeps == ASSUME NeighbourInv, Tick PROVE NeighbourInv'
<1>. USE ConstantsAssumption
<1>1. TypeOK /\ Finite /\ Announced /\ Visited /\ VictimsWereSilent /\ (Pruning \/ victims = {})
  BY DEF NeighbourInv
<1>2. /\ UNCHANGED <<table, pc, count, listed, todo, victims, entering, room, regrown>>
      /\ delay' \in 0 .. MaxDelay
      /\ \A a \in Addr : age'[a] = IF age[a] < Oldest THEN age[a] + 1 ELSE age[a]
      /\ age' \in [Addr -> 0 .. Oldest]
      /\ lag' = (IF Pruning THEN lag + 1 ELSE lag)
      /\ lag' \in 0 .. MaxLag
  <2>1. age' \in [Addr -> 0 .. Oldest]
    BY <1>1 DEF Tick, TypeOK, Oldest
  <2>2. lag \in 0 .. MaxLag /\ (Pruning => lag < MaxLag)
    BY <1>1 DEF Tick, TypeOK
  <2>3. lag' \in 0 .. MaxLag
    BY <2>2 DEF Tick
  <2>4. delay' \in 0 .. MaxDelay
    BY <1>1 DEF Tick, TypeOK
  <2>. QED BY <2>1, <2>3, <2>4 DEF Tick
<1>3. TypeOK' /\ Finite' /\ Announced'
  BY <1>1, <1>2 DEF TypeOK, Finite, Announced
<1>4. ASSUME Pruning, NEW a \in Addr
      PROVE  /\ SilentFor(a) <= Stale => SilentFor(a)' <= Stale
             /\ SilentFor(a) > Stale => SilentFor(a)' > Stale
             /\ age[a] <= lag + MaxDelay => age'[a] <= lag' + MaxDelay
  <2>1. /\ age[a] \in 0 .. Oldest
        /\ lag \in 0 .. MaxLag /\ lag' = lag + 1 /\ lag' \in 0 .. MaxLag
        /\ age'[a] = IF age[a] < Oldest THEN age[a] + 1 ELSE age[a]
    BY <1>1, <1>2, <1>4 DEF TypeOK
  <2>. QED BY <2>1 DEF SilentFor, Oldest
<1>5. Visited'
  BY <1>1, <1>2, <1>4 DEF Visited, Pruning, TypeOK
<1>6. VictimsWereSilent'
  BY <1>1, <1>2, <1>4 DEF VictimsWereSilent, TypeOK
<1>. QED BY <1>1, <1>2, <1>3, <1>5, <1>6 DEF NeighbourInv, Pruning

(* The rx thread makes an entry: what is to be visited only grows, unless  *)
(* the map does.                                                           *)
LEMMA EnterKeeps ==
  ASSUME NeighbourInv, NEW n \in Addr, EnterNeighbour(n)
  PROVE  NeighbourInv'
<1>. USE ConstantsAssumption
<1>1. TypeOK /\ Finite /\ Announced /\ Visited /\ VictimsWereSilent /\ (Pruning \/ victims = {})
  BY DEF NeighbourInv
<1>2. /\ UNCHANGED <<age, pc, count, listed, lag, victims>>
      /\ entering' = {n} /\ entering = {} /\ delay' = 0
      /\ table' = table \cup {n}
      /\ room' \in Nat
  BY <1>1 DEF EnterNeighbour, TypeOK
<1>3. /\ regrown' \in BOOLEAN
      /\ regrown => regrown'
  BY <1>1 DEF EnterNeighbour, TypeOK
<1>4. /\ todo' \subseteq todo \cup table'
      /\ ~regrown' => todo \subseteq todo'
  <2>1. todo' \in Upcoming(n) /\ regrown' = (regrown \/ (Looping /\ Grows(n)))
    BY DEF EnterNeighbour
  <2>2. CASE ~Looping \/ n \in table
    BY <2>1, <2>2 DEF Upcoming, Grows
  <2>3. CASE Looping /\ n \notin table /\ Grows(n)
    BY <1>2, <2>1, <2>3 DEF Upcoming
  <2>4. CASE Looping /\ n \notin table /\ ~Grows(n)
    BY <1>2, <2>1, <2>4 DEF Upcoming
  <2>. QED BY <2>2, <2>3, <2>4
<1>5. TypeOK'
  <2>1. delay' \in 0 .. MaxDelay
    BY <1>2
  <2>. QED BY <1>1, <1>2, <1>3, <1>4, <2>1, Zenon DEF TypeOK
<1>6. Finite'
  <2>1. IsFiniteSet(table')
    BY <1>1, <1>2, FS_AddElement DEF Finite
  <2>2. IsFiniteSet(todo \cup table')
    BY <1>1, <2>1, FS_Union DEF Finite
  <2>3. IsFiniteSet(todo')
    BY <1>4, <2>2, FS_Subset
  <2>. QED BY <1>1, <1>2, <2>1, <2>3 DEF Finite
<1>7. Announced'
  <2>1. CASE regrown'
    BY <2>1 DEF Announced
  <2>2. CASE ~regrown'
    <3>1. IsFiniteSet(listed' \cup todo')
      BY <1>6, FS_Union DEF Finite
    <3>2. Cardinality(listed \cup todo) <= Cardinality(listed' \cup todo')
      BY <1>2, <1>4, <2>2, <3>1, FS_Subset
    <3>3. Cardinality(listed \cup todo) \in Nat /\ Cardinality(listed' \cup todo') \in Nat
      BY <1>1, <3>1, FS_Union, FS_CardinalityType DEF Finite
    <3>4. count \in Nat
      BY <1>1 DEF TypeOK
    <3>5. pc = "list" => count <= Cardinality(listed \cup todo)
      BY <1>1, <1>3, <2>2 DEF Announced
    <3>6. pc = "list" => count <= Cardinality(listed' \cup todo')
      BY <3>2, <3>3, <3>4, <3>5
    <3>7. ~regrown
      BY <1>3, <2>2
    <3>. QED BY <1>1, <1>2, <2>2, <3>6, <3>7 DEF Announced
  <2>. QED BY <2>1, <2>2
<1>8. \A a : SilentFor(a)' = SilentFor(a)
  BY <1>2 DEF SilentFor
<1>9. Visited'
  BY <1>1, <1>2, <1>3, <1>4, <1>8 DEF Visited
<1>10. VictimsWereSilent'
  BY <1>1, <1>2, <1>8 DEF VictimsWereSilent
<1>. QED BY <1>1, <1>2, <1>5, <1>6, <1>7, <1>9, <1>10 DEF NeighbourInv, Pruning

(* The rx thread gives the entry its time: it is as old as the call.       *)
LEMMA StampKeeps == ASSUME NeighbourInv, StampNeighbour PROVE NeighbourInv'
<1>. USE ConstantsAssumption
<1>1. TypeOK /\ Finite /\ Announced /\ Visited /\ VictimsWereSilent /\ (Pruning \/ victims = {})
  BY DEF NeighbourInv
<1>2. /\ UNCHANGED <<table, pc, count, listed, todo, lag, victims, room, regrown>>
      /\ entering' = {} /\ delay' = 0
      /\ age' = [a \in Addr |-> IF a \in entering \cap table THEN delay ELSE age[a]]
  BY DEF StampNeighbour
<1>3. lag \in Nat /\ delay \in 0 .. MaxDelay /\ \A a \in Addr : age[a] \in Nat
  BY <1>1 DEF TypeOK, Oldest
<1>4. \A a \in Addr : age'[a] = IF a \in entering \cap table THEN delay ELSE age[a]
  BY <1>2
<1>5. TypeOK'
  <2>1. delay \in 0 .. Oldest /\ 0 \in 0 .. MaxDelay
    BY <1>3 DEF Oldest
  <2>2. age' \in [Addr -> 0 .. Oldest]
    BY <1>1, <1>2, <2>1 DEF TypeOK
  <2>. QED BY <1>1, <1>2, <2>1, <2>2, Zenon DEF TypeOK
<1>6. Finite' /\ Announced'
  BY <1>1, <1>2 DEF Finite, Announced
<1>7. \A a \in Addr : SilentFor(a)' = IF a \in entering \cap table THEN delay - lag ELSE SilentFor(a)
  BY <1>2, <1>4 DEF SilentFor
<1>8. \A a \in Addr : a \in entering \cap table => SilentFor(a)' <= Stale
  BY <1>3, <1>7
<1>9. Visited'
  <2>1. table \subseteq Addr
    BY <1>1 DEF TypeOK
  <2>. QED BY <1>1, <1>2, <1>7, <1>8, <2>1 DEF Visited
<1>10. VictimsWereSilent'
  BY <1>1, <1>2, <1>3, <1>4, <1>7 DEF VictimsWereSilent, TypeOK
<1>. QED BY <1>1, <1>2, <1>5, <1>6, <1>9, <1>10 DEF NeighbourInv, Pruning

(* sendLinkStatus *)
LEMMA LinkStatusKeeps ==
  ASSUME NeighbourInv, CountNeighbours \/ (\E a \in Addr : ListNeighbour(a)) \/ SendLinkStatus
  PROVE  NeighbourInv'
<1>. USE ConstantsAssumption
<1>1. TypeOK /\ Finite /\ Announced /\ (Pruning \/ victims = {})
  BY DEF NeighbourInv
<1>2. CASE CountNeighbours
  <2>1. /\ UNCHANGED <<table, age, lag, victims, entering, delay, room>>
        /\ pc = "sleep" /\ pc' = "list" /\ listed' = {} /\ todo' = table /\ regrown' = FALSE
        /\ count' = Cardinality(table) % CountRange
    BY <1>2 DEF CountNeighbours
  <2>2. Cardinality(table) \in Nat
    BY <1>1, FS_CardinalityType DEF Finite
  <2>3. count' \in 0 .. CountRange - 1 /\ count' <= Cardinality(table)
    BY <2>1, <2>2
  <2>4. victims = {}
    BY <1>1, <2>1 DEF Pruning
  <2>5. listed' \cup todo' = table
    BY <2>1
  <2>. QED BY <1>1, <2>1, <2>3, <2>4, <2>5, FS_EmptySet
           DEF NeighbourInv, TypeOK, Finite, Announced, Visited, VictimsWereSilent
<1>3. CASE \E a \in Addr : ListNeighbour(a)
  <2>1. PICK a \in Addr : ListNeighbour(a)
    BY <1>3
  <2>2. /\ UNCHANGED <<table, age, pc, count, lag, victims, entering, delay, room, regrown>>
        /\ pc = "list" /\ listed' = listed \cup {a} /\ todo' = todo \ {a}
    BY <2>1 DEF ListNeighbour
  <2>3. IsFiniteSet(listed') /\ IsFiniteSet(todo')
    BY <1>1, <2>2, FS_AddElement, FS_RemoveElement DEF Finite
  <2>4. IsFiniteSet(listed' \cup todo')
    BY <2>3, FS_Union
  <2>5. Cardinality(listed \cup todo) <= Cardinality(listed' \cup todo')
    BY <2>2, <2>4, FS_Subset
  <2>6. Cardinality(listed \cup todo) \in Nat /\ Cardinality(listed' \cup todo') \in Nat
    BY <1>1, <2>4, FS_Union, FS_CardinalityType DEF Finite
  <2>7. count \in Nat /\ (~regrown => count <= Cardinality(listed \cup todo))
    BY <1>1, <2>2 DEF Announced, TypeOK
  <2>8. ~regrown => count <= Cardinality(listed' \cup todo')
    BY <2>5, <2>6, <2>7
  <2>9. victims = {}
    BY <1>1, <2>2 DEF Pruning
  <2>. QED BY <1>1, <2>2, <2>3, <2>8, <2>9
           DEF NeighbourInv, TypeOK, Finite, Announced, Visited, VictimsWereSilent
<1>4. CASE SendLinkStatus
  <2>1. /\ UNCHANGED <<table, age, count, listed, todo, lag, victims, entering, delay, room, regrown>>
        /\ pc = "list" /\ pc' = "sent" /\ listed \cup todo = listed
    BY <1>4 DEF SendLinkStatus
  <2>2. victims = {}
    BY <1>1, <2>1 DEF Pruning
  <2>. QED BY <1>1, <2>1, <2>2
           DEF NeighbourInv, TypeOK, Finite, Announced, Visited, VictimsWereSilent
<1>. QED BY <1>2, <1>3, <1>4

(* pruneNeighbors *)
LEMMA PruneKeeps ==
  ASSUME NeighbourInv,
         \/ ReadClock \/ (\E a \in Addr : Collect(a)) \/ CollectEnd
         \/ (\E a \in Addr : Erase(a)) \/ EraseEnd
  PROVE  NeighbourInv'
<1>. USE ConstantsAssumption
<1>1. TypeOK /\ Finite /\ Announced /\ Visited /\ VictimsWereSilent /\ (Pruning \/ victims = {})
  BY DEF NeighbourInv
<1>2. CASE ReadClock
  <2>1. /\ UNCHANGED <<table, age, count, listed, entering, delay, room>> /\ regrown' = FALSE
        /\ pc' = "collect" /\ lag' = 0 /\ todo' = table /\ victims' = {}
    BY <1>2 DEF ReadClock
  <2>2. 0 \in 0 .. MaxLag
    OBVIOUS
  <2>3. TypeOK'
    BY <1>1, <2>1, <2>2, Zenon DEF TypeOK
  <2>4. Finite' /\ Announced' /\ Visited' /\ VictimsWereSilent'
    BY <1>1, <2>1 DEF Finite, Announced, Visited, VictimsWereSilent
  <2>. QED BY <2>1, <2>3, <2>4 DEF NeighbourInv, Pruning
<1>3. CASE \E a \in Addr : Collect(a)
  <2>1. PICK n \in Addr : Collect(n)
    BY <1>3
  <2>2. /\ UNCHANGED <<table, age, pc, count, listed, lag, entering, delay, room, regrown>>
        /\ pc = "collect" /\ n \in todo /\ todo' = todo \ {n}
        /\ victims' = IF SilentFor(n) > Stale THEN victims \cup {n} ELSE victims
    BY <2>1 DEF Collect
  <2>3. \A a \in Addr : SilentFor(a)' = SilentFor(a) /\ SilentFor(a) \in Int
    BY <1>1, <2>2 DEF SilentFor, TypeOK, Oldest
  <2>4. Finite'
    BY <1>1, <2>2, FS_RemoveElement DEF Finite
  <2>5. TypeOK' /\ Announced'
    BY <1>1, <2>2 DEF TypeOK, Announced
  <2>6. Visited'
    BY <1>1, <2>2, <2>3 DEF Visited, TypeOK
  <2>7. VictimsWereSilent'
    BY <1>1, <2>2, <2>3 DEF VictimsWereSilent, TypeOK
  <2>. QED BY <2>2, <2>4, <2>5, <2>6, <2>7 DEF NeighbourInv, Pruning
<1>4. CASE CollectEnd
  <2>1. /\ UNCHANGED <<table, age, count, listed, todo, lag, victims, entering, delay, room, regrown>>
        /\ pc = "collect" /\ todo = {} /\ pc' = "erase"
    BY <1>4 DEF CollectEnd
  <2>. QED BY <1>1, <2>1
           DEF NeighbourInv, TypeOK, Finite, Announced, Visited, VictimsWereSilent, SilentFor, Pruning
<1>5. CASE \E a \in Addr : Erase(a)
  <2>1. PICK n \in Addr : Erase(n)
    BY <1>5
  <2>2. /\ UNCHANGED <<pc, count, listed, todo, lag, entering, delay, room, regrown>>
        /\ pc = "erase" /\ table' = table \ {n} /\ victims' = victims \ {n}
        /\ age' = [age EXCEPT ![n] = Oldest]
    BY <2>1 DEF Erase
  <2>3. Finite'
    BY <1>1, <2>2, FS_RemoveElement DEF Finite
  <2>4. Oldest \in 0 .. Oldest
    BY DEF Oldest
  <2>5. age' \in [Addr -> 0 .. Oldest]
    BY <1>1, <2>2, <2>4 DEF TypeOK
  <2>6. \A a \in Addr \ {n} : age'[a] = age[a] /\ SilentFor(a)' = SilentFor(a)
    BY <1>1, <2>2 DEF SilentFor, TypeOK
  <2>7. TypeOK' /\ Announced'
    BY <1>1, <2>2, <2>5 DEF TypeOK, Announced
  <2>8. Visited' /\ VictimsWereSilent'
    BY <1>1, <2>2, <2>6 DEF TypeOK, Visited, VictimsWereSilent
  <2>. QED BY <2>2, <2>3, <2>7, <2>8 DEF NeighbourInv, Pruning
<1>6. CASE EraseEnd
  <2>1. /\ UNCHANGED <<table, age, count, listed, todo, lag, victims, entering, delay, room, regrown>>
        /\ pc = "erase" /\ victims = {} /\ pc' = "sleep"
    BY <1>6 DEF EraseEnd
  <2>. QED BY <1>1, <2>1
           DEF NeighbourInv, TypeOK, Finite, Announced, Visited, VictimsWereSilent, SilentFor, Pruning
<1>. QED BY <1>2, <1>3, <1>4, <1>5, <1>6

LEMMA NeighbourStep == ASSUME NeighbourInv, [Next]_vars PROVE NeighbourInv'
<1>1. CASE Tick
  BY <1>1, TickKeeps
<1>2. CASE (\E a \in Addr : EnterNeighbour(a)) \/ StampNeighbour
  BY <1>2, EnterKeeps, StampKeeps
<1>3. CASE MaintStep
  BY <1>3, LinkStatusKeeps, PruneKeeps DEF MaintStep
<1>4. CASE UNCHANGED vars
  BY <1>4 DEF vars, NeighbourInv, TypeOK, Finite, Announced, Visited, VictimsWereSilent,
              SilentFor, Pruning
<1>. QED BY <1>1, <1>2, <1>3, <1>4 DEF Next

LEMMA NeighbourInvariant == Spec => []NeighbourInv
<1>1. Init => NeighbourInv
  BY NeighbourInit
<1>2. NeighbourInv /\ [Next]_vars => NeighbourInv'
  BY NeighbourStep
<1>. QED BY <1>1, <1>2, PTL DEF Spec

-----------------------------------------------------------------------------

(* Whoever is about to be erased had been silent for too long when the     *)
(* round began, or was heard during the round.                             *)
THEOREM VictimsAreSilent == Spec => []VictimsWereSilent
<1>1. NeighbourInv => VictimsWereSilent
  BY DEF NeighbourInv
<1>. QED BY <1>1, NeighbourInvariant, PTL

(* A round leaves nobody who had been silent for too long when it began,   *)
(* unless the map grew under it.                                           *)
THEOREM RoundsAreThorough == Spec => []RoundIsThorough
<1>1. NeighbourInv => RoundIsThorough
  BY DEF NeighbourInv, Visited, RoundIsThorough
<1>. QED BY <1>1, NeighbourInvariant, PTL

(* The receiver's length check accepts every link status: the count never  *)
(* exceeds the list, whatever the width of the count and whatever is       *)
(* entered meanwhile, as long as the map does not grow.                    *)
THEOREM LinkStatusIsAccepted == Spec => []LinkStatusIsLongEnough
<1>1. NeighbourInv => LinkStatusIsLongEnough
  <2>. SUFFICES ASSUME NeighbourInv, pc = "sent", ~regrown
                PROVE  Cardinality(listed) >= count
    BY DEF LinkStatusIsLongEnough
  <2>1. count <= Cardinality(listed)
    BY DEF NeighbourInv, Announced
  <2>2. Cardinality(listed) \in Nat /\ count \in Nat
    BY FS_CardinalityType, ConstantsAssumption DEF NeighbourInv, Finite, TypeOK
  <2>. QED BY <2>1, <2>2
<1>. QED BY <1>1, NeighbourInvariant, PTL

(* Every variable keeps its type. *)
THEOREM NeighboursTypeCorrect == Spec => []TypeOK
<1>1. NeighbourInv => TypeOK
  BY DEF NeighbourInv
<1>. QED BY <1>1, NeighbourInvariant, PTL

-----------------------------------------------------------------------------
(***************************************************************************)
(* The frames that are secured and sent.  SendInv is inductive.  Its core  *)
(* is the NWK mutex: one frame at most is on its way from its counter to   *)
(* the MAC, and everything that has left has a counter before that         *)
(* frame's, and before the next one.                                       *)
(***************************************************************************)
(* Where the counter is now, as a frame that takes it would say. *)
Now == [epoch |-> epoch, round |-> round, counter |-> counter]

OneSender == \A t, u \in Thread : stage[t] = "mac" /\ stage[u] = "mac" => t = u

LeftAreBehind == \A i \in DOMAIN left : Before(left[i].sent, Now)

HeldIsBetween ==
  \A t \in Thread : stage[t] = "mac" =>
    Before(frame[t], Now) /\ \A i \in DOMAIN left : Before(left[i].sent, frame[t])

(* A frame leaves in the epoch it took its counter in, or later. *)
LeftInTime == \A i \in DOMAIN left : left[i].sent.epoch <= left[i].at /\ left[i].at <= epoch

(* As long as a late frame is on its way, none has left. *)
LateIsFirst == \A t \in Thread : stage[t] = "mac" /\ frame[t].epoch < epoch => LateFrames(epoch) = {}

SendInv ==
  /\ SendingTypeOK
  /\ OneSender /\ LeftAreBehind /\ HeldIsBetween /\ CountersLeaveInOrder
  /\ LeftInTime /\ OneLateFrame /\ LateIsFirst

-----------------------------------------------------------------------------

(* Counters are ordered by epoch, then by round, then by value. *)
LEMMA BeforeIsTransitive ==
  ASSUME NEW f, NEW g, NEW h,
         f.epoch \in Nat, f.round \in Nat, f.counter \in Nat,
         g.epoch \in Nat, g.round \in Nat, g.counter \in Nat,
         h.epoch \in Nat, h.round \in Nat, h.counter \in Nat,
         Before(f, g), Before(g, h)
  PROVE  Before(f, h)
BY DEF Before

LEMMA FrameFields ==
  ASSUME NEW f \in Frame
  PROVE  f.epoch \in Nat /\ f.round \in Nat /\ f.counter \in Nat
BY DEF Frame

LEMMA NowFields ==
  ASSUME SendingTypeOK
  PROVE  Now.epoch \in Nat /\ Now.round \in Nat /\ Now.counter \in Nat
BY DEF SendingTypeOK, Now

(* What has left is a sequence of frames. *)
LEMMA LeftFrames ==
  ASSUME SendingTypeOK, NEW i \in DOMAIN left
  PROVE  left[i].sent \in Frame /\ left[i].at \in 0 .. MaxEpochs
<1>. DEFINE S == [sent : Frame, at : 0 .. MaxEpochs]
<1>1. left \in Seq(S)
  BY DEF SendingTypeOK
<1>2. left[i] \in S
  <2>. HIDE DEF S
  <2>. QED BY <1>1
<1>. QED BY <1>2

LEMMA SendInit == ASSUME SendingInit PROVE SendInv
<1>. USE SendingAssumption DEF SendingInit
<1>1. SendingTypeOK
  BY DEF SendingTypeOK, Frame, NoFrame
<1>2. left = <<>> /\ DOMAIN left = {} /\ \A t \in Thread : stage[t] # "mac"
  OBVIOUS
<1>. QED BY <1>1, <1>2 DEF SendInv, OneSender, LeftAreBehind, HeldIsBetween, CountersLeaveInOrder,
            LeftInTime, OneLateFrame, LateIsFirst, LateFrames

(* A new epoch: the counter starts again behind everything that was sent,  *)
(* and nothing has left in this epoch yet.                                 *)
LEMMA EpochKeeps ==
  ASSUME SendInv, SendingTypeOK', epoch < MaxEpochs, epoch' = epoch + 1, UNCHANGED left,
         \A t \in Thread : stage'[t] = "mac" => stage[t] = "mac" /\ frame'[t] = frame[t]
  PROVE  SendInv'
<1>. USE SendingAssumption DEF SendInv
<1>1. \A f \in Frame : Before(f, Now) => Before(f, Now')
  BY DEF SendingTypeOK, Frame, Before, Now
<1>2. \A t \in Thread : frame[t] \in Frame
  BY DEF SendingTypeOK
<1>3. OneSender' /\ CountersLeaveInOrder'
  BY DEF OneSender, CountersLeaveInOrder
<1>4. LeftAreBehind'
  BY <1>1, LeftFrames DEF LeftAreBehind
<1>5. HeldIsBetween'
  BY <1>1, <1>2 DEF HeldIsBetween
<1>6. LeftInTime'
  BY LeftFrames DEF LeftInTime, SendingTypeOK
<1>7. OneLateFrame'
  BY DEF OneLateFrame, LateFrames
<1>8. LateIsFirst'
  BY LeftFrames DEF LateIsFirst, LateFrames, LeftInTime, SendingTypeOK
<1>. QED BY <1>3, <1>4, <1>5, <1>6, <1>7, <1>8

LEMMA SetNetworkKeyKeeps ==
  ASSUME SendInv, NEW k \in NwkKey, SetNetworkKey(k)
  PROVE  SendInv'
<1>. USE SendingAssumption DEF SendInv, SetNetworkKey
<1>1. SendingTypeOK'
  BY DEF SendInv, SendingTypeOK
<1>. QED BY <1>1, EpochKeeps

LEMMA RestartKeeps == ASSUME SendInv, Restart PROVE SendInv'
<1>. USE SendingAssumption DEF SendInv, Restart
<1>1. SendingTypeOK'
  BY DEF SendInv, SendingTypeOK, Frame, NoFrame
<1>. QED BY <1>1, EpochKeeps

(* Steps that neither take a counter nor hand over a frame. *)
LEMMA QuietKeeps ==
  ASSUME SendInv, SendingTypeOK', UNCHANGED <<counter, epoch, round, frame, left>>,
         \A t \in Thread : stage'[t] = "mac" => stage[t] = "mac"
  PROVE  SendInv'
BY DEF SendInv, OneSender, LeftAreBehind, HeldIsBetween, CountersLeaveInOrder, LeftInTime,
       OneLateFrame, LateIsFirst, LateFrames, Now

(* A frame takes the counter, with the NWK mutex free until then. *)
LEMMA NwkEncryptKeeps ==
  ASSUME SendInv, NEW t \in Thread, NwkEncrypt(t)
  PROVE  SendInv'
<1>. USE SendingAssumption DEF SendInv, NwkEncrypt, TakeCounter, Goto
<1>. DEFINE f == [key |-> nwkKey, epoch |-> epoch, round |-> round, counter |-> counter]
<1>1. /\ counter \in 0 .. CounterRange - 1 /\ round \in 0 .. MaxRounds /\ CounterRange \in Nat
      /\ CounterRange > 1 /\ epoch \in Nat
  BY DEF SendingTypeOK
<1>2. \/ counter + 1 < CounterRange /\ counter' = counter + 1 /\ round' = round
      \/ counter + 1 = CounterRange /\ counter' = 0 /\ round' = round + 1 /\ round < MaxRounds
  <2>1. CASE counter + 1 < CounterRange
    <3>1. (counter + 1) % CounterRange = counter + 1
      BY <1>1, <2>1
    <3>. QED BY <1>1, <2>1, <3>1 DEF Increment
  <2>2. CASE counter + 1 = CounterRange
    <3>1. (counter + 1) % CounterRange = 0
      BY <1>1, <2>2
    <3>. QED BY <1>1, <2>2, <3>1 DEF Increment
  <2>. QED BY <1>1, <2>1, <2>2
<1>3. f \in Frame /\ frame' = [frame EXCEPT ![t] = f]
  BY <1>1 DEF SendingTypeOK, Frame
<1>4. SendingTypeOK'
  BY <1>1, <1>2, <1>3 DEF SendingTypeOK
<1>5. Before(f, Now')
  BY <1>1, <1>2 DEF Before, Now
<1>6. \A g \in Frame : Before(g, Now) => Before(g, Now') /\ Before(g, f)
  BY <1>1, <1>2 DEF Before, Now, Frame
<1>7. OneSender'
  BY DEF OneSender, NwkMutexFree, SendingTypeOK
<1>8. LeftAreBehind'
  BY <1>6, LeftFrames DEF LeftAreBehind
<1>9. HeldIsBetween'
  <2>1. \A u \in Thread : stage'[u] = "mac" => u = t
    BY DEF NwkMutexFree, SendingTypeOK
  <2>2. frame'[t] = f
    BY <1>3 DEF SendingTypeOK
  <2>3. \A i \in DOMAIN left : Before(left[i].sent, f)
    BY <1>6, LeftFrames DEF LeftAreBehind
  <2>. QED BY <1>5, <2>1, <2>2, <2>3 DEF HeldIsBetween
<1>10. CountersLeaveInOrder' /\ LeftInTime' /\ OneLateFrame'
  BY DEF CountersLeaveInOrder, LeftInTime, OneLateFrame, LateFrames
<1>11. LateIsFirst'
  <2>1. \A u \in Thread : stage'[u] = "mac" => frame'[u].epoch = epoch'
    BY <1>3 DEF NwkMutexFree, SendingTypeOK
  <2>. QED BY <1>1, <2>1 DEF LateIsFirst
<1>. QED BY <1>4, <1>7, <1>8, <1>9, <1>10, <1>11

(* The MAC refuses the frame. *)
LEMMA RefusedKeeps ==
  ASSUME SendInv, NEW t \in Thread, MacSend(t), UNCHANGED left
  PROVE  SendInv'
<1>. USE SendingAssumption DEF SendInv, MacSend, Goto, keys
<1>1. SendingTypeOK'
  BY DEF SendingTypeOK, Frame, NoFrame
<1>2. \A u \in Thread : stage'[u] = "mac" => u # t /\ stage[u] = "mac" /\ frame'[u] = frame[u]
  BY DEF SendingTypeOK
<1>3. Now' = Now
  BY DEF Now
<1>4. OneSender' /\ LeftAreBehind' /\ HeldIsBetween' /\ CountersLeaveInOrder'
  BY <1>2, <1>3 DEF OneSender, LeftAreBehind, HeldIsBetween, CountersLeaveInOrder
<1>5. LeftInTime' /\ OneLateFrame' /\ LateIsFirst'
  BY <1>2 DEF LeftInTime, OneLateFrame, LateIsFirst, LateFrames
<1>. QED BY <1>1, <1>4, <1>5

(* The MAC takes the frame: it is the only one on its way, so it comes     *)
(* after all that have left and before the next.                           *)
LEMMA TakenKeeps ==
  ASSUME SendInv, NEW t \in Thread, MacSend(t),
         left' = Append(left, [sent |-> frame[t], at |-> epoch])
  PROVE  SendInv'
<1>. USE SendingAssumption DEF SendInv, MacSend, Goto, keys
<1>. DEFINE new == [sent |-> frame[t], at |-> epoch]
<1>0. frame[t] \in Frame /\ epoch \in 0 .. MaxEpochs /\ Len(left) \in Nat
  BY DEF SendingTypeOK
<1>1. SendingTypeOK'
  <2>1. new \in [sent : Frame, at : 0 .. MaxEpochs]
    BY <1>0
  <2>2. left' \in Seq([sent : Frame, at : 0 .. MaxEpochs])
    BY <2>1 DEF SendingTypeOK
  <2>3. frame' \in [Thread -> Frame] /\ stage' \in [Thread -> {"idle", "nwk", "mac"}]
    BY DEF SendingTypeOK, Frame, NoFrame
  <2>. QED BY <2>2, <2>3 DEF SendingTypeOK
<1>2. \A u \in Thread : stage'[u] # "mac"
  BY DEF SendingTypeOK, OneSender
<1>3. /\ DOMAIN left = 1 .. Len(left) /\ DOMAIN left' = 1 .. Len(left) + 1
      /\ \A i \in DOMAIN left : left'[i] = left[i]
      /\ left'[Len(left) + 1] = new
  BY DEF SendingTypeOK
<1>4. Now' = Now /\ new.sent = frame[t] /\ new.at = epoch
  BY DEF Now
<1>5. Before(frame[t], Now) /\ \A i \in DOMAIN left : Before(left[i].sent, frame[t])
  BY DEF HeldIsBetween
<1>6. OneSender' /\ HeldIsBetween' /\ LateIsFirst'
  BY <1>2 DEF OneSender, HeldIsBetween, LateIsFirst
<1>7. \A i \in DOMAIN left' : i \in DOMAIN left \/ i = Len(left) + 1
  <2>. DEFINE n == Len(left)
  <2>1. n \in Nat
    BY <1>0
  <2>2. \A i \in 1 .. n + 1 : i \in 1 .. n \/ i = n + 1
    BY ONLY <2>1
  <2>. QED BY <1>3, <2>2
<1>8. LeftAreBehind'
  BY <1>3, <1>4, <1>5, <1>7 DEF LeftAreBehind
<1>9. CountersLeaveInOrder'
  <2>. SUFFICES ASSUME NEW i \in DOMAIN left', NEW j \in DOMAIN left', i < j
                PROVE  Before(left'[i].sent, left'[j].sent)
    BY DEF CountersLeaveInOrder
  <2>1. i \in DOMAIN left
    <3>. DEFINE n == Len(left)
    <3>1. n \in Nat /\ i \in 1 .. n + 1 /\ j \in 1 .. n + 1 /\ i < j
      BY <1>0, <1>3
    <3>2. i \in 1 .. n
      BY ONLY <3>1
    <3>. QED BY <1>3, <3>2
  <2>2. CASE j \in DOMAIN left
    BY <1>3, <2>1, <2>2 DEF CountersLeaveInOrder
  <2>3. CASE j = Len(left) + 1
    BY <1>3, <1>4, <1>5, <2>1, <2>3
  <2>. QED BY <1>7, <2>2, <2>3
<1>10. LeftInTime'
  <2>1. frame[t].epoch <= epoch
    BY <1>0, <1>5, FrameFields DEF Before, Now, SendingTypeOK
  <2>. SUFFICES ASSUME NEW i \in DOMAIN left'
                PROVE  left'[i].sent.epoch <= left'[i].at /\ left'[i].at <= epoch'
    BY DEF LeftInTime
  <2>2. CASE i \in DOMAIN left
    BY <1>3, <2>2 DEF LeftInTime
  <2>3. CASE i = Len(left) + 1
    <3>1. left'[i].sent = frame[t] /\ left'[i].at = epoch
      BY <1>3, <1>4, <2>3
    <3>2. epoch' = epoch /\ epoch <= epoch
      BY <1>0
    <3>. QED BY <2>1, <3>1, <3>2
  <2>. QED BY <1>7, <2>2, <2>3
<1>11. OneLateFrame'
  <2>. SUFFICES ASSUME NEW e \in 1 .. MaxEpochs,
                       NEW i \in LateFrames(e)', NEW j \in LateFrames(e)', i # j
                PROVE  FALSE
    BY DEF OneLateFrame
  <2>1. \A k \in LateFrames(e)' \cap DOMAIN left : k \in LateFrames(e)
    BY <1>3 DEF LateFrames
  <2>2. i \in DOMAIN left' /\ j \in DOMAIN left'
    BY DEF LateFrames
  <2>3. CASE i \in DOMAIN left /\ j \in DOMAIN left
    BY <2>1, <2>3 DEF OneLateFrame
  <2>4. CASE Len(left) + 1 \in {i, j}
    <3>1. PICK k \in LateFrames(e)' : k \in DOMAIN left
      BY <1>7, <2>2, <2>4
    <3>2. Len(left) + 1 \in LateFrames(e)'
      BY <2>4
    <3>3. e = epoch /\ frame[t].epoch < e
      BY <1>3, <1>4, <3>2 DEF LateFrames
    <3>. QED BY <2>1, <3>1, <3>3 DEF LateIsFirst
  <2>. QED BY <1>7, <2>2, <2>3, <2>4
<1>. QED BY <1>1, <1>6, <1>8, <1>9, <1>10, <1>11

LEMMA SendStep == ASSUME SendInv, [SendingNext]_sendingVars PROVE SendInv'
<1>1. ASSUME NEW k \in NwkKey, SetNetworkKey(k) PROVE SendInv'
  BY <1>1, SetNetworkKeyKeeps
<1>2. ASSUME NEW d \in Device, SetLinkKey(d) PROVE SendInv'
  <2>1. SendingTypeOK'
    BY <1>2 DEF SendInv, SendingTypeOK, SetLinkKey
  <2>. QED BY <1>2, <2>1, QuietKeeps DEF SetLinkKey
<1>3. CASE Restart
  BY <1>3, RestartKeeps
<1>4. ASSUME NEW t \in Thread, SendPlain(t) \/ SendSecured(t) \/ NotSent(t) PROVE SendInv'
  <2>. USE <1>4 DEF SendPlain, SendSecured, NotSent, Goto, keys
  <2>1. SendingTypeOK'
    BY DEF SendInv, SendingTypeOK
  <2>2. \A u \in Thread : stage'[u] = "mac" => stage[u] = "mac"
    BY DEF SendInv, SendingTypeOK
  <2>. QED BY <2>1, <2>2, QuietKeeps
<1>5. ASSUME NEW t \in Thread, NwkEncrypt(t) PROVE SendInv'
  BY <1>5, NwkEncryptKeeps
<1>6. ASSUME NEW t \in Thread, MacSend(t) PROVE SendInv'
  BY <1>6, RefusedKeeps, TakenKeeps DEF MacSend
<1>7. CASE UNCHANGED sendingVars
  <2>1. SendingTypeOK'
    BY <1>7 DEF SendInv, SendingTypeOK, sendingVars, keys
  <2>. QED BY <1>7, <2>1, QuietKeeps DEF sendingVars, keys
<1>. QED BY <1>1, <1>2, <1>3, <1>4, <1>5, <1>6, <1>7 DEF SendingNext

LEMMA SendInvariant == SendingSpec => []SendInv
<1>1. SendingInit => SendInv
  BY SendInit
<1>2. SendInv /\ [SendingNext]_sendingVars => SendInv'
  BY SendStep
<1>. QED BY <1>1, <1>2, PTL DEF SendingSpec

-----------------------------------------------------------------------------

(* Every variable has its type: the counter stays within its width.        *)
THEOREM SendingTypeCorrect == SendingSpec => []SendingTypeOK
<1>1. SendInv => SendingTypeOK
  BY DEF SendInv
<1>. QED BY <1>1, SendInvariant, PTL

(* However many threads send, and however the key is set and the process   *)
(* restarted meanwhile, frames are handed to the MAC in the order of their *)
(* counters, so that no counter leaves twice between two settings of a     *)
(* key and two wraps.                                                      *)
THEOREM CountersAreInOrder == SendingSpec => []CountersLeaveInOrder
<1>1. SendInv => CountersLeaveInOrder
  BY DEF SendInv
<1>. QED BY <1>1, SendInvariant, PTL

(* setNetworkKey, which does not wait for the NWK mutex, lets at most one  *)
(* frame leave under the key before.                                       *)
THEOREM OneFrameIsLate == SendingSpec => []OneLateFrame
<1>1. SendInv => OneLateFrame
  BY DEF SendInv
<1>. QED BY <1>1, SendInvariant, PTL
=============================================================================
