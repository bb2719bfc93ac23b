--------------------------- MODULE NwkNeighbours ---------------------------
(***************************************************************************)
(* ZigbeeNwk's neighbour table.  The rx thread enters every node it hears  *)
(* (updateNeighbor); the maintenance thread lists the table in a link      *)
(* status and prunes it.  Neither takes m_mutex, so each gets in between   *)
(* any two accesses of the other.                                          *)
(*                                                                         *)
(* The table is an unordered_map: an entry made while a loop runs may or   *)
(* may not be visited, and one that makes the map grow puts the entries    *)
(* into a new order, so the loop may miss some and visit others twice.     *)
(*                                                                         *)
(* Time is counted in ticks.  Only differences of times decide anything,   *)
(* so the table keeps the age of an entry, not the time of lastHeard, and  *)
(* stops counting where no comparison can change any more.                 *)
(***************************************************************************)
EXTENDS Integers, FiniteSets

CONSTANTS
  Addr,        \* short addresses of neighbours
  Stale,       \* STALE_TIMEOUT, in ticks
  CountRange,  \* values of the neighbour count of a link status: 256
  MaxLag,      \* ticks that pass while the thread prunes (bounds the model)
  MaxDelay,    \* ticks that pass inside updateNeighbor
  FirstRoom    \* entries the map takes before it grows

ASSUME ConstantsAssumption ==
  /\ Stale \in Nat
  /\ CountRange \in Nat \ {0}
  /\ MaxLag \in Nat
  /\ MaxDelay \in 0 .. Stale
  /\ FirstRoom \in Nat

(* The age of an entry that has not been given a time: lastHeard is zero,  *)
(* when the host started.                                                  *)
Oldest == Stale + MaxLag + 1

VARIABLES
  table,     \* the addresses in m_neighborTable
  age,       \* ticks since lastHeard of each
  pc,        \* where the maintenance thread is
  count,     \* nbrCount
  listed,    \* the neighbours put into the link status
  todo,      \* what a loop over the table has yet to visit
  lag,       \* ticks since pruneNeighbors read the clock
  victims,   \* toRemove
  entering,  \* the entry the rx thread has made or found, but not written to yet
  delay,     \* ticks since updateNeighbor read the clock
  room,      \* entries the map takes before it grows again
  regrown    \* the map has grown under the loop

vars == <<table, age, pc, count, listed, todo, lag, victims, entering, delay, room, regrown>>

Init ==
  /\ table = {} /\ age = [a \in Addr |-> Oldest]
  /\ pc = "sleep"
  /\ count = 0 /\ listed = {} /\ todo = {} /\ lag = 0 /\ victims = {}
  /\ entering = {} /\ delay = 0 /\ room = FirstRoom /\ regrown = FALSE

Pruning == pc \in {"collect", "erase"}

Tick ==
  /\ Pruning => lag < MaxLag
  /\ entering # {} => delay < MaxDelay
  /\ lag' = IF Pruning THEN lag + 1 ELSE lag
  /\ delay' = IF entering # {} THEN delay + 1 ELSE delay
  /\ age' = [a \in Addr |-> IF age[a] < Oldest THEN age[a] + 1 ELSE age[a]]
  /\ UNCHANGED <<table, pc, count, listed, todo, victims, entering, room, regrown>>

-----------------------------------------------------------------------------
(* updateNeighbor, on the rx thread                                        *)

Looping == pc \in {"list", "collect"}
Grows(a) == a \notin table /\ Cardinality(table) = room

(* What a loop may have to visit when the entry of a has been made. *)
Upcoming(a) ==
  CASE ~Looping \/ a \in table -> {todo}
    [] Looping /\ Grows(a) -> SUBSET (table \cup {a})
    [] OTHER -> {todo, todo \cup {a}}

(* The clock is read, and m_neighborTable[shortAddr] finds the entry, or   *)
(* makes one without a time.                                               *)
EnterNeighbour(a) ==
  /\ entering = {}
  /\ entering' = {a}
  /\ delay' = 0
  /\ table' = table \cup {a}
  /\ todo' \in Upcoming(a)
  /\ room' = IF Grows(a) THEN 2 * room + 1 ELSE room
  /\ regrown' = (regrown \/ (Looping /\ Grows(a)))
  /\ UNCHANGED <<age, pc, count, listed, lag, victims>>

(* It is given that time.  If it has been pruned meanwhile, the code       *)
(* writes through a reference to an entry that is gone: nothing here.      *)
StampNeighbour ==
  /\ entering # {}
  /\ age' = [a \in Addr |-> IF a \in entering \cap table THEN delay ELSE age[a]]
  /\ entering' = {}
  /\ delay' = 0
  /\ UNCHANGED <<table, pc, count, listed, todo, lag, victims, room, regrown>>

-----------------------------------------------------------------------------
(* sendLinkStatus *)

(* Mutant: the size is not cut. *)
CountNeighboursUncut ==
  /\ pc = "sleep"
  /\ count' = Cardinality(table)
  /\ listed' = {}
  /\ todo' = table
  /\ regrown' = FALSE
  /\ pc' = "list"
  /\ UNCHANGED <<table, age, lag, victims, entering, delay, room>>

(* Mutant: one neighbour too many is announced. *)
CountNeighboursOneMore ==
  /\ pc = "sleep"
  /\ count' = (Cardinality(table) + 1) % CountRange
  /\ listed' = {}
  /\ todo' = table
  /\ regrown' = FALSE
  /\ pc' = "list"
  /\ UNCHANGED <<table, age, lag, victims, entering, delay, room>>

(* After the sleep, however long it took: the size, cut to 8 bits. *)
CountNeighbours ==
  /\ pc = "sleep"
  /\ count' = Cardinality(table) % CountRange
  /\ listed' = {}
  /\ todo' = table
  /\ regrown' = FALSE
  /\ pc' = "list"
  /\ UNCHANGED <<table, age, lag, victims, entering, delay, room>>

ListNeighbour(a) ==
  /\ pc = "list"
  /\ a \in todo
  /\ listed' = listed \cup {a}
  /\ todo' = todo \ {a}
  /\ UNCHANGED <<table, age, pc, count, lag, victims, entering, delay, room, regrown>>

SendLinkStatus ==
  /\ pc = "list"
  /\ todo = {}
  /\ pc' = "sent"
  /\ UNCHANGED <<table, age, count, listed, todo, lag, victims, entering, delay, room, regrown>>

-----------------------------------------------------------------------------
(* pruneNeighbors *)

(* Mutant: toRemove is not empty to begin with. *)
ReadClockKeepsVictims ==
  /\ pc = "sent"
  /\ lag' = 0
  /\ todo' = table
  /\ victims' = listed
  /\ regrown' = FALSE
  /\ pc' = "collect"
  /\ UNCHANGED <<table, age, count, listed, entering, delay, room>>

ReadClock ==
  /\ pc = "sent"
  /\ lag' = 0
  /\ todo' = table
  /\ victims' = {}
  /\ regrown' = FALSE
  /\ pc' = "collect"
  /\ UNCHANGED <<table, age, count, listed, entering, delay, room>>

(* now - entry.lastHeard, with the time read when the round began *)
SilentFor(a) == age[a] - lag

(* Mutant: collected one tick too late. *)
CollectSlowly(a) ==
  /\ pc = "collect"
  /\ a \in todo
  /\ todo' = todo \ {a}
  /\ victims' = IF SilentFor(a) > Stale + 1 THEN victims \cup {a} ELSE victims
  /\ UNCHANGED <<table, age, pc, count, listed, lag, entering, delay, room, regrown>>

Collect(a) ==
  /\ pc = "collect"
  /\ a \in todo
  /\ todo' = todo \ {a}
  /\ victims' = IF SilentFor(a) > Stale THEN victims \cup {a} ELSE victims
  /\ UNCHANGED <<table, age, pc, count, listed, lag, entering, delay, room, regrown>>

CollectEnd ==
  /\ pc = "collect"
  /\ todo = {}
  /\ pc' = "erase"
  /\ UNCHANGED <<table, age, count, listed, todo, lag, victims, entering, delay, room, regrown>>

(* Mutant: the entry is not erased. *)
EraseForgets(a) ==
  /\ pc = "erase"
  /\ a \in victims
  /\ victims' = victims \ {a}
  /\ UNCHANGED <<table, age, pc, count, listed, todo, lag, entering, delay, room, regrown>>

Erase(a) ==
  /\ pc = "erase"
  /\ a \in victims
  /\ table' = table \ {a}
  /\ age' = [age EXCEPT ![a] = Oldest]
  /\ victims' = victims \ {a}
  /\ UNCHANGED <<pc, count, listed, todo, lag, entering, delay, room, regrown>>

EraseEnd ==
  /\ pc = "erase"
  /\ victims = {}
  /\ pc' = "sleep"
  /\ UNCHANGED <<table, age, count, listed, todo, lag, victims, entering, delay, room, regrown>>

-----------------------------------------------------------------------------

MaintStep ==
  \/ CountNeighbours \/ (\E a \in Addr : ListNeighbour(a)) \/ SendLinkStatus
  \/ ReadClock \/ (\E a \in Addr : Collect(a)) \/ CollectEnd
  \/ (\E a \in Addr : Erase(a)) \/ EraseEnd

Next == Tick \/ (\E a \in Addr : EnterNeighbour(a)) \/ StampNeighbour \/ MaintStep

Spec == Init /\ [][Next]_vars

(* The maintenance thread wakes up and goes on; nobody has to be heard. *)
FairSpec == Spec /\ WF_vars(MaintStep)

-----------------------------------------------------------------------------
(* Correctness.                                                            *)

(* Every variable has its type. *)
TypeOK ==
  /\ table \subseteq Addr
  /\ age \in [Addr -> 0 .. Oldest]
  /\ pc \in {"sleep", "list", "sent", "collect", "erase"}
  /\ count \in 0 .. CountRange - 1
  /\ listed \subseteq Addr
  /\ todo \subseteq Addr
  /\ lag \in 0 .. MaxLag
  /\ victims \subseteq Addr
  /\ entering \subseteq Addr
  /\ delay \in 0 .. MaxDelay
  /\ room \in Nat
  /\ regrown \in BOOLEAN

(* A neighbour about to be erased had been silent for too long when the    *)
(* round began, unless it has been heard during the round, or in a call of *)
(* updateNeighbor that the round overtook.                                 *)
VictimsWereSilent ==
  \A a \in victims : SilentFor(a) > Stale \/ age[a] <= lag + MaxDelay

(* A round leaves nobody in the table who had been silent for too long     *)
(* when it began, unless the map grew under it.                            *)
RoundIsThorough ==
  pc = "erase" /\ victims = {} /\ ~regrown =>
    \A a \in table \ entering : SilentFor(a) <= Stale

(* A link status lists at least as many neighbours as it announces, though *)
(* the table changes while it is put together: handleLinkStatusFrame       *)
(* accepts it, unless the map grew.                                        *)
LinkStatusIsLongEnough == pc = "sent" /\ ~regrown => Cardinality(listed) >= count

(* A neighbour that stays silent is pruned. *)
SilentNeighbourGoes ==
  \A a \in Addr : (a \in table /\ age[a] > Stale) ~> (a \notin table \/ age[a] <= Stale)
=============================================================================
