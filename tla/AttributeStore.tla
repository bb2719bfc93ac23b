--------------------------- MODULE AttributeStore ---------------------------
(***************************************************************************)
(* What ZigbeeZcl's attributes promise the application: a store in which   *)
(* an attribute keeps the value it was first registered with until a       *)
(* write, and in which a read returns what was last written.  A write of a *)
(* read-only attribute, or of one that is not there, changes nothing.      *)
(***************************************************************************)
CONSTANTS
  Key,       \* the attributes, each of an endpoint and a cluster
  Value,
  Missing,   \* the value of an attribute that is not there
  Writable   \* the attributes that may be written

VARIABLES
  store,     \* the value of every attribute
  result     \* what the last call returned, if it was a read or a write

NoResult == [op |-> "none"]

Init == store = [k \in Key |-> Missing] /\ result = NoResult

(* More attributes may be there afterwards. *)
Register ==
  /\ store' \in [Key -> Value \cup {Missing}]
  /\ \A k \in Key : store[k] # Missing => store'[k] = store[k]
  /\ result' = NoResult

Read(k) ==
  /\ result' = [op |-> "read", key |-> k, value |-> store[k]]
  /\ UNCHANGED store

Write(k, v) ==
  /\ k \in Writable /\ store[k] # Missing
  /\ store' = [store EXCEPT ![k] = v]
  /\ result' = [op |-> "write", key |-> k, value |-> v, ok |-> TRUE]

Refuse(k, v) ==
  /\ k \notin Writable \/ store[k] = Missing
  /\ result' = [op |-> "write", key |-> k, value |-> v, ok |-> FALSE]
  /\ UNCHANGED store

Forget == result' = NoResult /\ UNCHANGED store

Next ==
  \/ Register
  \/ \E k \in Key : Read(k) \/ \E v \in Value : Write(k, v) \/ Refuse(k, v)
  \/ Forget

Spec == Init /\ [][Next]_<<store, result>>
=============================================================================
