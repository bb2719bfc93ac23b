--------------------------- MODULE ZclAttributes ---------------------------
(***************************************************************************)
(* ZigbeeZcl: the endpoints that the application registers, the attributes *)
(* it reads and writes, and the commands that are handed to the handlers   *)
(* of clusters.  Every loop of the class goes through the endpoints and    *)
(* through the clusters of each, so m_endpoints is one sequence of         *)
(* clusters here, each with the id of its endpoint.                        *)
(*                                                                         *)
(* Nothing keeps an endpoint, or a cluster, from being registered twice.   *)
(***************************************************************************)
EXTENDS Integers, Sequences

CONSTANTS
  EndpointId, ClusterId, AttrId, Value,
  Key,         \* the attributes that are asked for
  Missing,     \* no value
  Handler,     \* command handlers
  NoHandler,   \* an empty std::function
  Registrable, \* the endpoints that may be registered, each its clusters in order
  Frame,       \* the ZCL frames that arrive
  MaxClusters  \* bounds the model

Attributes == UNION {[S -> [value : Value, writable : BOOLEAN]] : S \in SUBSET AttrId}
Cluster ==
  [endpoint : EndpointId, cluster : ClusterId, server : BOOLEAN,
   attributes : Attributes, handler : Handler \cup {NoHandler}]

ASSUME AttributesAssumption ==
  /\ Key \subseteq [endpoint : EndpointId, cluster : ClusterId, attr : AttrId]
  /\ Missing \notin Value
  /\ NoHandler \notin Handler
  /\ Registrable \subseteq Seq(Cluster)
  /\ Frame \subseteq Seq(0 .. 255)
  /\ MaxClusters \in Nat

VARIABLES
  clusters,  \* m_endpoints
  result     \* the call that was made last, and what came of it

attributesVars == <<clusters, result>>

NoResult == [op |-> "none"]

AttributesInit == clusters = <<>> /\ result = NoResult

-----------------------------------------------------------------------------

Has(c, k) == c.endpoint = k.endpoint /\ c.cluster = k.cluster /\ k.attr \in DOMAIN c.attributes

Holders(k)     == {i \in DOMAIN clusters : Has(clusters[i], k)}
Writables(k)   == {i \in Holders(k) : clusters[i].attributes[k.attr].writable}
Servers(id)    == {i \in DOMAIN clusters : clusters[i].cluster = id /\ clusters[i].server}

FirstOf(S) == CHOOSE i \in S : \A j \in S : i <= j

Reads(k) == IF Holders(k) = {} THEN Missing ELSE clusters[FirstOf(Holders(k))].attributes[k.attr].value

(* Mutant: the newest endpoint comes first. *)
RegisterInFront(e) ==
  /\ Len(clusters) + Len(e) <= MaxClusters
  /\ clusters' = e \o clusters
  /\ result' = NoResult

RegisterEndpoint(e) ==
  /\ Len(clusters) + Len(e) <= MaxClusters
  /\ clusters' = clusters \o e
  /\ result' = NoResult

ReadAttribute(k) ==
  /\ result' = [op |-> "read", key |-> k, value |-> Reads(k)]
  /\ UNCHANGED clusters

(* Mutant: the loop does not stop at the first one it finds. *)
WriteLast(k, v) ==
  LET S == Writables(k)
      last == CHOOSE i \in S : \A j \in S : j <= i
  IN  /\ clusters' = IF S = {} THEN clusters
                     ELSE [clusters EXCEPT ![last].attributes[k.attr].value = v]
      /\ result' = [op |-> "write", key |-> k, value |-> v, ok |-> S # {}]

WriteAttribute(k, v) ==
  LET S == Writables(k)
  IN  /\ clusters' = IF S = {} THEN clusters
                     ELSE [clusters EXCEPT ![FirstOf(S)].attributes[k.attr].value = v]
      /\ result' = [op |-> "write", key |-> k, value |-> v, ok |-> S # {}]

(* Who handles a cluster's commands; no endpoint is asked for. *)
HandlerOf(id) == IF Servers(id) = {} THEN NoHandler ELSE clusters[FirstOf(Servers(id))].handler

ClusterSpecific(f) == (f[1] \div 8) % 2 = 1

Command(id, f) ==
  [op |-> "command", cluster |-> id, handler |-> HandlerOf(id), command |-> f[3], payload |-> SubSeq(f, 4, Len(f))]

(* Mutant: it is not asked whether there is a handler. *)
HandleUnasked(id, f) ==
  /\ result' = IF Len(f) >= 3 /\ ClusterSpecific(f) THEN Command(id, f) ELSE NoResult
  /\ UNCHANGED clusters

(* Standard commands read and write nothing. *)
HandleApsFrame(id, f) ==
  /\ result' = IF Len(f) >= 3 /\ ClusterSpecific(f) /\ HandlerOf(id) # NoHandler
               THEN Command(id, f) ELSE NoResult
  /\ UNCHANGED clusters

AttributesNext ==
  \/ \E e \in Registrable : RegisterEndpoint(e)
  \/ \E k \in Key : ReadAttribute(k) \/ \E v \in Value : WriteAttribute(k, v)
  \/ \E id \in ClusterId, f \in Frame : HandleApsFrame(id, f)

AttributesSpec == AttributesInit /\ [][AttributesNext]_attributesVars

-----------------------------------------------------------------------------
(* Correctness.                                                            *)

Result ==
  {NoResult}
  \cup [op : {"read"}, key : Key, value : Value \cup {Missing}]
  \cup [op : {"write"}, key : Key, value : Value, ok : BOOLEAN]
  \cup [op : {"command"}, cluster : ClusterId, handler : Handler, command : 0 .. 255, payload : Seq(0 .. 255)]

(* Every variable has its type: no handler is called that is not there,    *)
(* and no byte is read past a frame's end.                                 *)
AttributesTypeOK == clusters \in Seq(Cluster) /\ result \in Result

(* The attributes on whose being writable all endpoints that are ever      *)
(* registered agree, and those of them that are.                           *)
Described(k) == {c \in UNION {{e[i] : i \in DOMAIN e} : e \in Registrable} : Has(c, k)}
Settled ==
  {k \in Key : \A c, d \in Described(k) : c.attributes[k.attr].writable = d.attributes[k.attr].writable}
SettledWritable == {k \in Settled : \A c \in Described(k) : c.attributes[k.attr].writable}

Store == INSTANCE AttributeStore WITH
  Key <- Settled, Writable <- SettledWritable,
  store <- [k \in Settled |-> Reads(k)],
  result <- IF result.op \in {"read", "write"} /\ result.key \in Settled THEN result ELSE NoResult

(* Of those attributes the clusters are a store: registering an endpoint   *)
(* again does not disturb what was written, and what was written is what   *)
(* is read, from wherever in the list.                                     *)
IsStore == Store!Spec

(* Once a cluster's commands have a handler they keep it, whatever is      *)
(* registered afterwards or written.                                       *)
HandlersStay == [][\A id \in ClusterId : HandlerOf(id) # NoHandler => HandlerOf(id)' = HandlerOf(id)]_attributesVars
=============================================================================
