---------------------------- MODULE MCZdoServer ----------------------------
(* Model checking ZdoServer: two endpoints, one of which may be replaced,  *)
(* and a request of every kind, for this node and for another.             *)
EXTENDS ZdoServer

MCExt   == <<8, 7, 6, 5, 4, 3, 2, 1>>
Other   == <<1, 7, 6, 5, 4, 3, 2, 1>>
Profile == 260

MCNodeDesc  == {<<0, 52>>, <<2, 17>>}
MCPowerDesc == {<<1, 2, 3, 4>>}

MCDescriptor ==
  {[endpoint |-> 1, profile |-> Profile, in |-> <<6, 1026>>, out |-> <<>>],
   [endpoint |-> 1, profile |-> Profile, in |-> <<8>>, out |-> <<6, 25, 3>>],
   [endpoint |-> 2, profile |-> Profile + 1, in |-> <<6>>, out |-> <<25>>],
   [endpoint |-> 2, profile |-> Profile, in |-> <<1026>>, out |-> <<>>]}

ForNode(a) ==
  {<<2, Field(a)>>, <<3, Field(a)>>, <<4, Field(a) \o <<1>>>>, <<4, Field(a) \o <<9>>>>, <<5, Field(a)>>,
   <<1, Field(a) \o <<1, 3>>>>,
   <<6, Field(a) \o Field(Profile) \o <<1>> \o Field(1026) \o <<0>>>>}

Queries ==
  {<<6, Field(NwkAddr) \o Field(Profile) \o <<0, 0>>>>,
   <<6, Field(NwkAddr) \o Field(Profile) \o <<2>> \o Field(6) \o Field(8) \o <<1>> \o Field(25)>>}

MCWhole ==
  {[dstEp |-> 0, src |-> 7, cluster |-> m[1], payload |-> m[2]] :
     m \in ForNode(NwkAddr) \cup ForNode(NwkAddr + 1) \cup Queries
       \cup {<<0, MCExt \o <<1, 3>>>>, <<0, Other \o <<1, 3>>>>,
             <<33, <<1>>>>, <<34, <<1>>>>, <<54, <<60, 0>>>>, <<19, <<1>>>>, <<49, <<0>>>>}}
  \cup {[dstEp |-> 1, src |-> 7, cluster |-> 5, payload |-> Field(NwkAddr)]}
=============================================================================
