---------------------------- MODULE MCNwkFrames ----------------------------
(* Model checking NwkFrames: a neighbour and a node behind it, addresses   *)
(* with two bytes, routes of up to two hops.                               *)
EXTENDS NwkFrames

Near == 4
Far  == 1027

MCOwn  == 0
MCDest == {Near, Far}
MCPath == {<<Near>>, <<Near, Far>>, <<Far, Near>>}
MCData ==
  {[secure |-> FALSE, dstEp |-> 1, cluster |-> 1030, srcEp |-> 2, payload |-> <<>>],
   [secure |-> TRUE, dstEp |-> 0, cluster |-> 4, srcEp |-> 0, payload |-> <<4, 1>>]}
=============================================================================
