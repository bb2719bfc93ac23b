-------------------------- MODULE MCZclAttributes --------------------------
(* Model checking ZclAttributes: two endpoints with one cluster in common, *)
(* and the first of them again, with other attributes and handlers.        *)
EXTENDS ZclAttributes, TLC

CONSTANTS onOff, level, v0, v1, h0, h1

Make(e, id, s, f, p) == [endpoint |-> e, cluster |-> id, server |-> s, attributes |-> f, handler |-> p]
Attr(x, may) == [value |-> x, writable |-> may]

MCRegistrable ==
  {<<Make(1, 6, TRUE, onOff :> Attr(v0, TRUE), h0), Make(1, 8, FALSE, level :> Attr(v0, FALSE), h1)>>,
   <<Make(1, 8, TRUE, level :> Attr(v1, TRUE), NoHandler), Make(1, 6, TRUE, onOff :> Attr(v1, TRUE), h1)>>,
   <<Make(2, 6, TRUE, onOff :> Attr(v0, FALSE) @@ level :> Attr(v1, TRUE), NoHandler)>>}

MCKey ==
  {[endpoint |-> k[1], cluster |-> k[2], attr |-> k[3]] :
     k \in {<<1, 6, onOff>>, <<1, 8, level>>, <<2, 6, onOff>>, <<2, 6, level>>, <<2, 8, level>>}}

MCFrame == {<<1, 5>>, <<0, 5, 2>>, <<9, 5, 2, 7>>}
=============================================================================
