--------------------------- MODULE MCApplication ---------------------------
(* Model checking ZdoServer and ZclAttributes, the two parts of the stack  *)
(* that an application fills.  They share no variable: in a behaviour one  *)
(* of them moves, and the other stays as it started.                       *)
EXTENDS MCZdoServer, MCZclAttributes

VARIABLE moving

MCVars == <<vars, attributesVars, moving>>

MCInit == Init /\ AttributesInit /\ moving \in {"zdo", "zcl"}

ZdoMoves ==
  /\ moving = "zdo"
  /\ Next
  /\ UNCHANGED <<attributesVars, moving>>

ZclMoves ==
  /\ moving = "zcl"
  /\ AttributesNext
  /\ UNCHANGED <<vars, moving>>

MCSpec == MCInit /\ [][ZdoMoves \/ ZclMoves]_MCVars
=============================================================================
