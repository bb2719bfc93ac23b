------------------------------- MODULE MCNwk -------------------------------
(* Model checking NwkNeighbours and SecureSending, the two parts of NWK    *)
(* that share no variable: in a behaviour one of them moves, and the other *)
(* stays as it started.                                                    *)
EXTENDS NwkNeighbours, SecureSending

VARIABLE moving

MCVars == <<vars, sendingVars, moving>>

MCInit == Init /\ SendingInit /\ moving \in {"neighbours", "sending"}

NeighboursMove ==
  /\ moving = "neighbours"
  /\ Next
  /\ UNCHANGED <<sendingVars, moving>>

SendingMoves ==
  /\ moving = "sending"
  /\ SendingNext
  /\ UNCHANGED <<vars, moving>>

MCSpec ==
  /\ MCInit /\ [][NeighboursMove \/ SendingMoves]_MCVars
  /\ moving = "neighbours" => WF_vars(MaintStep)
=============================================================================
