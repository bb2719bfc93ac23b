----------------------------- MODULE MCZohStack -----------------------------
(***************************************************************************)
(* Finite instances of ZohStack for TLC.  The configurations choose the    *)
(* calls the application makes and the traffic the radio hands up; the     *)
(* application threads are interchangeable.                                *)
(***************************************************************************)
EXTENDS ZohStack, TLC

Symmetry == Permutations(App) \cup Permutations(Addr)
=============================================================================
