-------------------------- MODULE MCSpinelFraming --------------------------
(* Model checking SpinelFraming: the instances are in the .cfg files.      *)
EXTENDS SpinelFraming
=============================================================================
