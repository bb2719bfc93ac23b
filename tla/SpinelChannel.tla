--------------------------- MODULE SpinelChannel ---------------------------
(***************************************************************************)
(* What RawSpinelDriver's receive side promises the layers above: a        *)
(* channel from the radio to handleSpinelFrame that may lose frames but    *)
(* never invents, repeats or reorders them.  Frames are numbered in the    *)
(* order in which the radio sends them; what was handled is a sequence, so *)
(* that a frame handled again is a step of its own.                        *)
(***************************************************************************)
EXTENDS Naturals, Sequences

VARIABLES
  sent,      \* frames the radio has begun to send: 1 .. sent
  handled    \* the frames given to handleSpinelFrame, one after the other

Init == sent = 0 /\ handled = << >>

Send == sent' = sent + 1 /\ UNCHANGED handled

Deliver(n) ==
  /\ n \in 1 .. sent
  /\ \A k \in DOMAIN handled : handled[k] < n
  /\ handled' = Append(handled, n)
  /\ UNCHANGED sent

Next == Send \/ \E n \in 1 .. sent : Deliver(n)

Spec == Init /\ [][Next]_<<sent, handled>>
=============================================================================
