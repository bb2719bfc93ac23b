--------------------------- MODULE SpinelFraming ---------------------------
(***************************************************************************)
(* RawSpinelDriver's receive path: the byte stream of the serial line, and *)
(* rxLoop, which cuts it into HDLC frames at the flag bytes.               *)
(*                                                                         *)
(* The radio writes each frame as hdlcEncode does: a flag, the escaped     *)
(* payload and CRC, a flag.  Escaping keeps flags out of the payload, so a *)
(* symbol of the line is a flag, one half of the body of a frame, or       *)
(* bytes that belong to no frame.  A body decodes if both its halves stand *)
(* between two flags and nothing else does: a damaged body is assumed      *)
(* never to pass the CRC.                                                  *)
(*                                                                         *)
(* The local variable "buffer" of rxLoop is line[pos + 1 .. read]: reading *)
(* appends to it, parsing moves pos, and the erase at the end of a round   *)
(* only gives the parsed part back.                                        *)
(***************************************************************************)
EXTENDS Naturals, Sequences, FiniteSets

CONSTANTS
  MaxFrames,    \* frames the radio sends (bounds the model)
  Noise,        \* what can happen to a symbol on the line
  MaxNoise,     \* how often it happens (bounds the model)
  MaxRestarts   \* how often the driver is stopped and started again (bounds the model)

NoiseKinds == {"loseFlag", "extraFlag", "loseByte", "badByte"}

ASSUME ConstantsAssumption ==
  /\ MaxFrames \in Nat
  /\ Noise \subseteq NoiseKinds
  /\ MaxNoise \in Nat
  /\ MaxRestarts \in Nat

Flag       == [frame |-> 0, half |-> 0]
Junk       == [frame |-> 0, half |-> 1]
Body(n, h) == [frame |-> n, half |-> h]
Symbol     == {Flag, Junk} \cup {Body(n, h) : n \in 1 .. MaxFrames, h \in 1 .. 2}

VARIABLES
  line,      \* everything that has come out of the line since the port was opened
  frame,     \* the frame the radio is writing
  at,        \* which of its symbols comes next
  pc,        \* where the rx thread is
  running,   \* m_running
  read,      \* how much of the line has been read
  pos,       \* how much of it has been dealt with
  handled,   \* the frames given to handleSpinelFrame, one after the other
  hit,       \* the frames that noise or a restart took something of
  noise,     \* how often noise struck
  restarts   \* how often the driver was stopped

radio == <<line, frame, at, noise>>
host  == <<pc, running, read, pos, handled, restarts>>
vars  == <<line, frame, at, pc, running, read, pos, handled, hit, noise, restarts>>

Init ==
  /\ line = << >> /\ frame = 1 /\ at = 1
  /\ pc = "loop" /\ running = TRUE
  /\ read = 0 /\ pos = 0 /\ handled = << >>
  /\ hit = {} /\ noise = 0 /\ restarts = 0

-----------------------------------------------------------------------------
(* The radio and the line.                                                 *)

(* The symbols of a frame, as hdlcEncode lays them out. *)
HdlcEncode(n) == <<Flag, Body(n, 1), Body(n, 2), Flag>>
Written == HdlcEncode(frame)[at]

Advance ==
  /\ frame <= MaxFrames
  /\ IF at = 4 THEN frame' = frame + 1 /\ at' = 1 ELSE at' = at + 1 /\ UNCHANGED frame

Write ==
  /\ Advance
  /\ line' = Append(line, Written)
  /\ UNCHANGED <<host, hit, noise>>

Strike(kind) ==
  /\ kind \in Noise
  /\ noise < MaxNoise
  /\ Advance
  /\ (Written = Flag) <=> (kind = "loseFlag")
  /\ line' = CASE kind = "extraFlag" -> Append(line, Flag)
               [] kind = "badByte" -> Append(line, Junk)
               [] OTHER -> line
  /\ noise' = noise + 1
  /\ hit' = hit \cup {frame}
  /\ UNCHANGED host

-----------------------------------------------------------------------------
(* The rx thread.                                                          *)

RxLoop ==
  /\ pc = "loop"
  /\ pc' = IF running THEN "read" ELSE "ended"
  /\ UNCHANGED <<radio, running, read, pos, handled, hit, restarts>>

(* readSome returns what has arrived, or the first part of it. *)
RxRead(k) ==
  /\ pc = "read"
  /\ read < k /\ k <= Len(line)
  /\ read' = k
  /\ pc' = "parse"
  /\ UNCHANGED <<radio, running, pos, handled, hit, restarts>>

(* It returns nothing, after an error or a signal. *)
RxNoData ==
  /\ pc = "read"
  /\ read = Len(line)
  /\ pc' = "loop"
  /\ UNCHANGED <<radio, running, read, pos, handled, hit, restarts>>

(* The flags of the buffer that have not been dealt with. *)
Flags == {i \in pos + 1 .. read : line[i] = Flag}
IsFirst(i, S) == i \in S /\ \A k \in S : i <= k

(* The frame between two flags, as hdlcDecode finds it: 0 if it is refused. *)
HdlcDecode(i, j) ==
  IF /\ j = i + 3
     /\ line[i + 1].frame # 0
     /\ line[i + 1] = Body(line[i + 1].frame, 1)
     /\ line[i + 2] = Body(line[i + 1].frame, 2)
  THEN line[i + 1].frame
  ELSE 0

(* What is decoded goes to the layers above. *)
HandleSpinelFrame(n) == handled' = IF n = 0 THEN handled ELSE Append(handled, n)

(* Mutant: one too far. *)
ParseFrameSkips ==
  /\ pc = "parse"
  /\ \E i, j \in Flags :
       /\ IsFirst(i, Flags)
       /\ IsFirst(j, Flags \ {i})
       /\ HandleSpinelFrame(HdlcDecode(i, j))
       /\ pos' = j + 1
  /\ UNCHANGED <<radio, pc, running, read, hit, restarts>>

(* A flag and the next one: both are used up. *)
ParseFrame ==
  /\ pc = "parse"
  /\ \E i, j \in Flags :
       /\ IsFirst(i, Flags)
       /\ IsFirst(j, Flags \ {i})
       /\ HandleSpinelFrame(HdlcDecode(i, j))
       /\ pos' = j
  /\ UNCHANGED <<radio, pc, running, read, hit, restarts>>

(* Mutant: nothing is erased. *)
ParseEndKeeps ==
  /\ pc = "parse"
  /\ \A i, j \in Flags : i = j
  /\ pos' = 0
  /\ pc' = "loop"
  /\ UNCHANGED <<radio, running, read, handled, hit, restarts>>

(* Mutant: an unfinished frame is dropped. *)
ParseEndDrops ==
  /\ pc = "parse"
  /\ \A i, j \in Flags : i = j
  /\ pos' = IF Flags = {} THEN pos ELSE read
  /\ pc' = "loop"
  /\ UNCHANGED <<radio, running, read, handled, hit, restarts>>

(* Fewer than two flags: what comes before the flag is dropped; without a  *)
(* flag everything is kept.                                                *)
ParseEnd ==
  /\ pc = "parse"
  /\ \A i, j \in Flags : i = j
  /\ pos' = IF Flags = {} THEN pos ELSE (CHOOSE i \in Flags : TRUE) - 1
  /\ pc' = "loop"
  /\ UNCHANGED <<radio, running, read, handled, hit, restarts>>

-----------------------------------------------------------------------------
(* Stopping and starting the driver.  The buffer dies with the thread, the *)
(* port stays open.                                                        *)

Stop ==
  /\ running
  /\ restarts < MaxRestarts
  /\ running' = FALSE
  /\ restarts' = restarts + 1
  /\ UNCHANGED <<radio, pc, read, pos, handled, hit>>

(* The frames cut in two when the buffer goes. *)
CutFrames ==
  {line[i].frame : i \in pos + 1 .. read} \cup
  (IF read < Len(line) THEN {line[read + 1].frame} ELSE IF at > 1 THEN {frame} ELSE {})

Start ==
  /\ ~running
  /\ pc = "ended"
  /\ running' = TRUE
  /\ pc' = "loop"
  /\ pos' = read
  /\ hit' = hit \cup (CutFrames \ {0})
  /\ UNCHANGED <<radio, read, handled, restarts>>

-----------------------------------------------------------------------------

RxStep == RxLoop \/ (\E k \in 1 .. Len(line) : RxRead(k)) \/ ParseFrame \/ ParseEnd

Next == Write \/ (\E kind \in Noise : Strike(kind)) \/ RxStep \/ RxNoData \/ Stop \/ Start

Spec == Init /\ [][Next]_vars

(* The rx thread runs, and reads what has arrived. *)
FairSpec == Spec /\ WF_vars(RxStep)

-----------------------------------------------------------------------------
(* Correctness.                                                            *)

(* Every variable has its type, and what is dealt with has been read, and  *)
(* what is read has arrived.                                               *)
TypeOK ==
  /\ line \in Seq(Symbol)
  /\ frame \in 1 .. MaxFrames + 1
  /\ at \in 1 .. 4
  /\ pc \in {"loop", "read", "parse", "ended"}
  /\ running \in BOOLEAN
  /\ read \in 0 .. Len(line)
  /\ pos \in 0 .. read
  /\ handled \in Seq(1 .. MaxFrames)
  /\ hit \subseteq 1 .. MaxFrames
  /\ noise \in 0 .. MaxNoise
  /\ restarts \in 0 .. MaxRestarts

(* A round of rxLoop leaves no complete frame in the buffer, and what it   *)
(* leaves begins with its flag, if it has one: the buffer holds at most    *)
(* one unfinished frame.                                                   *)
OneFrameIsHeld ==
  pc # "parse" => \A i \in Flags : i = pos + 1

(* rxLoop implements the lossy channel: whatever the line does, and        *)
(* wherever the reads cut the stream, no frame is invented, handled twice  *)
(* or handled before an earlier one.                                       *)
Channel == INSTANCE SpinelChannel WITH sent <- IF at = 1 THEN frame - 1 ELSE frame
ImplementsChannel == Channel!Spec

Handled == {handled[k] : k \in DOMAIN handled}

(* The flags that have come are as many as were written, and no thread     *)
(* took any with it.                                                       *)
Open == IF at = 1 THEN 0 ELSE 1
FlagsKept ==
  /\ restarts = 0
  /\ Cardinality({i \in DOMAIN line : line[i] = Flag}) = 2 * (frame - 1) + Open

(* While the driver runs, a frame that nothing happened to is handled,     *)
(* whatever happened to the others ...                                     *)
EveryIntactFrameIsHandled ==
  \A n \in 1 .. MaxFrames :
    (running /\ n < frame /\ n \notin hit) ~> (n \in Handled \/ ~running)

(* ... if what happened to them left the flags alone.                      *)
IntactFramesAreHandled == []FlagsKept => EveryIntactFrameIsHandled
=============================================================================
