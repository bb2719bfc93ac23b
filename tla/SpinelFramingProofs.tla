------------------------ MODULE SpinelFramingProofs ------------------------
(***************************************************************************)
(* Proofs about SpinelFraming, for any number of frames, any noise and any *)
(* number of restarts.                                                     *)
(*                                                                         *)
(* The inductive invariant says of the line that it carries the halves of  *)
(* the bodies in the order in which the radio wrote them, each at most     *)
(* once, and of rxLoop that every frame it has handled lies behind pos:    *)
(* what is left to parse, and what the radio has yet to write, belongs to  *)
(* later frames.  That is why the next frame handled is a later one.       *)
(***************************************************************************)
EXTENDS SpinelFraming, TLAPS

Begun == IF at = 1 THEN frame - 1 ELSE frame

(* What the radio writes next: no body, or the next half of its frame. *)
IsNext(s) ==
  /\ s \in Symbol
  /\ s.frame # 0 => at \in 2 .. 3 /\ s = Body(frame, at - 1)

(* The line carries what was written, in order. *)
LineInOrder ==
  /\ \A i \in 1 .. Len(line) : line[i].frame # 0 =>
       line[i].frame < frame \/ (line[i].frame = frame /\ line[i].half + 1 < at)
  /\ \A i, j \in 1 .. Len(line) :
       i < j /\ line[i].frame # 0 /\ line[j].frame # 0 =>
         \/ line[i].frame < line[j].frame
         \/ line[i].frame = line[j].frame /\ line[i].half < line[j].half

HandledIsBehind ==
  /\ \A n \in Handled : n <= Begun
  /\ \A n \in Handled : \A i \in pos + 1 .. Len(line) : line[i].frame # 0 => n < line[i].frame
  /\ \A n \in Handled : at \in 1 .. 3 => n < frame

FramesEnd == frame = MaxFrames + 1 => at = 1

FramingInv == TypeOK /\ FramesEnd /\ LineInOrder /\ HandledIsBehind /\ OneFrameIsHeld

-----------------------------------------------------------------------------

LEMMA SymbolFields ==
  \A s \in Symbol :
    /\ s.frame \in 0 .. MaxFrames
    /\ s.half \in 0 .. 2
    /\ s.frame # 0 => s.half \in 1 .. 2 /\ s = Body(s.frame, s.half)
  BY ConstantsAssumption DEF Symbol, Flag, Junk, Body

LEMMA ElementsOf ==
  ASSUME NEW S, NEW h \in Seq(S)
  PROVE  {h[k] : k \in DOMAIN h} \subseteq S
<1>1. \A k \in DOMAIN h : h[k] \in S
  OBVIOUS
<1>. QED BY <1>1, Zenon

(* handleSpinelFrame gets one frame more, or none.                         *)
LEMMA OneMoreHandled ==
  ASSUME TypeOK, NEW n \in 0 .. MaxFrames, HandleSpinelFrame(n)
  PROVE  /\ handled' \in Seq(1 .. MaxFrames)
         /\ Handled' = Handled \cup ({n} \ {0})
<1>1. CASE n = 0
  BY <1>1 DEF HandleSpinelFrame, Handled, TypeOK
<1>2. CASE n # 0
  <2>1. n \in 1 .. MaxFrames /\ handled \in Seq(1 .. MaxFrames) /\ handled' = Append(handled, n)
    BY <1>2, ConstantsAssumption DEF HandleSpinelFrame, TypeOK
  <2>2. /\ DOMAIN handled' = DOMAIN handled \cup {Len(handled) + 1}
        /\ \A k \in DOMAIN handled : handled'[k] = handled[k]
        /\ handled'[Len(handled) + 1] = n
    BY <2>1
  <2>3. Handled' = Handled \cup {n}
    BY <2>2, Zenon DEF Handled
  <2>. QED BY <1>2, <2>1, <2>3
<1>. QED BY <1>1, <1>2

(* hdlcEncode writes the two halves of a body between two flags. *)
LEMMA WrittenIsNext ==
  ASSUME TypeOK, frame <= MaxFrames
  PROVE  IsNext(Written)
<1>1. CASE at = 1
  BY <1>1 DEF IsNext, Written, HdlcEncode, Symbol, Flag
<1>2. CASE at = 2
  <2>1. Written = Body(frame, 1)
    BY <1>2 DEF Written, HdlcEncode
  <2>2. Body(frame, 1) \in Symbol
    BY ConstantsAssumption DEF TypeOK, Symbol
  <2>. QED BY <1>2, <2>1, <2>2 DEF IsNext
<1>3. CASE at = 3
  <2>1. Written = Body(frame, 2)
    BY <1>3 DEF Written, HdlcEncode
  <2>2. Body(frame, 2) \in Symbol
    BY ConstantsAssumption DEF TypeOK, Symbol
  <2>. QED BY <1>3, <2>1, <2>2 DEF IsNext
<1>4. CASE at = 4
  BY <1>4 DEF IsNext, Written, HdlcEncode, Symbol, Flag
<1>. QED BY <1>1, <1>2, <1>3, <1>4 DEF TypeOK

(* What the line does: it grows by what the radio writes next, or not. *)
LineGrows ==
  /\ frame <= MaxFrames
  /\ Advance
  /\ line' = line \/ \E s \in Symbol : IsNext(s) /\ line' = Append(line, s)
  /\ UNCHANGED host
  /\ hit' \in SUBSET (1 .. MaxFrames)
  /\ noise' \in 0 .. MaxNoise

LEMMA WriteGrows ==
  ASSUME TypeOK, Write
  PROVE  LineGrows
<1>1. frame <= MaxFrames
  BY DEF Write, Advance
<1>2. IsNext(Written)
  BY <1>1, WrittenIsNext
<1>3. Written \in Symbol
  BY <1>2 DEF IsNext
<1>. QED BY <1>1, <1>2, <1>3 DEF Write, LineGrows, TypeOK

LEMMA StrikeGrows ==
  ASSUME TypeOK, NEW kind \in Noise, Strike(kind)
  PROVE  LineGrows
<1>1. frame <= MaxFrames /\ Advance /\ UNCHANGED host
  BY DEF Strike, Advance
<1>2. IsNext(Flag) /\ IsNext(Junk)
  BY DEF IsNext, Symbol, Flag, Junk
<1>3. line' = line \/ line' = Append(line, Flag) \/ line' = Append(line, Junk)
  <2>1. CASE kind = "extraFlag"
    BY <2>1 DEF Strike
  <2>2. CASE kind = "badByte"
    BY <2>2 DEF Strike
  <2>3. CASE kind # "extraFlag" /\ kind # "badByte"
    BY <2>3 DEF Strike
  <2>. QED BY <2>1, <2>2, <2>3
<1>4. Flag \in Symbol /\ Junk \in Symbol
  BY DEF Symbol
<1>5. line' = line \/ \E s \in Symbol : IsNext(s) /\ line' = Append(line, s)
  BY <1>2, <1>3, <1>4
<1>6. hit' \in SUBSET (1 .. MaxFrames)
  BY <1>1, ConstantsAssumption DEF Strike, TypeOK
<1>7. noise' \in 0 .. MaxNoise
  BY ConstantsAssumption DEF Strike, TypeOK
<1>. QED BY <1>1, <1>5, <1>6, <1>7 DEF LineGrows

(* Writing keeps the invariant: the new half comes after all others. *)
LEMMA GrowthKeeps ==
  ASSUME FramingInv, LineGrows
  PROVE  FramingInv'
<1>. USE ConstantsAssumption
<1>0. TypeOK /\ FramesEnd /\ LineInOrder /\ HandledIsBehind /\ OneFrameIsHeld
  BY DEF FramingInv
<1>2. /\ line' \in Seq(Symbol)
      /\ Len(line') >= Len(line)
      /\ Len(line') <= Len(line) + 1
      /\ \A i \in 1 .. Len(line) : line'[i] = line[i]
      /\ Len(line') = Len(line) + 1 => IsNext(line'[Len(line) + 1])
  <2>1. CASE line' = line
    BY <2>1, <1>0 DEF TypeOK
  <2>2. CASE \E s \in Symbol : IsNext(s) /\ line' = Append(line, s)
    <3>1. PICK s \in Symbol : IsNext(s) /\ line' = Append(line, s)
      BY <2>2
    <3>. QED BY <3>1, <1>0 DEF TypeOK
  <2>. QED BY <2>1, <2>2 DEF LineGrows
<1>3. /\ frame \in 1 .. MaxFrames /\ at \in 1 .. 4
      /\ \/ at = 4 /\ frame' = frame + 1 /\ at' = 1
         \/ at < 4 /\ frame' = frame /\ at' = at + 1
  BY <1>0 DEF LineGrows, Advance, TypeOK
<1>4. /\ pc' = pc /\ running' = running /\ read' = read /\ pos' = pos
      /\ handled' = handled /\ restarts' = restarts
  BY DEF LineGrows, host
<1>5. TypeOK'
  <2>1. line' \in Seq(Symbol) /\ Len(line) \in Nat /\ Len(line') \in Nat
    BY <1>0, <1>2 DEF TypeOK
  <2>2. pos' \in 0 .. read' /\ read' \in 0 .. Len(line')
    BY <2>1, <1>0, <1>2, <1>4 DEF TypeOK
  <2>3. frame' \in 1 .. MaxFrames + 1 /\ at' \in 1 .. 4
    BY <1>3
  <2>4. hit' \subseteq 1 .. MaxFrames /\ noise' \in 0 .. MaxNoise
    BY DEF LineGrows
  <2>. QED BY <2>1, <2>2, <2>3, <2>4, <1>0, <1>4 DEF TypeOK
<1>6. FramesEnd'
  BY <1>3, <1>0 DEF FramesEnd
<1>7. \A i \in 1 .. Len(line) : line[i] \in Symbol
  BY <1>0 DEF TypeOK
<1>8. \A i \in 1 .. Len(line) : line[i].frame # 0 =>
        /\ line[i].frame \in 1 .. MaxFrames /\ line[i].half \in 1 .. 2
        /\ line[i].frame < frame \/ (line[i].frame = frame /\ line[i].half + 1 < at)
  BY <1>7, <1>0, SymbolFields DEF LineInOrder
<1>9. \A i \in 1 .. Len(line') : i = Len(line) + 1 /\ line'[i].frame # 0 =>
        at \in 2 .. 3 /\ line'[i].frame = frame /\ line'[i].half = at - 1
  BY <1>0, <1>2 DEF IsNext, Body, TypeOK
<1>10. \A i \in 1 .. Len(line') : i \in 1 .. Len(line) \/ i = Len(line) + 1
  BY <1>0, <1>2 DEF TypeOK
<1>11. LineInOrder'
  <2>1. \A i \in 1 .. Len(line') : line'[i].frame # 0 =>
          line'[i].frame < frame' \/ (line'[i].frame = frame' /\ line'[i].half + 1 < at')
    <3>. SUFFICES ASSUME NEW i \in 1 .. Len(line'), line'[i].frame # 0
                  PROVE  \/ line'[i].frame < frame'
                         \/ line'[i].frame = frame' /\ line'[i].half + 1 < at'
      OBVIOUS
    <3>1. CASE i \in 1 .. Len(line)
      <4>1. line'[i] = line[i] /\ line[i].frame # 0
        BY <3>1, <1>2
      <4>2. /\ line[i].frame \in 1 .. MaxFrames /\ line[i].half \in 1 .. 2
            /\ line[i].frame < frame \/ (line[i].frame = frame /\ line[i].half + 1 < at)
        BY <3>1, <4>1, <1>8
      <4>. QED BY <4>1, <4>2, <1>3
    <3>2. CASE i = Len(line) + 1
      BY <3>2, <1>3, <1>9
    <3>. QED BY <3>1, <3>2, <1>10
  <2>2. \A i, j \in 1 .. Len(line') :
          i < j /\ line'[i].frame # 0 /\ line'[j].frame # 0 =>
            \/ line'[i].frame < line'[j].frame
            \/ line'[i].frame = line'[j].frame /\ line'[i].half < line'[j].half
    <3>. SUFFICES ASSUME NEW i \in 1 .. Len(line'), NEW j \in 1 .. Len(line'),
                         i < j, line'[i].frame # 0, line'[j].frame # 0
                  PROVE  \/ line'[i].frame < line'[j].frame
                         \/ line'[i].frame = line'[j].frame /\ line'[i].half < line'[j].half
      OBVIOUS
    <3>1. i \in 1 .. Len(line)
      BY <1>0, <1>2 DEF TypeOK
    <3>2. CASE j \in 1 .. Len(line)
      BY <3>1, <3>2, <1>0, <1>2 DEF LineInOrder
    <3>3. CASE j = Len(line) + 1
      BY <3>1, <3>3, <1>2, <1>3, <1>8, <1>9
    <3>. QED BY <3>2, <3>3, <1>10
  <2>. QED BY <2>1, <2>2 DEF LineInOrder
<1>12. HandledIsBehind'
  <2>0. Handled \subseteq 1 .. MaxFrames /\ Handled' = Handled /\ pos \in Nat
    BY <1>0, <1>4, ElementsOf DEF TypeOK, Handled
  <2>1. \A n \in Handled : n < frame \/ (n = frame /\ at = 4)
    BY <1>0, <1>3, <2>0 DEF HandledIsBehind, Begun
  <2>2. \A n \in Handled' : n <= Begun' /\ (at' \in 1 .. 3 => n < frame')
    BY <2>0, <2>1, <1>3, <1>4 DEF Begun
  <2>3. \A n \in Handled' : \A i \in pos' + 1 .. Len(line') :
          line'[i].frame # 0 => n < line'[i].frame
    <3>. SUFFICES ASSUME NEW n \in Handled, NEW i \in pos + 1 .. Len(line'),
                         line'[i].frame # 0
                  PROVE  n < line'[i].frame
      BY <2>0, <1>4
    <3>1. i \in 1 .. Len(line')
      BY <2>0
    <3>2. CASE i \in 1 .. Len(line)
      BY <3>2, <2>0, <1>0, <1>2 DEF HandledIsBehind
    <3>3. CASE i = Len(line) + 1
      BY <3>1, <3>3, <1>9, <2>1
    <3>. QED BY <3>1, <3>2, <3>3, <1>10
  <2>. QED BY <2>2, <2>3 DEF HandledIsBehind
<1>13. OneFrameIsHeld'
  <2>1. \A i \in pos + 1 .. read : i \in 1 .. Len(line)
    BY <1>0 DEF TypeOK
  <2>2. Flags' = Flags
    BY <2>1, <1>2, <1>4 DEF Flags
  <2>. QED BY <2>2, <1>0, <1>4 DEF OneFrameIsHeld
<1>. QED BY <1>5, <1>6, <1>11, <1>12, <1>13 DEF FramingInv

LEMMA LaterRange ==
  ASSUME NEW p \in Nat, NEW q \in Nat, p <= q, NEW r \in Nat
  PROVE  \A i \in q + 1 .. r : i \in p + 1 .. r
  OBVIOUS

(* rxLoop keeps it. *)
LEMMA RxLoopKeeps ==
  ASSUME FramingInv, RxLoop \/ RxNoData
  PROVE  FramingInv'
<1>1. /\ UNCHANGED <<line, frame, at, running, read, pos, handled, hit, noise, restarts>>
      /\ pc # "parse"
      /\ pc' \in {"loop", "read", "ended"}
  BY DEF RxLoop, RxNoData, radio
<1>2. TypeOK'
  BY <1>1 DEF FramingInv, TypeOK
<1>3. FramesEnd' /\ OneFrameIsHeld'
  BY <1>1 DEF FramingInv, FramesEnd, OneFrameIsHeld, Flags
<1>4. LineInOrder'
  BY <1>1 DEF FramingInv, LineInOrder
<1>5. HandledIsBehind'
  BY <1>1 DEF FramingInv, HandledIsBehind, Handled, Begun
<1>. QED BY <1>2, <1>3, <1>4, <1>5 DEF FramingInv

LEMMA RxReadKeeps ==
  ASSUME FramingInv, NEW k \in 1 .. Len(line), RxRead(k)
  PROVE  FramingInv'
<1>1. /\ UNCHANGED <<line, frame, at, running, pos, handled, hit, noise, restarts>>
      /\ pc' = "parse" /\ read' = k /\ read < k /\ k <= Len(line)
  BY DEF RxRead, radio
<1>2. TypeOK'
  BY <1>1 DEF FramingInv, TypeOK
<1>3. FramesEnd' /\ LineInOrder' /\ OneFrameIsHeld'
  BY <1>1 DEF FramingInv, FramesEnd, LineInOrder, OneFrameIsHeld
<1>4. HandledIsBehind'
  BY <1>1 DEF FramingInv, HandledIsBehind, Handled, Begun
<1>. QED BY <1>2, <1>3, <1>4 DEF FramingInv

(* Two flags with a body between them hold the two halves of one frame. *)
LEMMA DecodedFrame ==
  ASSUME FramingInv, NEW i \in Flags, NEW j \in Flags, HdlcDecode(i, j) # 0
  PROVE  /\ HdlcDecode(i, j) \in 1 .. MaxFrames
         /\ j = i + 3
         /\ line[i + 1] = Body(HdlcDecode(i, j), 1)
         /\ line[i + 2] = Body(HdlcDecode(i, j), 2)
<1>1. /\ j = i + 3
      /\ line[i + 1].frame # 0
      /\ HdlcDecode(i, j) = line[i + 1].frame
      /\ line[i + 1] = Body(line[i + 1].frame, 1)
      /\ line[i + 2] = Body(line[i + 1].frame, 2)
  BY DEF HdlcDecode
<1>2. i + 1 \in 1 .. Len(line)
  BY <1>1 DEF Flags, FramingInv, TypeOK
<1>3. line[i + 1] \in Symbol
  BY <1>2 DEF FramingInv, TypeOK
<1>. QED BY <1>1, <1>3, SymbolFields, ConstantsAssumption

LEMMA DecodedRange ==
  ASSUME FramingInv, NEW i \in Flags, NEW j \in Flags
  PROVE  HdlcDecode(i, j) \in 0 .. MaxFrames
<1>1. CASE HdlcDecode(i, j) # 0
  BY <1>1, DecodedFrame, ConstantsAssumption
<1>2. CASE HdlcDecode(i, j) = 0
  BY <1>2, ConstantsAssumption
<1>. QED BY <1>1, <1>2

LEMMA ParseFrameKeepsInv ==
  ASSUME FramingInv, ParseFrame
  PROVE  FramingInv'
<1>. USE ConstantsAssumption
<1>0. TypeOK /\ FramesEnd /\ LineInOrder /\ HandledIsBehind
  BY DEF FramingInv
<1>1. PICK i \in Flags, j \in Flags :
        /\ HandleSpinelFrame(HdlcDecode(i, j))
        /\ pos' = j
  BY DEF ParseFrame
<1>9. /\ handled' \in Seq(1 .. MaxFrames)
      /\ Handled' = Handled \cup ({HdlcDecode(i, j)} \ {0})
  BY <1>0, <1>1, DecodedRange, OneMoreHandled
<1>2. /\ pc = "parse"
      /\ UNCHANGED <<line, frame, at, pc, running, read, hit, noise, restarts>>
  BY DEF ParseFrame, radio
<1>3. /\ i \in pos + 1 .. read /\ j \in pos + 1 .. read
      /\ read \in 0 .. Len(line) /\ pos \in 0 .. read
      /\ Handled \subseteq 1 .. MaxFrames
  BY <1>0, ElementsOf DEF Flags, TypeOK, Handled
<1>4. ASSUME NEW n \in Handled', n \notin Handled
      PROVE  /\ n \in 1 .. MaxFrames
             /\ j = i + 3
             /\ line[i + 1] = Body(n, 1)
             /\ line[i + 2] = Body(n, 2)
  <2>1. n = HdlcDecode(i, j) /\ n # 0
    BY <1>9, <1>4
  <2>. QED BY <2>1, DecodedFrame
<1>5. TypeOK'
  <2>1. pos' \in 0 .. read
    BY <1>1, <1>3
  <2>. QED BY <1>0, <1>2, <1>9, <2>1 DEF TypeOK
<1>6. ASSUME NEW n \in Handled'
      PROVE  /\ n <= Begun
             /\ at \in 1 .. 3 => n < frame
             /\ \A k \in pos' + 1 .. Len(line) : line[k].frame # 0 => n < line[k].frame
  <2>1. CASE n \in Handled
    BY <2>1, <1>0, <1>1, <1>3 DEF HandledIsBehind
  <2>2. CASE n \notin Handled
    <3>0. n \in 1 .. MaxFrames /\ j = i + 3 /\ line[i + 2] = Body(n, 2)
      BY <2>2, <1>4
    <3>1. /\ n \in 1 .. MaxFrames /\ j = i + 3
          /\ i + 2 \in 1 .. Len(line)
          /\ line[i + 2].frame = n /\ line[i + 2].half = 2
      BY <3>0, <1>3 DEF Body
    <3>2. n < frame \/ (n = frame /\ at = 4)
      BY <3>1, <1>0, SMTT(20) DEF LineInOrder, TypeOK
    <3>3. n <= Begun /\ (at \in 1 .. 3 => n < frame)
      BY <3>1, <3>2, <1>0 DEF Begun, TypeOK
    <3>4. ASSUME NEW k \in pos' + 1 .. Len(line), line[k].frame # 0
          PROVE  n < line[k].frame
      <4>1. k \in 1 .. Len(line) /\ i + 2 < k
        BY <3>1, <1>1, <1>3
      <4>2. line[k] \in Symbol
        BY <4>1, <1>0 DEF TypeOK
      <4>3. line[k].half \in 1 .. 2 /\ line[k].frame \in 0 .. MaxFrames
        BY <4>2, <3>4, SymbolFields
      <4>4. \/ line[i + 2].frame < line[k].frame
            \/ line[i + 2].frame = line[k].frame /\ line[i + 2].half < line[k].half
        BY <3>1, <3>4, <4>1, <1>0 DEF LineInOrder
      <4>. QED BY <3>1, <4>3, <4>4
    <3>. QED BY <3>3, <3>4
  <2>. QED BY <2>1, <2>2
<1>7. HandledIsBehind'
  BY <1>2, <1>6 DEF HandledIsBehind, Handled, Begun
<1>8. FramesEnd' /\ LineInOrder' /\ OneFrameIsHeld'
  BY <1>0, <1>2 DEF FramesEnd, LineInOrder, OneFrameIsHeld
<1>. QED BY <1>5, <1>7, <1>8 DEF FramingInv

LEMMA ParseEndKeepsInv ==
  ASSUME FramingInv, ParseEnd
  PROVE  FramingInv'
<1>0. TypeOK /\ FramesEnd /\ LineInOrder /\ HandledIsBehind
  BY DEF FramingInv
<1>1. /\ UNCHANGED <<line, frame, at, running, read, handled, hit, noise, restarts>>
      /\ pc' = "loop"
      /\ \A i, j \in Flags : i = j
  BY DEF ParseEnd, radio
<1>2. /\ pos' \in pos .. read
      /\ \A i \in Flags : i = pos' + 1
  <2>1. CASE Flags = {}
    BY <2>1, <1>0 DEF ParseEnd, TypeOK
  <2>2. CASE Flags # {}
    <3>1. PICK f \in Flags : pos' = f - 1
      BY <2>2 DEF ParseEnd
    <3>2. f \in pos + 1 .. read
      BY DEF Flags
    <3>. QED BY <3>1, <3>2, <1>0, <1>1 DEF TypeOK
  <2>. QED BY <2>1, <2>2
<1>3. TypeOK'
  BY <1>0, <1>1, <1>2 DEF TypeOK
<1>4. HandledIsBehind'
  <2>0. pos \in Nat /\ pos' \in Nat /\ pos <= pos' /\ Len(line) \in Nat
    BY <1>0, <1>2 DEF TypeOK
  <2>1. \A i \in pos' + 1 .. Len(line) : i \in pos + 1 .. Len(line)
    BY <2>0, LaterRange
  <2>. QED BY <2>1, <1>0, <1>1 DEF HandledIsBehind, Handled, Begun
<1>5. OneFrameIsHeld'
  <2>0. pos \in Nat /\ pos' \in Nat /\ pos <= pos' /\ read \in Nat
    BY <1>0, <1>2 DEF TypeOK
  <2>1. \A i \in pos' + 1 .. read : i \in pos + 1 .. read
    BY <2>0, LaterRange
  <2>2. Flags' \subseteq Flags
    BY <2>1, <1>1 DEF Flags
  <2>. QED BY <2>2, <1>2 DEF OneFrameIsHeld
<1>. QED BY <1>0, <1>1, <1>3, <1>4, <1>5 DEF FramingInv, FramesEnd, LineInOrder

LEMMA StopKeeps ==
  ASSUME FramingInv, Stop
  PROVE  FramingInv'
<1>1. UNCHANGED <<line, frame, at, pc, read, pos, handled, hit, noise>>
  BY DEF Stop, radio
<1>2. running' \in BOOLEAN /\ restarts' \in 0 .. MaxRestarts
  <2>1. restarts \in 0 .. MaxRestarts /\ MaxRestarts \in Nat
    BY ConstantsAssumption DEF FramingInv, TypeOK
  <2>2. running' = FALSE /\ restarts < MaxRestarts /\ restarts' = restarts + 1
    BY DEF Stop
  <2>3. restarts' \in 0 .. MaxRestarts
    BY <2>1, <2>2
  <2>4. running' \in BOOLEAN
    BY <2>2
  <2>. QED BY <2>3, <2>4
<1>3. TypeOK'
  BY <1>1, <1>2 DEF FramingInv, TypeOK
<1>. QED
  BY <1>1, <1>3 DEF FramingInv, FramesEnd, LineInOrder, HandledIsBehind, Handled, Begun, OneFrameIsHeld, Flags

LEMMA StartKeeps ==
  ASSUME FramingInv, Start
  PROVE  FramingInv'
<1>. USE ConstantsAssumption
<1>0. TypeOK /\ FramesEnd /\ LineInOrder /\ HandledIsBehind
  BY DEF FramingInv
<1>1. /\ UNCHANGED <<line, frame, at, noise, read, handled, restarts>>
      /\ pos' = read /\ pc' = "loop" /\ running' = TRUE
      /\ hit' = hit \cup (CutFrames \ {0})
  BY DEF Start, radio
<1>2. CutFrames \subseteq 0 .. MaxFrames
  <2>1. \A i \in 1 .. Len(line) : line[i].frame \in 0 .. MaxFrames
    BY <1>0, SymbolFields DEF TypeOK
  <2>2. {line[i].frame : i \in pos + 1 .. read} \subseteq 0 .. MaxFrames
    BY <2>1, <1>0 DEF TypeOK
  <2>3. read < Len(line) => line[read + 1].frame \in 0 .. MaxFrames
    BY <2>1, <1>0 DEF TypeOK
  <2>4. at > 1 => frame \in 0 .. MaxFrames
    BY <1>0 DEF TypeOK, FramesEnd
  <2>. QED BY <2>2, <2>3, <2>4 DEF CutFrames
<1>3. TypeOK'
  BY <1>0, <1>1, <1>2 DEF TypeOK
<1>4. HandledIsBehind'
  <2>1. pos \in Nat /\ read \in Nat /\ pos <= read /\ Len(line) \in Nat
    BY <1>0 DEF TypeOK
  <2>2. \A i \in read + 1 .. Len(line) : i \in pos + 1 .. Len(line)
    BY <2>1, LaterRange
  <2>3. Handled' = Handled /\ Begun' = Begun
    BY <1>1 DEF Handled, Begun
  <2>. QED BY <2>2, <2>3, <1>0, <1>1 DEF HandledIsBehind
<1>5. OneFrameIsHeld'
  BY <1>0, <1>1 DEF OneFrameIsHeld, Flags, TypeOK
<1>. QED BY <1>0, <1>1, <1>3, <1>4, <1>5 DEF FramingInv, FramesEnd, LineInOrder

-----------------------------------------------------------------------------

LEMMA FramingInit ==
  ASSUME Init
  PROVE  FramingInv
<1>. USE ConstantsAssumption
<1>1. TypeOK
  BY DEF Init, TypeOK
<1>2. LineInOrder /\ HandledIsBehind /\ OneFrameIsHeld /\ FramesEnd
  BY DEF Init, LineInOrder, HandledIsBehind, Handled, OneFrameIsHeld, FramesEnd, Flags
<1>. QED BY <1>1, <1>2 DEF FramingInv

LEMMA FramingStep ==
  ASSUME FramingInv, [Next]_vars
  PROVE  FramingInv'
<1>0. TypeOK
  BY DEF FramingInv
<1>1. CASE Write
  BY <1>0, <1>1, WriteGrows, GrowthKeeps
<1>2. CASE \E kind \in Noise : Strike(kind)
  BY <1>0, <1>2, StrikeGrows, GrowthKeeps
<1>3. CASE RxLoop \/ RxNoData
  BY <1>3, RxLoopKeeps
<1>4. CASE \E k \in 1 .. Len(line) : RxRead(k)
  BY <1>4, RxReadKeeps
<1>5. CASE ParseFrame
  BY <1>5, ParseFrameKeepsInv
<1>6. CASE ParseEnd
  BY <1>6, ParseEndKeepsInv
<1>7. CASE Stop
  BY <1>7, StopKeeps
<1>8. CASE Start
  BY <1>8, StartKeeps
<1>9. CASE UNCHANGED vars
  BY <1>9 DEF vars, FramingInv, TypeOK, FramesEnd, LineInOrder, HandledIsBehind, Handled, Begun,
              OneFrameIsHeld, Flags
<1>. QED BY <1>1, <1>2, <1>3, <1>4, <1>5, <1>6, <1>7, <1>8, <1>9 DEF Next, RxStep

LEMMA FramingInvariant == Spec => []FramingInv
<1>1. Init => FramingInv
  BY FramingInit
<1>2. FramingInv /\ [Next]_vars => FramingInv'
  BY FramingStep
<1>. QED BY <1>1, <1>2, PTL DEF Spec

(* Every variable has its type: in particular rxLoop never parses past     *)
(* what it has read.                                                       *)
THEOREM FramingTypeCorrect == Spec => []TypeOK
<1>1. FramingInv => TypeOK
  BY DEF FramingInv
<1>. QED BY <1>1, FramingInvariant, PTL

(* A round of rxLoop leaves at most one unfinished frame in the buffer.    *)
THEOREM OneFrameIsEverHeld == Spec => []OneFrameIsHeld
<1>1. FramingInv => OneFrameIsHeld
  BY DEF FramingInv
<1>. QED BY <1>1, FramingInvariant, PTL

-----------------------------------------------------------------------------

(* Each step is a Send, a Deliver or a stutter of the lossy channel.       *)
LEMMA ChannelStep ==
  ASSUME FramingInv, [Next]_vars
  PROVE  [Channel!Next]_<<Begun, handled>>
<1>0. TypeOK /\ LineInOrder /\ HandledIsBehind
  BY DEF FramingInv
<1>1. ASSUME LineGrows
      PROVE  Channel!Send \/ UNCHANGED <<Begun, handled>>
  <2>1. handled' = handled
    BY <1>1 DEF LineGrows, host
  <2>2. CASE at = 4
    BY <1>0, <1>1, <2>1, <2>2 DEF LineGrows, Advance, Begun, TypeOK
  <2>3. CASE at = 1
    BY <1>0, <1>1, <2>1, <2>3 DEF LineGrows, Advance, Begun, TypeOK, Channel!Send
  <2>4. CASE at \in 2 .. 3
    BY <1>0, <1>1, <2>1, <2>4 DEF LineGrows, Advance, Begun, TypeOK
  <2>. QED BY <2>2, <2>3, <2>4, <1>0 DEF TypeOK
<1>2. CASE Write
  BY <1>0, <1>1, <1>2, WriteGrows DEF Channel!Next, Begun
<1>3. CASE \E kind \in Noise : Strike(kind)
  BY <1>0, <1>1, <1>3, StrikeGrows DEF Channel!Next, Begun
<1>4. CASE ParseFrame
  <2>1. PICK i \in Flags, j \in Flags : HandleSpinelFrame(HdlcDecode(i, j))
    BY <1>4 DEF ParseFrame
  <2>2. Begun' = Begun
    BY <1>4 DEF ParseFrame, radio, Begun
  <2>3. CASE HdlcDecode(i, j) = 0
    BY <2>1, <2>2, <2>3 DEF Begun, HandleSpinelFrame
  <2>4. CASE HdlcDecode(i, j) # 0
    <3>. DEFINE n == HdlcDecode(i, j)
    <3>0. n \in 1 .. MaxFrames /\ j = i + 3 /\ line[i + 1] = Body(n, 1)
      BY <2>4, DecodedFrame
    <3>1. n \in 1 .. MaxFrames /\ j = i + 3 /\ line[i + 1].frame = n
      BY <3>0 DEF Body
    <3>2. i + 1 \in pos + 1 .. Len(line)
      BY <3>1, <1>0 DEF Flags, TypeOK
    <3>3. n \in 1 .. Begun
      <4>1. i + 1 \in 1 .. Len(line)
        BY <3>2, <1>0 DEF TypeOK
      <4>2. n < frame \/ (n = frame /\ line[i + 1].half + 1 < at)
        BY <3>1, <4>1, <1>0 DEF LineInOrder
      <4>3. line[i + 1].half = 1
        BY <3>0 DEF Body
      <4>. QED BY <3>1, <4>2, <4>3, <1>0, ConstantsAssumption DEF Begun, TypeOK
    <3>4. \A k \in DOMAIN handled : handled[k] < n
      <4>1. \A m \in Handled : m < n
        BY <3>1, <3>2, <1>0 DEF HandledIsBehind
      <4>. QED BY <4>1 DEF Handled
    <3>5. handled' = Append(handled, n)
      BY <2>1, <2>4 DEF HandleSpinelFrame
    <3>6. Channel!Deliver(n)
      BY <3>3, <3>4, <3>5, <2>2 DEF Channel!Deliver, Begun
    <3>. QED BY <3>3, <3>6 DEF Channel!Next, Begun
  <2>. QED BY <2>3, <2>4
<1>5. CASE RxLoop \/ RxNoData \/ (\E k \in 1 .. Len(line) : RxRead(k)) \/ ParseEnd \/ Stop \/ Start
  BY <1>5 DEF RxLoop, RxNoData, RxRead, ParseEnd, Stop, Start, radio, Begun
<1>6. CASE UNCHANGED vars
  BY <1>6 DEF vars, Begun
<1>. QED BY <1>2, <1>3, <1>4, <1>5, <1>6 DEF Next, RxStep

(* rxLoop implements the lossy channel, for every line and every way the   *)
(* reads cut it.                                                           *)
THEOREM FramingRefinesChannel == Spec => ImplementsChannel
<1>1. Init => Channel!Init
  BY DEF Init, Channel!Init
<1>2. FramingInv /\ [Next]_vars => [Channel!Next]_<<Begun, handled>>
  BY ChannelStep
<1>. QED
  BY <1>1, <1>2, FramingInvariant, PTL DEF Spec, ImplementsChannel, Channel!Spec, Begun
=============================================================================
