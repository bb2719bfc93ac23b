----------------------------- MODULE SpinelLink -----------------------------
(***************************************************************************)
(* The bytes between hosts and their radios: what RawSpinelDriver writes   *)
(* for the calls of ZigbeeMac, what SerialPort accepts of it, what a radio *)
(* makes of it, and what driver and MAC of a host make of what its radio   *)
(* writes.  A raw frame goes from one host through its radio, the air and  *)
(* the radio of another to that host; both run the same code.              *)
(*                                                                         *)
(* A behaviour is one call of a host, or one frame that a radio sends of   *)
(* its own, and what follows from it.  A line may flip one bit; what such  *)
(* a line leaves in rxLoop's buffer is SpinelFraming's subject.            *)
(***************************************************************************)
EXTENDS FrameCodecs

CONSTANTS
  RawFrame,    \* the 802.15.4 frames that hosts send
  Properties,  \* the radio's properties that setChannel, setPanId and
               \* setExtendedAddress set, and values of each
  Upward,      \* what radios write of their own: Spinel frames
  Rssi, Lqi    \* as the radio measures them, at every frame

ASSUME ConstantsAssumption ==
  /\ RawFrame \subseteq Seq(0 .. Byte - 1)
  /\ DOMAIN Properties \subseteq (0 .. Byte * Byte - 1) \ {StreamRaw}
  /\ \A p \in DOMAIN Properties : Properties[p] \subseteq Seq(0 .. Byte - 1)
  /\ Upward \subseteq Seq(0 .. Byte - 1)
  /\ Rssi \in -128 .. 127 /\ Lqi \in 0 .. Byte - 1

VARIABLES
  at,       \* who reads the line next: "radio" or "host"
  asked,    \* the last call
  line,     \* the bytes on the line
  intact,   \* they are what was to be written
  result,   \* what the call returned
  radio,    \* the radio's properties
  assoc,    \* m_macAssocEnabled
  got       \* what the host that read last has made of it

vars == <<at, asked, line, intact, result, radio, assoc, got>>

Nothing   == [to |-> "nobody", frame |-> <<>>, rssi |-> 0, lqi |-> 0]
NoCall    == [prop |-> 0, value |-> <<>>]

Init ==
  /\ at = "start" /\ line = <<>> /\ intact = TRUE
  /\ asked = NoCall /\ result = TRUE
  /\ radio = [p \in DOMAIN Properties |-> <<>>]
  /\ assoc = FALSE
  /\ got = Nothing

-----------------------------------------------------------------------------
(* Writing.                                                                *)

(* writeBytes returns how many bytes it has written, 0 if it would block   *)
(* and -1 if it fails; that is returned as a bool.                         *)
Failed == -1

AsBool(n) == n # 0

(* sendRawFrame and sendSpinelSetProp, which differ in the header. *)
Tid(prop) == IF prop = StreamRaw THEN 1 ELSE 2
Write(prop, value) ==
  LET bytes == HdlcEncode(Spinel(Tid(prop), Set, prop, value))
  IN  \E n \in {Failed} \cup 0 .. Len(bytes) :
        /\ line' = SubSeq(bytes, 1, n)
        /\ intact' = (n = Len(bytes))
        /\ result' = AsBool(n)
        /\ at' = "radio"
        /\ asked' = [prop |-> prop, value |-> value]

Call(prop, value) ==
  /\ at = "start"
  /\ Write(prop, value)
  /\ UNCHANGED <<radio, assoc, got>>

EnableMacAssociation(b) ==
  /\ at = "start"
  /\ assoc' = b
  /\ UNCHANGED <<at, asked, line, intact, result, radio, got>>

-----------------------------------------------------------------------------
(* The line and the radio.                                                 *)

FlipBit(i, weight) ==
  /\ intact
  /\ line' = [line EXCEPT ![i] = Flip(@, weight)]
  /\ intact' = FALSE
  /\ UNCHANGED <<at, asked, result, radio, assoc, got>>

Decoded == Frames(line)

Idle == at' = "end" /\ line' = <<>>

(* What a radio writes: nothing of it gets lost before the line. *)
RadioWrites(s) == at' = "host" /\ line' = HdlcEncode(s)

ByteOf(n) == n % Byte

RadioReads ==
  /\ at = "radio"
  /\ \/ Decoded = {} /\ Idle /\ UNCHANGED radio
     \/ \E s \in Decoded :
          IF SpinelProperty(s) = StreamRaw
          THEN /\ RadioWrites(Spinel(0, Is, StreamRaw, SpinelValue(s) \o <<ByteOf(Rssi), Lqi>>))
               /\ UNCHANGED radio
          ELSE /\ radio' = [radio EXCEPT ![SpinelProperty(s)] = SpinelValue(s)]
               /\ Idle
  /\ UNCHANGED <<asked, intact, result, assoc, got>>

RadioSends(s) ==
  /\ at = "start"
  /\ RadioWrites(s)
  /\ UNCHANGED <<asked, intact, result, radio, assoc, got>>

-----------------------------------------------------------------------------
(* The host: handleSpinelFrame, and the handlers that ZigbeeMac gives it.  *)

(* Mutant: the RSSI is taken as it comes. *)
Unsigned(b) == b

Signed(b) == IF b < 128 THEN b ELSE b - Byte

(* A raw frame and its metadata, which default to 0. *)
Raw(v) ==
  LET n == Len(v) - 2
  IN  IF n < 0 THEN [to |-> "nwk", frame |-> v, rssi |-> 0, lqi |-> 0]
      ELSE [to |-> "nwk", frame |-> SubSeq(v, 1, n), rssi |-> Signed(v[n + 1]), lqi |-> v[n + 2]]

(* The association frames are told by their frame control. *)
AssocRequest  == 49152
AssocResponse == 49280
Masked(f)      == FieldAt(f, 1) - (FieldAt(f, 1) % 64)
IsAssoc(f, fc) == assoc /\ Len(f) > 3 /\ Masked(f) = fc

HandleInboundRaw(raw) ==
  CASE IsAssoc(raw.frame, AssocRequest)  -> [raw EXCEPT !.to = "request"]
    [] IsAssoc(raw.frame, AssocResponse) -> [raw EXCEPT !.to = "response"]
    [] OTHER -> raw

TxStatus == 4112

(* Association indications and confirmations are only logged. *)
HandleSpinelEvent(prop, v) ==
  IF prop = TxStatus /\ v # <<>> THEN [Nothing EXCEPT !.to = IF v[1] = 0 THEN "txDone" ELSE "txFailed"]
  ELSE Nothing

HandleSpinelFrame(s) ==
  IF Len(s) < 5 \/ SpinelCommand(s) # Is THEN Nothing
  ELSE IF SpinelProperty(s) = StreamRaw THEN HandleInboundRaw(Raw(SpinelValue(s)))
  ELSE HandleSpinelEvent(SpinelProperty(s), SpinelValue(s))

(* Control, sequence number, and the same address for everyone. *)
ResponseFrame == <<192, 128, 2>> \o Field(64)

HostReads ==
  /\ at = "host"
  /\ got' = IF Decoded = {} THEN Nothing ELSE HandleSpinelFrame(CHOOSE s \in Decoded : TRUE)
  /\ IF got'.to = "request" THEN Write(StreamRaw, ResponseFrame)
     ELSE Idle /\ UNCHANGED <<asked, intact, result>>
  /\ UNCHANGED <<radio, assoc>>

Next ==
  \/ \E f \in RawFrame : Call(StreamRaw, f)
  \/ \E p \in DOMAIN Properties : \E v \in Properties[p] : Call(p, v)
  \/ \E s \in Upward : RadioSends(s)
  \/ \E b \in BOOLEAN : EnableMacAssociation(b)
  \/ \E i \in DOMAIN line, w \in ToSet(Weights) : FlipBit(i, w)
  \/ RadioReads \/ HostReads

Spec == Init /\ [][Next]_vars

-----------------------------------------------------------------------------
(* Correctness.                                                            *)

Targets == {"nobody", "nwk", "request", "response", "txDone", "txFailed"}

(* Every variable has its type; what is written are bytes, and a host      *)
(* reads RSSI and LQI in the range of their types.                         *)
TypeOK ==
  /\ at \in {"start", "radio", "host", "end"}
  /\ asked.value \in Seq(0 .. Byte - 1)
  /\ line \in Seq(0 .. Byte - 1)
  /\ intact \in BOOLEAN /\ result \in BOOLEAN /\ assoc \in BOOLEAN
  /\ radio \in [DOMAIN Properties -> Seq(0 .. Byte - 1)]
  /\ got.to \in Targets /\ got.frame \in Seq(0 .. Byte - 1)
  /\ got.rssi \in -128 .. 127 /\ got.lqi \in 0 .. Byte - 1

(* The frame that a host hands to its MAC is the one that the other host   *)
(* was given to send, with what the radio measured, whatever bytes it has; *)
(* and a property that was set has the value it was set to.                *)
CommandsArriveAsGiven ==
  at = "end" /\ intact /\ asked # NoCall =>
    IF asked.prop = StreamRaw
    THEN got.frame = asked.value /\ got.rssi = Rssi /\ got.lqi = Lqi
    ELSE radio[asked.prop] = asked.value

(* Wherever a line is damaged, unless a flag or an escape comes or goes    *)
(* inside the frame, nothing is decoded: of a line that was not written to *)
(* its end the second flag is missing, and of one with a flipped bit a     *)
(* flag, or else the CRC tells.  Of what a flag that comes inside leaves   *)
(* of a frame 16 bits cannot tell every part from a frame.                 *)
DamageIsNoticed ==
  [][intact /\ ~intact' =>
       Decoded' = {} \/ (at' = at /\ Controls(line') # Controls(line))]_vars

(* Both of the header parsers, on any frame that arrives. *)
HeadersAreSound == HeaderLiesInside(got.frame) /\ HeaderReadsBack(got.frame)
=============================================================================
