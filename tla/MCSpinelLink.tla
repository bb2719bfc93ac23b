---------------------------- MODULE MCSpinelLink ----------------------------
(* Model checking SpinelLink: frames with flags, escapes and RSSI-like     *)
(* bytes in them, one header with every optional part cut everywhere, and  *)
(* the events a radio sends, some too short.                               *)
EXTENDS SpinelLink, TLC

Mac == BuildMac([frameControl |-> 34913, seq |-> 126, destPan |-> 4660, dest |-> 32381, src |-> 65535])
Nwk(fc) == BuildNwk([frameControl |-> fc, seq |-> 125, dst |-> 94, src |-> 32382, radius |-> 30])
Full == <<2>> \o Fields(<<7, 125>>) \o <<4, 1, 0, 0, 0, 9>>

MCRssi == -60

MCRawFrame ==
  {Mac \o Nwk(8) \o <<126, 125, 93>>, <<3, 192, 1, 2>>, <<>>, <<0, 192>>}
  \cup {Mac \o s : s \in Prefixes(Nwk(192) \o Full)}

MCProperties == (4096 :> {<<15>>, <<26>>}) @@ (4097 :> {Field(32382)}) @@ (4098 :> {<<1, 2, 3, 4, 5, 6, 7, 125>>})

MCUpward ==
  {Spinel(0, Is, p, v) : p \in {TxStatus, 4113}, v \in {<<>>, <<0>>, <<7>>}}
  \cup {Spinel(0, Is, StreamRaw, <<5>>), Spinel(1, 0, StreamRaw, <<1, 2, 3>>), <<128, 4, 0, 97>>, <<>>}
=============================================================================
