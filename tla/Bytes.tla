------------------------------- MODULE Bytes -------------------------------
(* Frames are sequences of bytes.                                          *)
EXTENDS Integers, Sequences, SequencesExt

Byte == 256

(* A two-byte field, low byte first, and such fields in a row. *)
Field(n)          == <<n % Byte, n \div Byte>>
Fields(hops)      == [i \in 1 .. 2 * Len(hops) |-> Field(hops[(i + 1) \div 2])[2 - (i % 2)]]
FieldAt(s, i)     == s[i] + Byte * s[i + 1]
FieldsAt(s, i, n) == [k \in 1 .. n |-> FieldAt(s, i + 2 * (k - 1))]
Bit(b, weight)    == (b \div weight) % 2 = 1
Rest(s, i)        == SubSeq(s, i, Len(s))
=============================================================================
