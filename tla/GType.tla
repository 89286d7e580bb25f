------------------------------- MODULE GType -------------------------------
(***************************************************************************)
(* The G-type integers of PacketBuilder and PacketReader                   *)
(* (reborn_protocol/codec.py): big-endian lanes of seven bits, each with   *)
(* 32 added so that it is printable.  A lane may go up to 223, above its   *)
(* seven bits, and carries into the lane before it.                        *)
(*                                                                         *)
(* A GINT5 is the pair of what is above its lower 28 bits and those bits,   *)
(* so that TLC can compute with it: four bits above, or any integer that   *)
(* a host asks to be written.                                              *)
(***************************************************************************)
EXTENDS Integers, Sequences

Byte       == 0 .. 255
GInt5Value == [high : 0 .. 15, low : {n \in Nat : n <= 268435455}]
GInt5Int   == [high : Int, low : {n \in Nat : n <= 268435455}]

\* Fault: values above the range are not clamped.
ClampBelow(v, max) == IF v < 0 THEN 0 ELSE v

\* max(0, min(int(value), max))
Clamp(v, max) == IF v < 0 THEN 0 ELSE IF v > max THEN max ELSE v

\* max(0, min(int(value), 0xFFFFFFFF))
Clamp5(v) == IF v.high < 0 THEN [high |-> 0, low |-> 0]
             ELSE IF v.high > 15 THEN [high |-> 15, low |-> 268435455]
             ELSE v

\* Fault: a lane keeps what does not fit below it.
LaneUncapped(d) == d

\* if b > 223: b = 223
Lane(d) == IF d > 223 THEN 223 ELSE d

\* (b + 32) & 0xFF
Char(d) == (d + 32) % 256

-----------------------------------------------------------------------------
\* The greatest numbers that two, three and four lanes hold.
GShortMax == 28767
GInt3Max  == 3682399
GInt4Max  == 471347295

\* write_gchar, write_gshort, write_gint3, write_gint4, write_gint5.
GChar(v) == <<Char(Clamp(v, 223))>>

GShort(v) == LET t  == Clamp(v, GShortMax)
                 b0 == Lane(t \div 128)
             IN  <<Char(b0), Char(t - 128 * b0)>>

GInt3(v) == LET t  == Clamp(v, GInt3Max)
                b0 == Lane(t \div 16384)
                r  == t - 16384 * b0
                b1 == Lane(r \div 128)
            IN  <<Char(b0), Char(b1), Char(r - 128 * b1)>>

GInt4(v) == LET t  == Clamp(v, GInt4Max)
                b0 == Lane(t \div 2097152)
                r  == t - 2097152 * b0
                b1 == Lane(r \div 16384)
                q  == r - 16384 * b1
                b2 == Lane(q \div 128)
            IN  <<Char(b0), Char(b1), Char(b2), Char(q - 128 * b2)>>

GInt5Lanes(v) == LET b1 == Lane(v.low \div 2097152)
                     r  == v.low - 2097152 * b1
                     b2 == Lane(r \div 16384)
                     q  == r - 16384 * b2
                     b3 == Lane(q \div 128)
                 IN  <<Char(v.high), Char(b1), Char(b2), Char(b3),
                       Char(q - 128 * b3)>>

GInt5(v) == GInt5Lanes(Clamp5(v))

-----------------------------------------------------------------------------
\* Fault: junk below the offset stays negative.
AsIs(v) == v

\* What read_gchar, read_gshort, read_gint3 and read_gint4 make of their
\* bytes; junk below the offset never gives a negative number.
NonNegative(v) == IF v < 0 THEN 0 ELSE v

OfGChar(b)  == NonNegative(b[1] - 32)
OfGShort(b) == NonNegative(128 * (b[1] - 32) + (b[2] - 32))
OfGInt3(b)  == NonNegative(16384 * (b[1] - 32) + 128 * (b[2] - 32)
                           + (b[3] - 32))
OfGInt4(b)  == NonNegative(2097152 * (b[1] - 32) + 16384 * (b[2] - 32)
                           + 128 * (b[3] - 32) + (b[4] - 32))

\* read_gint5: the sum of the lower lanes carries into the top lane, and the
\* whole is taken modulo 2^32.
OfGInt5(b) ==
    LET low == 2097152 * (b[2] - 32) + 16384 * (b[3] - 32)
               + 128 * (b[4] - 32) + (b[5] - 32)
    IN  [high |-> ((b[1] - 32) + low \div 268435456) % 16,
         low  |-> low % 268435456]
=============================================================================
