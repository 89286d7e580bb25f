------------------------- MODULE PacketFieldsProofs -------------------------
(***************************************************************************)
(* GType and PacketFields, for every number, every set of fields and every *)
(* packet: a G-type integer reads back as the number or its clamp, no      *)
(* number writes a control character, a reader never moves backwards or    *)
(* past the end, whatever the bytes are and wherever the packet was cut,   *)
(* and what was written whole reads back field by field.                   *)
(***************************************************************************)
EXTENDS PacketFields, SequenceTheorems, WellFoundedInduction, TLAPS

-----------------------------------------------------------------------------
(* Induction without an operator parameter.                                *)

\* Induction over a set: a set of naturals that holds 0 and is closed under
\* the successor is all of Nat.
LEMMA NatSet ==
    ASSUME NEW S, 0 \in S, \A n \in Nat : n \in S => n + 1 \in S
    PROVE  Nat \subseteq S
  <1> DEFINE R == {ss \in Nat \X Nat : ss[1] < ss[2]}
             T == Nat \ S
  <1>1. SUFFICES ASSUME T # {} PROVE FALSE
    BY DEF T
  <1>2. IsWellFoundedOn(R, Nat)
    BY NatLessThanWellFounded, Zenon DEF OpToRel
  <1>3. T \subseteq Nat
    BY DEF T
  <1> HIDE DEF T, R
  <1>4. PICK x \in T : \A y \in T : ~ (<<y, x>> \in R)
    BY <1>1, <1>2, <1>3, WFMin
  <1>5. x \in Nat /\ x # 0 /\ x - 1 \in Nat
    BY <1>3 DEF T
  <1>6. x - 1 \in S => FALSE
    BY <1>5 DEF T
  <1>7. x - 1 \in T
    BY <1>5, <1>6 DEF T
  <1>8. <<x - 1, x>> \in R
    BY <1>5 DEF R
  <1> QED
    BY <1>4, <1>7, <1>8

-----------------------------------------------------------------------------
(* The G-type integers.  Each carry is a lemma of its own, so that all that *)
(* is left to the solver is linear.                                        *)

\* Bytes that are no control characters.
Printable == 32 .. 255

\* The clamp stays in the range.
LEMMA ClampRange ==
    ASSUME NEW v \in Int, NEW max \in Nat
    PROVE  Clamp(v, max) \in Nat /\ Clamp(v, max) <= max
  BY DEF Clamp

\* Adding the offset to a lane does not wrap around.
LEMMA CharOfLane ==
    ASSUME NEW d \in Nat, d <= 223
    PROVE  /\ Char(d) = d + 32 /\ Char(d) \in Printable
  BY DEF Char, Printable

\* What a lane cannot hold fits the lanes below it, as their own excess.
LEMMA Carry7 ==
    ASSUME NEW t \in Nat, t <= 28767
    PROVE  LET b == Lane(t \div 128)
           IN  b \in 0 .. 223 /\ t - 128 * b \in Nat /\ t - 128 * b <= 223
  <1>1. PICK q \in Nat : /\ q = t \div 128
                         /\ 128 * q <= t /\ t < 128 * q + 128
    OBVIOUS
  <1>2. CASE q <= 223
    BY <1>1, <1>2 DEF Lane
  <1>3. CASE q > 223
    <2>1. Lane(q) = 223
      BY <1>3 DEF Lane
    <2>2. t >= 128 * 223
      BY <1>1, <1>3
    <2> QED
      BY <1>1, <2>1, <2>2
  <1> QED
    BY <1>1, <1>2, <1>3

\* The same where two lanes are below.
LEMMA Carry14 ==
    ASSUME NEW t \in Nat, t <= 3682399
    PROVE  LET b == Lane(t \div 16384)
           IN  b \in 0 .. 223 /\ t - 16384 * b \in Nat /\ t - 16384 * b <= 28767
  <1>1. PICK q \in Nat : /\ q = t \div 16384
                         /\ 16384 * q <= t /\ t < 16384 * q + 16384
    OBVIOUS
  <1>2. CASE q <= 223
    BY SMTT(30), <1>1, <1>2 DEF Lane
  <1>3. CASE q > 223
    <2>1. Lane(q) = 223
      BY <1>3 DEF Lane
    <2>2. t >= 16384 * 223
      BY <1>1, <1>3
    <2> QED
      BY SMTT(30), <1>1, <2>1, <2>2
  <1> QED
    BY SMTT(30), <1>1, <1>2, <1>3

\* And three.
LEMMA Carry21 ==
    ASSUME NEW t \in Nat, t <= 471347295
    PROVE  LET b == Lane(t \div 2097152)
           IN  b \in 0 .. 223 /\ t - 2097152 * b \in Nat /\ t - 2097152 * b <= 3682399
  <1>1. PICK q \in Nat : /\ q = t \div 2097152
                         /\ 2097152 * q <= t /\ t < 2097152 * q + 2097152
    OBVIOUS
  <1>2. CASE q <= 223
    BY SMTT(30), <1>1, <1>2 DEF Lane
  <1>3. CASE q > 223
    <2>1. Lane(q) = 223
      BY <1>3 DEF Lane
    <2>2. t >= 2097152 * 223
      BY <1>1, <1>3
    <2> QED
      BY SMTT(30), <1>1, <2>1, <2>2
  <1> QED
    BY SMTT(30), <1>1, <1>2, <1>3

-----------------------------------------------------------------------------
\* write_gchar and read_gchar: a number in range, or its clamp, comes back.
THEOREM GCharRoundTrip ==
    ASSUME NEW v \in Int
    PROVE  /\ GChar(v) \in Seq(Printable) /\ Len(GChar(v)) = 1
           /\ OfGChar(GChar(v)) = Clamp(v, 223)
  <1>1. Clamp(v, 223) \in Nat /\ Clamp(v, 223) <= 223
    BY ClampRange
  <1>2. Char(Clamp(v, 223)) \in Printable /\ Char(Clamp(v, 223)) = Clamp(v, 223) + 32
    BY <1>1, CharOfLane
  <1> QED
    BY <1>1, <1>2 DEF GChar, OfGChar, NonNegative, Printable

\* write_gshort and read_gshort, for two lanes.
THEOREM GShortRoundTrip ==
    ASSUME NEW v \in Int
    PROVE  /\ GShort(v) \in Seq(Printable) /\ Len(GShort(v)) = 2
           /\ OfGShort(GShort(v)) = Clamp(v, GShortMax)
  <1>1. PICK t : t = Clamp(v, GShortMax)
    OBVIOUS
  <1>2. PICK b0 : b0 = Lane(t \div 128)
    OBVIOUS
  <1>3. PICK r : r = t - 128 * b0
    OBVIOUS
  <1>4. t \in Nat /\ t <= 28767
    BY <1>1, ClampRange DEF GShortMax
  <1>5. b0 \in 0 .. 223 /\ r \in Nat /\ r <= 223
    BY SMTT(30), <1>2, <1>3, <1>4, Carry7
  <1>6. /\ Char(b0) = b0 + 32 /\ Char(b0) \in Printable
        /\ Char(r) = r + 32 /\ Char(r) \in Printable
    BY <1>5, CharOfLane
  <1>7. GShort(v) = <<Char(b0), Char(r)>>
    BY <1>1, <1>2, <1>3 DEF GShort
  <1>8. OfGShort(GShort(v)) = t
    BY SMTT(30), <1>3, <1>4, <1>5, <1>6, <1>7 DEF OfGShort, NonNegative
  <1> QED
    BY <1>1, <1>6, <1>7, <1>8

\* write_gint3 and read_gint3, for three lanes.
THEOREM GInt3RoundTrip ==
    ASSUME NEW v \in Int
    PROVE  /\ GInt3(v) \in Seq(Printable) /\ Len(GInt3(v)) = 3
           /\ OfGInt3(GInt3(v)) = Clamp(v, GInt3Max)
  <1>1. PICK t : t = Clamp(v, GInt3Max)
    OBVIOUS
  <1>2. PICK b0 : b0 = Lane(t \div 16384)
    OBVIOUS
  <1>3. PICK r : r = t - 16384 * b0
    OBVIOUS
  <1>4. PICK b1 : b1 = Lane(r \div 128)
    OBVIOUS
  <1>5. PICK q : q = r - 128 * b1
    OBVIOUS
  <1>6. t \in Nat /\ t <= 3682399
    BY <1>1, ClampRange DEF GInt3Max
  <1>7. b0 \in 0 .. 223 /\ r \in Nat /\ r <= 28767
    BY SMTT(30), <1>2, <1>3, <1>6, Carry14
  <1>8. b1 \in 0 .. 223 /\ q \in Nat /\ q <= 223
    BY SMTT(30), <1>4, <1>5, <1>7, Carry7
  <1>9. /\ Char(b0) = b0 + 32 /\ Char(b0) \in Printable
        /\ Char(b1) = b1 + 32 /\ Char(b1) \in Printable
        /\ Char(q) = q + 32 /\ Char(q) \in Printable
    BY SMTT(30), <1>7, <1>8, CharOfLane
  <1>10. GInt3(v) = <<Char(b0), Char(b1), Char(q)>>
    BY <1>1, <1>2, <1>3, <1>4, <1>5 DEF GInt3
  <1>11. OfGInt3(GInt3(v)) = t
    BY SMTT(30), <1>3, <1>5, <1>6, <1>7, <1>8, <1>9, <1>10 DEF OfGInt3, NonNegative
  <1> QED
    BY <1>1, <1>9, <1>10, <1>11

\* write_gint4 and read_gint4, for four lanes.
THEOREM GInt4RoundTrip ==
    ASSUME NEW v \in Int
    PROVE  /\ GInt4(v) \in Seq(Printable) /\ Len(GInt4(v)) = 4
           /\ OfGInt4(GInt4(v)) = Clamp(v, GInt4Max)
  <1>1. PICK t : t = Clamp(v, GInt4Max)
    OBVIOUS
  <1>2. PICK b0 : b0 = Lane(t \div 2097152)
    OBVIOUS
  <1>3. PICK r : r = t - 2097152 * b0
    OBVIOUS
  <1>4. PICK b1 : b1 = Lane(r \div 16384)
    OBVIOUS
  <1>5. PICK q : q = r - 16384 * b1
    OBVIOUS
  <1>6. PICK b2 : b2 = Lane(q \div 128)
    OBVIOUS
  <1>7. PICK p : p = q - 128 * b2
    OBVIOUS
  <1>8. t \in Nat /\ t <= 471347295
    BY <1>1, ClampRange DEF GInt4Max
  <1>9. b0 \in 0 .. 223 /\ r \in Nat /\ r <= 3682399
    BY SMTT(30), <1>2, <1>3, <1>8, Carry21
  <1>10. b1 \in 0 .. 223 /\ q \in Nat /\ q <= 28767
    BY SMTT(30), <1>4, <1>5, <1>9, Carry14
  <1>11. b2 \in 0 .. 223 /\ p \in Nat /\ p <= 223
    BY SMTT(30), <1>6, <1>7, <1>10, Carry7
  <1>12. /\ Char(b0) = b0 + 32 /\ Char(b0) \in Printable
         /\ Char(b1) = b1 + 32 /\ Char(b1) \in Printable
         /\ Char(b2) = b2 + 32 /\ Char(b2) \in Printable
         /\ Char(p) = p + 32 /\ Char(p) \in Printable
    BY SMTT(30), <1>9, <1>10, <1>11, CharOfLane
  <1>13. GInt4(v) = <<Char(b0), Char(b1), Char(b2), Char(p)>>
    BY SMTT(30), <1>1, <1>2, <1>3, <1>4, <1>5, <1>6, <1>7 DEF GInt4
  <1>14. OfGInt4(GInt4(v)) = t
    BY SMTT(30), <1>3, <1>5, <1>7, <1>8, <1>9, <1>10, <1>11, <1>12, <1>13
       DEF OfGInt4, NonNegative
  <1> QED
    BY <1>1, <1>12, <1>13, <1>14

\* The four lower lanes of a GINT5 hold any 28 bits without a carry, so nothing
\* spills into the top lane.
LEMMA GInt5LanesBack ==
    ASSUME NEW v \in GInt5Value
    PROVE  /\ GInt5Lanes(v) \in Seq(Printable) /\ Len(GInt5Lanes(v)) = 5
           /\ OfGInt5(GInt5Lanes(v)) = v
  <1>1. PICK b1 : b1 = Lane(v.low \div 2097152)
    OBVIOUS
  <1>2. PICK r : r = v.low - 2097152 * b1
    OBVIOUS
  <1>3. PICK b2 : b2 = Lane(r \div 16384)
    OBVIOUS
  <1>4. PICK q : q = r - 16384 * b2
    OBVIOUS
  <1>5. PICK b3 : b3 = Lane(q \div 128)
    OBVIOUS
  <1>6. PICK p : p = q - 128 * b3
    OBVIOUS
  <1>7. v.low \in Nat /\ v.low <= 268435455 /\ v.high \in 0 .. 15
    BY SMTT(30) DEF GInt5Value
  <1>8. b1 \in 0 .. 223 /\ r \in Nat /\ r <= 3682399
    BY SMTT(30), <1>1, <1>2, <1>7, Carry21
  <1>9. b2 \in 0 .. 223 /\ q \in Nat /\ q <= 28767
    BY SMTT(30), <1>3, <1>4, <1>8, Carry14
  <1>10. b3 \in 0 .. 223 /\ p \in Nat /\ p <= 223
    BY SMTT(30), <1>5, <1>6, <1>9, Carry7
  <1>11. /\ Char(v.high) = v.high + 32 /\ Char(v.high) \in Printable
         /\ Char(b1) = b1 + 32 /\ Char(b1) \in Printable
         /\ Char(b2) = b2 + 32 /\ Char(b2) \in Printable
         /\ Char(b3) = b3 + 32 /\ Char(b3) \in Printable
         /\ Char(p) = p + 32 /\ Char(p) \in Printable
    BY SMTT(30), <1>7, <1>8, <1>9, <1>10, CharOfLane
  <1>12. GInt5Lanes(v) = <<Char(v.high), Char(b1), Char(b2), Char(b3), Char(p)>>
    <2>1. GInt5Lanes(v) = LET s  == v.low - 2097152 * b1
                         c2 == Lane(s \div 16384)
                         t  == s - 16384 * c2
                         c3 == Lane(t \div 128)
                     IN  <<Char(v.high), Char(b1), Char(c2), Char(c3),
                           Char(t - 128 * c3)>>
      BY SMTT(30), <1>1 DEF GInt5Lanes
    <2>2. GInt5Lanes(v) = LET c2 == Lane(r \div 16384)
                         t  == r - 16384 * c2
                         c3 == Lane(t \div 128)
                     IN  <<Char(v.high), Char(b1), Char(c2), Char(c3),
                           Char(t - 128 * c3)>>
      BY SMTT(30), <1>2, <2>1
    <2> QED
      BY SMTT(30), <1>3, <1>4, <1>5, <1>6, <2>2
  <1>13. 2097152 * b1 + 16384 * b2 + 128 * b3 + p = v.low
    BY SMTT(30), <1>2, <1>4, <1>6, <1>7, <1>8, <1>9, <1>10
  <1>14. OfGInt5(GInt5Lanes(v)) =
            [high |-> (v.high + v.low \div 268435456) % 16,
             low  |-> v.low % 268435456]
    <2>1. PICK b : b = GInt5Lanes(v)
      OBVIOUS
    <2>2. /\ b[1] - 32 = v.high /\ b[2] - 32 = b1 /\ b[3] - 32 = b2
          /\ b[4] - 32 = b3 /\ b[5] - 32 = p
      BY SMTT(30), <1>7, <1>8, <1>9, <1>10, <1>11, <1>12, <2>1
    <2>3. OfGInt5(b) =
            LET low == 2097152 * b1 + 16384 * b2 + 128 * b3 + p
            IN  [high |-> (v.high + low \div 268435456) % 16,
                 low  |-> low % 268435456]
      BY SMTT(30), <2>2 DEF OfGInt5
    <2> QED
      BY SMTT(30), <1>13, <2>1, <2>3
  <1>15. v.low \div 268435456 = 0 /\ v.low % 268435456 = v.low
    <2>1. PICK n : n = 268435456
      OBVIOUS
    <2>2. n \in Nat /\ v.low \in Nat /\ v.low < n
      BY SMTT(30), <1>7, <2>1
    <2>3. v.low \div n = 0 /\ v.low % n = v.low
      BY SMTT(30), <2>2
    <2> QED
      BY <2>1, <2>3
  <1>16. OfGInt5(GInt5Lanes(v)) = [high |-> v.high, low |-> v.low]
    BY SMTT(30), <1>7, <1>14, <1>15
  <1> QED
    BY SMTT(30), <1>11, <1>12, <1>16 DEF GInt5Value

\* write_gint5 and read_gint5: any integer comes back, clamped to 32 bits.
THEOREM GInt5RoundTrip ==
    ASSUME NEW v \in GInt5Int
    PROVE  /\ GInt5(v) \in Seq(Printable) /\ Len(GInt5(v)) = 5
           /\ OfGInt5(GInt5(v)) = Clamp5(v)
  <1>1. Clamp5(v) \in GInt5Value
    <2>1. v.high \in Int /\ v.low \in {n \in Nat : n <= 268435455}
          /\ v = [high |-> v.high, low |-> v.low]
      BY DEF GInt5Int
    <2>2. CASE v.high < 0
      BY <2>1, <2>2 DEF Clamp5, GInt5Value
    <2>3. CASE v.high > 15
      BY <2>1, <2>3 DEF Clamp5, GInt5Value
    <2>4. CASE v.high \in 0 .. 15
      BY <2>1, <2>4 DEF Clamp5, GInt5Value
    <2> QED
      BY <2>1, <2>2, <2>3, <2>4
  <1> QED
    BY <1>1, GInt5LanesBack DEF GInt5

-----------------------------------------------------------------------------
\* Whatever the bytes, no reader of a G-type integer returns a negative
\* number ("junk below the offset").
THEOREM ReadsNonNegative ==
    ASSUME NEW b \in Seq(Byte)
    PROVE  /\ Len(b) >= 1 => OfGChar(b) \in Nat
           /\ Len(b) >= 2 => OfGShort(b) \in Nat
           /\ Len(b) >= 3 => OfGInt3(b) \in Nat
           /\ Len(b) >= 4 => OfGInt4(b) \in Nat
           /\ Len(b) >= 5 => OfGInt5(b) \in GInt5Value
  <1>1. \A i \in 1 .. Len(b) : b[i] \in Byte
    OBVIOUS
  <1>2. \A x \in Byte : x \in Int
    BY DEF Byte
  <1>3. \A i \in 1 .. Len(b) : b[i] \in Int
    BY <1>1, <1>2
  <1>4. \A v \in Int : NonNegative(v) \in Nat
    BY DEF NonNegative
  <1>5. Len(b) >= 1 => OfGChar(b) \in Nat
    <2>1. HAVE Len(b) >= 1
    <2>2. b[1] \in Int
      BY <1>3, <2>1
    <2>3. PICK v : v = b[1] - 32
      OBVIOUS
    <2>4. v \in Int
      BY <2>2, <2>3
    <2> QED
      BY <1>4, <2>3, <2>4 DEF OfGChar
  <1>6. Len(b) >= 2 => OfGShort(b) \in Nat
    <2>1. HAVE Len(b) >= 2
    <2>2. b[1] \in Int /\ b[2] \in Int
      BY <1>3, <2>1
    <2>3. PICK v : v = 128 * (b[1] - 32) + (b[2] - 32)
      OBVIOUS
    <2>4. v \in Int
      BY <2>2, <2>3
    <2> QED
      BY <1>4, <2>3, <2>4 DEF OfGShort
  <1>7. Len(b) >= 3 => OfGInt3(b) \in Nat
    <2>1. HAVE Len(b) >= 3
    <2>2. b[1] \in Int /\ b[2] \in Int /\ b[3] \in Int
      BY <1>3, <2>1
    <2>3. PICK v : v = 16384 * (b[1] - 32) + 128 * (b[2] - 32) + (b[3] - 32)
      OBVIOUS
    <2>4. v \in Int
      BY <2>2, <2>3
    <2> QED
      BY <1>4, <2>3, <2>4 DEF OfGInt3
  <1>8. Len(b) >= 4 => OfGInt4(b) \in Nat
    <2>1. HAVE Len(b) >= 4
    <2>2. /\ b[1] \in Int /\ b[2] \in Int /\ b[3] \in Int
          /\ b[4] \in Int
      BY <1>3, <2>1
    <2>3. PICK v : v = 2097152 * (b[1] - 32) + 16384 * (b[2] - 32)
                       + 128 * (b[3] - 32) + (b[4] - 32)
      OBVIOUS
    <2>4. v \in Int
      BY <2>2, <2>3
    <2> QED
      BY SMTT(30), <1>4, <2>3, <2>4 DEF OfGInt4
  <1>9. Len(b) >= 5 => OfGInt5(b) \in GInt5Value
    <2>1. HAVE Len(b) >= 5
    <2>2. /\ b[1] \in Int /\ b[2] \in Int /\ b[3] \in Int
          /\ b[4] \in Int /\ b[5] \in Int
      BY <1>3, <2>1
    <2>3. PICK low : low = 2097152 * (b[2] - 32) + 16384 * (b[3] - 32)
                           + 128 * (b[4] - 32) + (b[5] - 32)
      OBVIOUS
    <2>4. low \in Int
      BY <2>2, <2>3
    <2>5. PICK high : high = (b[1] - 32) + low \div 268435456
      OBVIOUS
    <2>6. high \in Int
      BY <2>2, <2>4, <2>5
    <2>7. /\ high % 16 \in 0 .. 15
          /\ low % 268435456 \in Nat /\ low % 268435456 <= 268435455
      BY <2>4, <2>6
    <2>8. OfGInt5(b) = [high |-> high % 16, low |-> low % 268435456]
      BY SMTT(30), <2>3, <2>5 DEF OfGInt5
    <2> QED
      BY SMTT(30), <2>7, <2>8 DEF GInt5Value
  <1> QED
    BY <1>5, <1>6, <1>7, <1>8, <1>9

USE FieldsAssumption

-----------------------------------------------------------------------------
(* What is written.                                                        *)

\* The most that a GSHORT counts is a number.
LEMMA CountNat == GShortMax \in Nat
  BY DEF GShortMax

\* A cut string is a string of bytes, no longer than its length can say.
LEMMA CutType ==
    ASSUME NEW s \in Seq(Byte), NEW max \in Nat
    PROVE  /\ Cut(s, max) \in Seq(Byte) /\ Len(Cut(s, max)) <= max
           /\ Clamp(Len(Cut(s, max)), max) = Len(Cut(s, max))
  <1>1. Clamp(Len(s), max) \in Nat /\ Clamp(Len(s), max) <= max
        /\ Clamp(Len(s), max) <= Len(s)
    BY DEF Clamp
  <1>2. \A i \in 1 .. Clamp(Len(s), max) : s[i] \in Byte
    BY <1>1
  <1>3. Cut(s, max) \in Seq(Byte) /\ Len(Cut(s, max)) \in Nat
        /\ Len(Cut(s, max)) <= max
    BY <1>1, <1>2, SubSeqProperties DEF Cut
  <1> QED
    BY <1>3 DEF Clamp

\* A position in half pixels is written as the GSHORT of a number.
LEMMA PositionWritten ==
    ASSUME NEW v \in Int
    PROVE  \E n \in Int : Position2(v) = GShort(n)
  <1>1. Pixels(v) \in Int
    BY DEF Pixels
  <1>2. (IF Pixels(v) < 0 THEN 2 * (- Pixels(v)) + 1 ELSE 2 * Pixels(v)) \in Int
    BY <1>1
  <1> QED
    BY <1>2 DEF Position2

\* Every numeric field is written in printable bytes.
LEMMA NumericPrintable ==
    ASSUME NEW f \in Field, f.kind \in Numeric
    PROVE  Written(f) \in Seq(Printable)
  <1>1. f.kind = "gint5" => f.value \in GInt5Int
    BY DEF Typed
  <1>2. f.kind # "gint5" => f.value \in Int
    BY DEF Typed, Numeric
  <1>3. CASE f.kind = "gchar"
    BY <1>2, <1>3, GCharRoundTrip DEF Written
  <1>4. CASE f.kind = "gshort"
    BY <1>2, <1>4, GShortRoundTrip DEF Written
  <1>5. CASE f.kind = "gint3"
    BY <1>2, <1>5, GInt3RoundTrip DEF Written
  <1>6. CASE f.kind = "gint4"
    BY <1>2, <1>6, GInt4RoundTrip DEF Written
  <1>7. CASE f.kind = "gint5"
    BY <1>1, <1>7, GInt5RoundTrip DEF Written
  <1>8. CASE f.kind = "position2"
    BY <1>2, <1>8, PositionWritten, GShortRoundTrip DEF Written
  <1> QED
    BY <1>3, <1>4, <1>5, <1>6, <1>7, <1>8 DEF Numeric

\* Every field is written in bytes.
LEMMA WrittenBytes ==
    ASSUME NEW f \in Field
    PROVE  Written(f) \in Seq(Byte)
  <1>1. \A s \in Seq(Printable) : s \in Seq(Byte)
    BY DEF Printable, Byte
  <1>2. CASE f.kind \in Numeric
    BY <1>1, <1>2, NumericPrintable
  <1>3. CASE f.kind = "byte"
    <2>1. f.value \in Int
      BY <1>3 DEF Typed, Numeric
    <2>2. f.value % 256 \in Byte
      BY <2>1 DEF Byte
    <2> QED
      BY <1>3, <2>2 DEF Written
  <1>4. f.kind \in {"string", "gstring", "gstring_short"} => f.value \in Seq(Byte)
    BY DEF Typed, Numeric
  <1>5. CASE f.kind = "string"
    BY <1>4, <1>5 DEF Written
  <1>6. CASE f.kind = "gstring"
    <2>1. Cut(f.value, 223) \in Seq(Byte)
      BY <1>4, <1>6, CutType
    <2>2. GChar(Len(Cut(f.value, 223))) \in Seq(Byte)
      BY <1>1, <2>1, GCharRoundTrip
    <2> QED
      BY <1>6, <2>1, <2>2 DEF Written, GString
  <1>7. CASE f.kind = "gstring_short"
    <2>1. Cut(f.value, GShortMax) \in Seq(Byte)
      BY <1>4, <1>7, CutType, CountNat
    <2>2. GShort(Len(Cut(f.value, GShortMax))) \in Seq(Byte)
      BY <1>1, <2>1, GShortRoundTrip
    <2> QED
      BY <1>7, <2>1, <2>2 DEF Written, GStringShort
  <1>8. f.kind \in Kind
    OBVIOUS
  <1> QED
    BY <1>2, <1>3, <1>5, <1>6, <1>7, <1>8 DEF Kind

-----------------------------------------------------------------------------
(* Where the fields end.                                                   *)

\* A table of the ends of the first n fields.
EndTable(g, fs, n) ==
    /\ g \in [0 .. n -> Nat]
    /\ \A i \in 0 .. n :
          g[i] = IF i = 0 THEN 0 ELSE g[i - 1] + Len(Written(fs[i]))

\* There is a table of where the fields end.
LEMMA EndTableExists ==
    ASSUME NEW fs \in Seq(Field)
    PROVE  \E g : EndTable(g, fs, Len(fs))
  <1> DEFINE S == {n \in Nat : n <= Len(fs) => \E g : EndTable(g, fs, n)}
  <1>1. 0 \in S
    <2>1. EndTable([i \in 0 .. 0 |-> 0], fs, 0)
      BY DEF EndTable
    <2> QED
      BY <2>1
  <1>2. ASSUME NEW n \in Nat, n \in S
        PROVE  n + 1 \in S
    <2> SUFFICES ASSUME n + 1 <= Len(fs)
                 PROVE  \E g : EndTable(g, fs, n + 1)
      OBVIOUS
    <2>1. PICK g : EndTable(g, fs, n)
      BY <1>2
    <2>2. PICK w : w = Len(Written(fs[n + 1]))
      OBVIOUS
    <2>3. w \in Nat
      <3>1. fs[n + 1] \in Field
        OBVIOUS
      <3>2. Written(fs[n + 1]) \in Seq(Byte)
        BY <3>1, WrittenBytes
      <3> QED
        BY <2>2, <3>2
    <2>4. g[n] \in Nat
      BY <2>1 DEF EndTable
    <2>5. PICK h : h = [i \in 0 .. n + 1 |-> IF i = n + 1 THEN g[n] + w ELSE g[i]]
      OBVIOUS
    <2>6. h \in [0 .. n + 1 -> Nat]
      BY <2>1, <2>3, <2>4, <2>5 DEF EndTable
    <2>7. ASSUME NEW i \in 0 .. n + 1
          PROVE  h[i] = IF i = 0 THEN 0 ELSE h[i - 1] + Len(Written(fs[i]))
      <3>1. CASE i = n + 1
        BY <2>2, <2>5, <3>1
      <3>2. CASE i # n + 1
        BY <2>1, <2>5, <3>2 DEF EndTable
      <3> QED
        BY <3>1, <3>2
    <2>8. EndTable(h, fs, n + 1)
      BY <2>6, <2>7 DEF EndTable
    <2> QED
      BY <2>8
  <1> HIDE DEF S
  <1>3. Nat \subseteq S
    BY <1>1, <1>2, NatSet
  <1> QED
    BY <1>3 DEF S

\* The recursive definition of Ends defines a function: the table of all.
LEMMA EndsDef ==
    ASSUME NEW fs \in Seq(Field)
    PROVE  EndTable(Ends(fs), fs, Len(fs))
  <1> DEFINE Rec(F) == [i \in 0 .. Len(fs) |->
                          IF i = 0 THEN 0 ELSE F[i - 1] + Len(Written(fs[i]))]
             L      == CHOOSE F : F = Rec(F)
  <1>1. PICK g : EndTable(g, fs, Len(fs))
    BY EndTableExists
  <1>2. g = Rec(g)
    BY <1>1 DEF EndTable
  <1>3. L = Rec(L)
    BY <1>2
  <1>4. Ends(fs) = L
    BY DEF Ends
  <1> HIDE DEF L
  <1>5. \A i \in 0 .. Len(fs) :
           L[i] = IF i = 0 THEN 0 ELSE L[i - 1] + Len(Written(fs[i]))
    BY <1>3
  <1>6. DOMAIN L = 0 .. Len(fs) /\ L = [i \in 0 .. Len(fs) |-> L[i]]
    BY <1>3
  <1> DEFINE S == {n \in Nat : n <= Len(fs) => L[n] \in Nat}
  <1>7. 0 \in S
    BY <1>5
  <1>8. ASSUME NEW n \in Nat, n \in S
        PROVE  n + 1 \in S
    <2> SUFFICES ASSUME n + 1 <= Len(fs)
                 PROVE  L[n + 1] \in Nat
      OBVIOUS
    <2>1. fs[n + 1] \in Field
      OBVIOUS
    <2>2. Written(fs[n + 1]) \in Seq(Byte)
      BY <2>1, WrittenBytes
    <2>3. L[n + 1] = L[n] + Len(Written(fs[n + 1])) /\ L[n] \in Nat
      BY <1>5, <1>8
    <2> QED
      BY <2>2, <2>3
  <1> HIDE DEF S
  <1>9. Nat \subseteq S
    BY <1>7, <1>8, NatSet
  <1>10. \A n \in 0 .. Len(fs) : L[n] \in Nat
    BY <1>9 DEF S
  <1>11. L \in [0 .. Len(fs) -> Nat]
    BY <1>6, <1>10
  <1> QED
    BY <1>4, <1>5, <1>11 DEF EndTable

\* What is used of the ends: the first begins the packet, and each lies the
\* width of a field behind the one before.
LEMMA EndsStep ==
    ASSUME NEW fs \in Seq(Field)
    PROVE  /\ Ends(fs)[0] = 0
           /\ \A i \in 0 .. Len(fs) : Ends(fs)[i] \in Nat
           /\ \A i \in 1 .. Len(fs) :
                 Ends(fs)[i] = Ends(fs)[i - 1] + Len(Written(fs[i]))
  <1>1. PICK e, n : e = Ends(fs) /\ n = Len(fs)
    OBVIOUS
  <1>2. n \in Nat /\ e \in [0 .. n -> Nat]
        /\ \A i \in 0 .. n :
              e[i] = IF i = 0 THEN 0 ELSE e[i - 1] + Len(Written(fs[i]))
    BY <1>1, EndsDef DEF EndTable
  <1>3. e[0] = 0
    BY <1>2
  <1>4. \A i \in 1 .. n : e[i] = e[i - 1] + Len(Written(fs[i]))
    BY <1>2
  <1> QED
    BY <1>1, <1>2, <1>3, <1>4

\* No field ends behind the last.
LEMMA EndsBelow ==
    ASSUME NEW fs \in Seq(Field), NEW i \in 0 .. Len(fs)
    PROVE  Ends(fs)[i] <= Ends(fs)[Len(fs)]
  <1> DEFINE S == {n \in Nat : i + n <= Len(fs) => Ends(fs)[i] <= Ends(fs)[i + n]}
  <1>1. 0 \in S
    BY EndsStep
  <1>2. ASSUME NEW n \in Nat, n \in S
        PROVE  n + 1 \in S
    <2> SUFFICES ASSUME i + (n + 1) <= Len(fs)
                 PROVE  Ends(fs)[i] <= Ends(fs)[i + (n + 1)]
      OBVIOUS
    <2>1. PICK m : m = i + n
      OBVIOUS
    <2>2. m + 1 \in 1 .. Len(fs) /\ m \in 0 .. Len(fs) /\ i + (n + 1) = m + 1
      BY <2>1
    <2>3. Written(fs[m + 1]) \in Seq(Byte)
      BY <2>2, WrittenBytes
    <2>4. Ends(fs)[m + 1] = Ends(fs)[m] + Len(Written(fs[m + 1]))
      BY <2>2, EndsStep
    <2>5. Ends(fs)[i] <= Ends(fs)[m]
      BY <1>2, <2>1, <2>2
    <2>6. Ends(fs)[i] \in Nat /\ Ends(fs)[m] \in Nat
          /\ Len(Written(fs[m + 1])) \in Nat
      BY <2>2, <2>3, EndsStep
    <2> QED
      BY <2>2, <2>4, <2>5, <2>6
  <1> HIDE DEF S
  <1>3. Nat \subseteq S
    BY <1>1, <1>2, NatSet
  <1>4. Len(fs) - i \in S
    BY <1>3
  <1>5. i + (Len(fs) - i) = Len(fs)
    OBVIOUS
  <1> QED
    BY <1>4, <1>5 DEF S

\* One more field leaves the ends of those before it where they are.
LEMMA EndsAppend ==
    ASSUME NEW fs \in Seq(Field), NEW f \in Field, NEW i \in 0 .. Len(fs)
    PROVE  Ends(Append(fs, f))[i] = Ends(fs)[i]
  <1>1. PICK gs : gs = Append(fs, f)
    OBVIOUS
  <1>2. gs \in Seq(Field) /\ Len(gs) = Len(fs) + 1
        /\ \A n \in 1 .. Len(fs) : gs[n] = fs[n]
    BY <1>1
  <1> DEFINE S == {n \in Nat : n <= Len(fs) => Ends(gs)[n] = Ends(fs)[n]}
  <1>3. 0 \in S
    BY <1>2, EndsStep
  <1>4. ASSUME NEW n \in Nat, n \in S
        PROVE  n + 1 \in S
    <2> SUFFICES ASSUME n + 1 <= Len(fs)
                 PROVE  Ends(gs)[n + 1] = Ends(fs)[n + 1]
      OBVIOUS
    <2>1. n + 1 \in 1 .. Len(fs) /\ n + 1 \in 1 .. Len(gs) /\ (n + 1) - 1 = n
      BY <1>2
    <2>2. /\ Ends(gs)[n + 1] = Ends(gs)[n] + Len(Written(gs[n + 1]))
          /\ Ends(fs)[n + 1] = Ends(fs)[n] + Len(Written(fs[n + 1]))
      BY <1>2, <2>1, EndsStep
    <2> QED
      BY <1>2, <1>4, <2>1, <2>2
  <1> HIDE DEF S
  <1>5. Nat \subseteq S
    BY <1>3, <1>4, NatSet
  <1>6. Ends(gs)[i] = Ends(fs)[i]
    BY <1>5 DEF S
  <1> QED
    BY <1>1, <1>6

-----------------------------------------------------------------------------
(* What is read.                                                           *)

\* The reader is inside a packet of bytes.
Inside(p) == data \in Seq(Byte) /\ p \in Nat /\ p <= Len(data)

\* A read has moved forward, and not past the end.
Forward(r, p) == r.pos \in Nat /\ p <= r.pos /\ r.pos <= Len(data)

\* One byte, as it is or less the offset.
LEMMA ByteForward ==
    ASSUME NEW p, Inside(p)
    PROVE  /\ Forward(ReadByte(p), p)
           /\ Forward(ReadGChar(p), p) /\ ReadGChar(p).value \in Nat
  <1>1. Forward(ReadByte(p), p) /\ ReadByte(p).value \in Int
    <2>1. CASE p >= Len(data)
      BY <2>1 DEF ReadByte, Result, Forward, Inside
    <2>2. CASE p < Len(data)
      <3>1. data[p + 1] \in Byte
        BY <2>2 DEF Inside
      <3>2. data[p + 1] \in Int
        BY <3>1 DEF Byte
      <3> QED
        BY <2>2, <3>2 DEF ReadByte, Result, Forward, Inside
    <2> QED
      BY <2>1, <2>2 DEF Inside
  <1>2. NonNegative(ReadByte(p).value - 32) \in Nat
    BY <1>1 DEF NonNegative
  <1> QED
    BY <1>1, <1>2 DEF ReadGChar, Result, Forward

\* A number of n bytes, or what is left.
LEMMA TakeForward ==
    ASSUME NEW p, Inside(p), NEW n \in Nat, NEW value, NEW zero
    PROVE  /\ Forward(Take(n, p, value, zero), p)
           /\ Take(n, p, value, zero).value =
                 IF p + n > Len(data) THEN zero ELSE value
  BY DEF Take, Result, Forward, Inside

\* A string of any length, as far as there is data.
LEMMA StringForward ==
    ASSUME NEW p, Inside(p), NEW n \in Int
    PROVE  Forward(ReadString(n, p), p)
  <1>1. PICK end : end = Clamp(p + NonNegative(n), Len(data))
    OBVIOUS
  <1>2. end \in Nat /\ p <= end /\ end <= Len(data)
    BY <1>1 DEF Clamp, NonNegative, Inside
  <1>3. ReadString(n, p).pos = end
    BY <1>1 DEF ReadString, Result
  <1> QED
    BY <1>2, <1>3 DEF Forward

\* A string below its length.
LEMMA GStringForward ==
    ASSUME NEW p, Inside(p)
    PROVE  LET r == ReadGChar(p) IN Forward(ReadString(r.value, r.pos), p)
  <1>1. PICK r : r = ReadGChar(p)
    OBVIOUS
  <1>2. Forward(r, p) /\ r.value \in Nat
    BY <1>1, ByteForward
  <1>3. Inside(r.pos)
    BY <1>2 DEF Inside, Forward
  <1>4. Forward(ReadString(r.value, r.pos), r.pos)
    BY <1>2, <1>3, StringForward
  <1>5. Forward(ReadString(r.value, r.pos), p)
    BY <1>2, <1>4 DEF Forward, Inside
  <1> QED
    BY <1>1, <1>5

\* A string with a two-byte length moves the reader forward.
LEMMA GStringShortForward ==
    ASSUME NEW p, Inside(p)
    PROVE  LET r == Take(2, p, OfGShort(Lanes(2, p)), 0)
           IN  Forward(ReadString(r.value, r.pos), p)
  <1>1. PICK r : r = Take(2, p, OfGShort(Lanes(2, p)), 0)
    OBVIOUS
  <1>2. Forward(r, p)
        /\ r.value = IF p + 2 > Len(data) THEN 0 ELSE OfGShort(Lanes(2, p))
    BY <1>1, TakeForward
  <1>3. r.value \in Nat
    <2>1. CASE p + 2 > Len(data)
      BY <1>2, <2>1
    <2>2. CASE ~ (p + 2 > Len(data))
      <3>1. \A i \in (p + 1) .. (p + 2) : data[i] \in Byte
        BY <2>2 DEF Inside
      <3>2. p + 1 \in Int /\ p + 2 \in Int /\ (p + 2) - (p + 1) + 1 = 2
            /\ p + 1 <= p + 2
        BY DEF Inside
      <3>3. Lanes(2, p) \in Seq(Byte) /\ Len(Lanes(2, p)) = 2
        BY <3>1, <3>2, SubSeqProperties DEF Lanes
      <3>4. Len(Lanes(2, p)) >= 2
        <4>1. 2 >= 2
          OBVIOUS
        <4> QED
          BY <3>3, <4>1, Zenon
      <3>5. OfGShort(Lanes(2, p)) \in Nat
        BY <3>3, <3>4, ReadsNonNegative, Zenon
      <3> QED
        BY <1>2, <2>2, <3>5
    <2> QED
      BY <2>1, <2>2
  <1>4. Inside(r.pos)
    BY <1>2 DEF Inside, Forward
  <1>5. Forward(ReadString(r.value, r.pos), r.pos)
    BY <1>3, <1>4, StringForward
  <1>6. Forward(ReadString(r.value, r.pos), p)
    BY <1>2, <1>5 DEF Forward, Inside
  <1> QED
    BY <1>1, <1>6

\* Every read_ method.
LEMMA ReadForward ==
    ASSUME NEW p, Inside(p), NEW kind \in Kind, NEW n \in Nat
    PROVE  Forward(Read(kind, n, p), p)
  <1>1. CASE kind = "byte"
    BY <1>1, ByteForward DEF Read
  <1>2. CASE kind = "gchar"
    BY <1>2, ByteForward DEF Read
  <1>3. CASE kind = "gshort"
    BY <1>3, TakeForward DEF Read
  <1>4. CASE kind = "gint3"
    BY <1>4, TakeForward DEF Read
  <1>5. CASE kind = "gint4"
    BY <1>5, TakeForward DEF Read
  <1>6. CASE kind = "gint5"
    BY <1>6, TakeForward DEF Read
  <1>7. CASE kind = "position2"
    BY <1>7, TakeForward DEF Read
  <1>8. CASE kind = "string"
    BY <1>8, StringForward DEF Read
  <1>9. CASE kind = "gstring"
    BY <1>9, GStringForward DEF Read
  <1>10. CASE kind = "gstring_short"
    BY <1>10, GStringShortForward DEF Read
  <1> QED
    BY <1>1, <1>2, <1>3, <1>4, <1>5, <1>6, <1>7, <1>8, <1>9, <1>10
       DEF Kind, Numeric

-----------------------------------------------------------------------------
(* What is read where a field was written.                                 *)

\* The bytes w lie in the packet behind the position p, as far as it goes.
At(w, p) == \A j \in 1 .. Len(w) : p + j <= Len(data) => data[p + j] = w[j]

\* A read at p moves behind the bytes w or to the end of the packet, and is the
\* value v if they are all there.
ReadAs(r, w, v, p) ==
    /\ r.pos = Clamp(p + Len(w), Len(data))
    /\ p + Len(w) <= Len(data) => r.value = v

\* Bytes that lie there whole.
LEMMA LanesAt ==
    ASSUME NEW p, Inside(p), NEW w \in Seq(Byte), At(w, p),
           NEW end \in Nat, end = p + Len(w), end <= Len(data)
    PROVE  SubSeq(data, p + 1, end) = w
  <1>1. PICK s : s = SubSeq(data, p + 1, end)
    OBVIOUS
  <1>2. s \in Seq(Byte) /\ Len(s) = Len(w)
    <2>1. CASE Len(w) = 0
      BY <1>1, <2>1 DEF Inside
    <2>2. CASE Len(w) # 0
      BY <1>1, <2>2 DEF Inside
    <2> QED
      BY <2>1, <2>2
  <1>3. ASSUME NEW j \in 1 .. Len(w)
        PROVE  s[j] = w[j]
    <2>1. p + j <= Len(data)
      BY DEF Inside
    <2>2. s[j] = data[p + j]
      BY <1>1, <2>1 DEF Inside
    <2> QED
      BY <2>1, <2>2 DEF At
  <1>4. s = w
    BY <1>2, <1>3
  <1> QED
    BY <1>1, <1>4

\* Bytes that lie there whole are what the reader is given.
LEMMA LanesBack ==
    ASSUME NEW p, Inside(p), NEW w \in Seq(Byte), At(w, p), NEW n \in Nat,
           Len(w) = n, p + n <= Len(data)
    PROVE  Lanes(n, p) = w
  <1>1. PICK end \in Nat : end = p + n
    BY DEF Inside
  <1>2. SubSeq(data, p + 1, end) = w
    BY <1>1, LanesAt
  <1> QED
    BY <1>1, <1>2 DEF Lanes

\* Two strings of bytes, one behind the other.
LEMMA AtBoth ==
    ASSUME NEW p, Inside(p), NEW h \in Seq(Byte), NEW e \in Seq(Byte),
           At(h \o e, p)
    PROVE  At(h, p) /\ At(e, p + Len(h))
  <1>1. Len(h \o e) = Len(h) + Len(e)
    OBVIOUS
  <1>2. ASSUME NEW j \in 1 .. Len(h), p + j <= Len(data)
        PROVE  data[p + j] = h[j]
    BY <1>1, <1>2 DEF At
  <1>3. ASSUME NEW j \in 1 .. Len(e), (p + Len(h)) + j <= Len(data)
        PROVE  data[(p + Len(h)) + j] = e[j]
    <2>1. PICK k \in 1 .. Len(h \o e) : k = Len(h) + j
      BY <1>1
    <2>2. p + k = (p + Len(h)) + j
      BY <2>1 DEF Inside
    <2>3. data[p + k] = (h \o e)[k]
      BY <1>3, <2>2 DEF At
    <2>4. (h \o e)[k] = e[j]
      BY <2>1
    <2> QED
      BY <2>2, <2>3, <2>4
  <1> QED
    BY <1>2, <1>3 DEF At

\* One byte.
LEMMA ByteBack ==
    ASSUME NEW p, Inside(p), NEW b \in Byte, At(<<b>>, p)
    PROVE  ReadAs(ReadByte(p), <<b>>, b, p)
  <1>1. p + 1 <= Len(data) => data[p + 1] = b
    BY DEF At
  <1>2. p \in Nat /\ Len(data) \in Nat /\ p <= Len(data)
    BY DEF Inside
  <1> QED
    BY <1>1, <1>2 DEF ReadAs, ReadByte, Result, Clamp

\* A GCHAR that lies at p is read back from there.
LEMMA GCharBack ==
    ASSUME NEW p, Inside(p), NEW v \in Int, At(GChar(v), p)
    PROVE  ReadAs(ReadGChar(p), GChar(v), Clamp(v, 223), p)
  <1>1. PICK b : b = GChar(v)[1]
    OBVIOUS
  <1>2. GChar(v) = <<b>> /\ b \in Byte
    <2>1. PICK s : s = GChar(v)
      OBVIOUS
    <2>2. s \in Seq(Printable) /\ Len(s) = 1 /\ b = s[1]
      BY <1>1, <2>1, GCharRoundTrip
    <2>3. s = <<b>> /\ b \in Printable
      BY <2>2
    <2> QED
      BY <2>1, <2>3 DEF Printable, Byte
  <1>3. ReadAs(ReadByte(p), <<b>>, b, p)
    BY <1>2, ByteBack
  <1>4. NonNegative(b - 32) = Clamp(v, 223)
    BY <1>2, GCharRoundTrip DEF OfGChar
  <1> QED
    BY <1>2, <1>3, <1>4 DEF ReadAs, ReadGChar, Result

\* A number of the n lanes w.
LEMMA TakeBack ==
    ASSUME NEW p, Inside(p), NEW n \in Nat, NEW w \in Seq(Byte), Len(w) = n,
           NEW v, NEW value, p + n <= Len(data) => value = v, NEW zero
    PROVE  ReadAs(Take(n, p, value, zero), w, v, p)
  BY DEF Take, Result, ReadAs, Clamp, Inside

\* A string of the length it is read with.
LEMMA StringBack ==
    ASSUME NEW p, Inside(p), NEW w \in Seq(Byte), At(w, p)
    PROVE  ReadAs(ReadString(Len(w), p), w, w, p)
  <1>1. PICK end : end = Clamp(p + NonNegative(Len(w)), Len(data))
    OBVIOUS
  <1>2. NonNegative(Len(w)) = Len(w)
    BY DEF NonNegative
  <1>3. end = Clamp(p + Len(w), Len(data)) /\ end \in Nat
    BY <1>1, <1>2 DEF Clamp, Inside
  <1>4. ReadString(Len(w), p) = Result(SubSeq(data, p + 1, end), end)
    BY <1>1 DEF ReadString
  <1>5. ASSUME p + Len(w) <= Len(data)
        PROVE  SubSeq(data, p + 1, end) = w
    <2>1. end = p + Len(w) /\ end <= Len(data)
      BY <1>3, <1>5 DEF Clamp, Inside
    <2> QED
      BY <1>3, <2>1, LanesAt
  <1> QED
    BY <1>3, <1>4, <1>5 DEF ReadAs, Result

\* A string below its length h, from a read r of that length.
LEMMA CountedBack ==
    ASSUME NEW p, Inside(p), NEW h \in Seq(Byte), NEW e \in Seq(Byte),
           At(h \o e, p), NEW r, ReadAs(r, h, Len(e), p), r.value \in Nat
    PROVE  ReadAs(ReadString(r.value, r.pos), h \o e, e, p)
  <1>1. Len(h \o e) = Len(h) + Len(e) /\ Len(h) \in Nat /\ Len(e) \in Nat
        /\ p \in Nat /\ Len(data) \in Nat /\ p <= Len(data)
    BY DEF Inside
  <1>2. At(e, p + Len(h))
    BY AtBoth
  <1>3. CASE p + Len(h) <= Len(data)
    <2>1. r.pos = p + Len(h) /\ r.value = Len(e)
      BY <1>1, <1>3 DEF ReadAs, Clamp
    <2>2. Inside(p + Len(h))
      BY <1>1, <1>3 DEF Inside
    <2>3. ReadAs(ReadString(Len(e), p + Len(h)), e, e, p + Len(h))
      BY <1>2, <2>2, StringBack
    <2>4. (p + Len(h)) + Len(e) = p + Len(h \o e)
      BY <1>1
    <2> QED
      BY <2>1, <2>3, <2>4 DEF ReadAs
  <1>4. CASE ~ (p + Len(h) <= Len(data))
    <2>1. r.pos = Len(data)
      BY <1>1, <1>4 DEF ReadAs, Clamp
    <2>2. Inside(Len(data))
      BY <1>1 DEF Inside
    <2>3. Forward(ReadString(r.value, r.pos), Len(data))
      BY <2>1, <2>2, StringForward
    <2>4. ReadString(r.value, r.pos).pos = Len(data)
      BY <1>1, <2>3 DEF Forward
    <2>5. Clamp(p + Len(h \o e), Len(data)) = Len(data)
          /\ ~ (p + Len(h \o e) <= Len(data))
      BY <1>1, <1>4 DEF Clamp
    <2> QED
      BY <2>4, <2>5 DEF ReadAs
  <1> QED
    BY <1>3, <1>4

\* Printable bytes are bytes.
LEMMA PrintableBytes ==
    ASSUME NEW s \in Seq(Printable)
    PROVE  s \in Seq(Byte)
  BY DEF Printable, Byte

\* A position within the range of a GSHORT comes back with its sign.
LEMMA PositionRoundTrip ==
    ASSUME NEW v \in Int, Pixels(v) <= 14383, - Pixels(v) <= 14383
    PROVE  /\ Position2(v) \in Seq(Byte) /\ Len(Position2(v)) = 2
           /\ OfPosition2(Position2(v)) = 2 * Pixels(v)
  <1>0. Pixels(v) \in Int
    BY DEF Pixels
  <1>1. PICK q \in Int : q = Pixels(v)
    BY <1>0
  <1>2. PICK n : n = IF q < 0 THEN 2 * (- q) + 1 ELSE 2 * q
    OBVIOUS
  <1>3. n \in Nat /\ n <= 28767
    <2>1. - q <= 14383 /\ q <= 14383
      BY <1>1
    <2>2. CASE q < 0
      BY <1>2, <2>1, <2>2
    <2>3. CASE ~ (q < 0)
      BY <1>2, <2>1, <2>3
    <2> QED
      BY <2>2, <2>3
  <1>4. PICK b : b = GShort(n)
    OBVIOUS
  <1>5. b \in Seq(Printable) /\ Len(b) = 2 /\ OfGShort(b) = Clamp(n, GShortMax)
    BY <1>3, <1>4, GShortRoundTrip
  <1>6. Clamp(n, GShortMax) = n
    BY <1>3 DEF Clamp, GShortMax
  <1>7. b[1] \in Int /\ b[1] >= 32 /\ b[2] \in Int /\ b[2] >= 32
    <2>1. b[1] \in Printable /\ b[2] \in Printable
      BY <1>5
    <2>2. \A c \in Printable : c \in Int /\ c >= 32
      BY DEF Printable
    <2> QED
      BY <2>1, <2>2
  <1>8. PICK raw \in Int : raw = 128 * (b[1] - 32) + (b[2] - 32)
    BY <1>7
  <1>9. raw >= 0
    BY <1>7, <1>8
  <1>10. raw = n
    BY <1>5, <1>6, <1>8, <1>9 DEF OfGShort, NonNegative
  <1>11. n \div 2 = (IF q < 0 THEN - q ELSE q) /\ (n % 2 = 1 <=> q < 0)
    <2>1. CASE q < 0
      <3>1. n = 2 * (- q) + 1
        BY <1>2, <2>1
      <3> QED
        BY <2>1, <3>1
    <2>2. CASE ~ (q < 0)
      <3>1. n = 2 * q
        BY <1>2, <2>2
      <3> QED
        BY <2>2, <3>1
    <2> QED
      BY <2>1, <2>2
  <1>12. OfPosition2(b) = 2 * q
    BY <1>8, <1>10, <1>11 DEF OfPosition2
  <1>13. Position2(v) = b
    BY <1>1, <1>2, <1>4 DEF Position2
  <1> QED
    BY <1>1, <1>5, <1>12, <1>13, PrintableBytes

\* The positions that hosts write have room in their two lanes: beyond them
\* write_position2 clamps the number that holds the sign.
PositionsFit ==
    \A f \in Field : f.kind = "position2" =>
        Pixels(f.value) <= 14383 /\ - Pixels(f.value) <= 14383

\* The length a raw string is read with.
Expected(f) == IF f.kind = "string" THEN Len(f.value) ELSE 0

\* The read_ method of a field's kind, at the place where it was written.
LEMMA FieldBack ==
    ASSUME PositionsFit, NEW f \in Field, NEW p, Inside(p), At(Written(f), p)
    PROVE  ReadAs(Read(f.kind, Expected(f), p), Written(f), Kept(f), p)
  <1>1. Written(f) \in Seq(Byte) /\ p \in Nat
    BY WrittenBytes DEF Inside
  <1>2. PICK w \in Seq(Byte) : w = Written(f)
    BY <1>1
  <1>3. At(w, p)
    BY <1>2
  <1>4. CASE f.kind = "byte"
    <2>1. w = <<f.value % 256>> /\ f.value % 256 \in Byte
      BY <1>2, <1>4 DEF Typed, Numeric, Byte, Written
    <2>2. ReadAs(ReadByte(p), w, f.value % 256, p)
      BY <1>3, <2>1, ByteBack
    <2> QED
      BY <1>2, <1>4, <2>2 DEF Read, Kept
  <1>5. CASE f.kind = "gchar"
    <2>1. f.value \in Int /\ w = GChar(f.value)
      BY <1>2, <1>5 DEF Typed, Numeric, Written
    <2>2. ReadAs(ReadGChar(p), w, Clamp(f.value, 223), p)
      BY <1>3, <2>1, GCharBack
    <2> QED
      BY <1>2, <1>5, <2>2 DEF Read, Kept
  <1>6. CASE f.kind = "gshort"
    <2>1. f.value \in Int /\ w = GShort(f.value)
      BY <1>2, <1>6 DEF Typed, Numeric, Written
    <2>2. Len(w) = 2 /\ OfGShort(w) = Clamp(f.value, GShortMax)
      BY <2>1, GShortRoundTrip
    <2>3. PICK v : v = OfGShort(Lanes(2, p))
      OBVIOUS
    <2>4. PICK x : x = Clamp(f.value, GShortMax)
      OBVIOUS
    <2>5. p + 2 <= Len(data) => v = x
      BY <1>3, <2>2, <2>3, <2>4, LanesBack
    <2>6. ReadAs(Take(2, p, v, 0), w, x, p)
      BY <2>2, <2>5, TakeBack
    <2> QED
      BY <1>2, <1>6, <2>3, <2>4, <2>6 DEF Read, Kept
  <1>7. CASE f.kind = "gint3"
    <2>1. f.value \in Int /\ w = GInt3(f.value)
      BY <1>2, <1>7 DEF Typed, Numeric, Written
    <2>2. Len(w) = 3 /\ OfGInt3(w) = Clamp(f.value, GInt3Max)
      BY <2>1, GInt3RoundTrip
    <2>3. PICK v : v = OfGInt3(Lanes(3, p))
      OBVIOUS
    <2>4. PICK x : x = Clamp(f.value, GInt3Max)
      OBVIOUS
    <2>5. p + 3 <= Len(data) => v = x
      BY <1>3, <2>2, <2>3, <2>4, LanesBack
    <2>6. ReadAs(Take(3, p, v, 0), w, x, p)
      BY <2>2, <2>5, TakeBack
    <2> QED
      BY <1>2, <1>7, <2>3, <2>4, <2>6 DEF Read, Kept
  <1>8. CASE f.kind = "gint4"
    <2>1. f.value \in Int /\ w = GInt4(f.value)
      BY <1>2, <1>8 DEF Typed, Numeric, Written
    <2>2. Len(w) = 4 /\ OfGInt4(w) = Clamp(f.value, GInt4Max)
      BY <2>1, GInt4RoundTrip
    <2>3. PICK v : v = OfGInt4(Lanes(4, p))
      OBVIOUS
    <2>4. PICK x : x = Clamp(f.value, GInt4Max)
      OBVIOUS
    <2>5. p + 4 <= Len(data) => v = x
      BY <1>3, <2>2, <2>3, <2>4, LanesBack
    <2>6. ReadAs(Take(4, p, v, 0), w, x, p)
      BY <2>2, <2>5, TakeBack
    <2> QED
      BY <1>2, <1>8, <2>3, <2>4, <2>6 DEF Read, Kept
  <1>9. CASE f.kind = "gint5"
    <2>1. f.value \in GInt5Int /\ w = GInt5(f.value)
      BY <1>2, <1>9 DEF Typed, Numeric, Written
    <2>2. Len(w) = 5 /\ OfGInt5(w) = Clamp5(f.value)
      BY <2>1, GInt5RoundTrip
    <2>3. PICK v : v = OfGInt5(Lanes(5, p))
      OBVIOUS
    <2>4. PICK x : x = Clamp5(f.value)
      OBVIOUS
    <2>5. p + 5 <= Len(data) => v = x
      BY <1>3, <2>2, <2>3, <2>4, LanesBack
    <2>6. ReadAs(Take(5, p, v, [high |-> 0, low |-> 0]), w, x, p)
      BY <2>2, <2>5, TakeBack
    <2> QED
      BY <1>2, <1>9, <2>3, <2>4, <2>6 DEF Read, Kept
  <1>10. CASE f.kind = "position2"
    <2>1. f.value \in Int /\ w = Position2(f.value)
      BY <1>2, <1>10 DEF Typed, Numeric, Written
    <2>2. Pixels(f.value) <= 14383 /\ - Pixels(f.value) <= 14383
      BY <1>10 DEF PositionsFit
    <2>3. Len(w) = 2 /\ OfPosition2(w) = 2 * Pixels(f.value)
      BY <2>1, <2>2, PositionRoundTrip
    <2>4. PICK v : v = OfPosition2(Lanes(2, p))
      OBVIOUS
    <2>5. PICK x : x = 2 * Pixels(f.value)
      OBVIOUS
    <2>6. p + 2 <= Len(data) => v = x
      BY <1>3, <2>3, <2>4, <2>5, LanesBack
    <2>7. ReadAs(Take(2, p, v, 0), w, x, p)
      BY <2>3, <2>6, TakeBack
    <2> QED
      BY <1>2, <1>10, <2>4, <2>5, <2>7 DEF Read, Kept
  <1>11. CASE f.kind = "string"
    <2>1. w = f.value /\ Expected(f) = Len(w)
      BY <1>2, <1>11 DEF Written, Expected
    <2>2. ReadAs(ReadString(Expected(f), p), w, f.value, p)
      BY <1>3, <2>1, StringBack
    <2> QED
      BY <1>2, <1>11, <2>2 DEF Read, Kept
  <1>12. CASE f.kind = "gstring"
    <2>1. PICK e : e = Cut(f.value, 223)
      OBVIOUS
    <2>2. e \in Seq(Byte) /\ Len(e) \in Nat /\ Clamp(Len(e), 223) = Len(e)
      BY <1>12, <2>1, CutType DEF Typed, Numeric
    <2>3. PICK h : h = GChar(Len(e))
      OBVIOUS
    <2>4. h \in Seq(Byte) /\ w = h \o e
      BY <1>2, <1>12, <2>1, <2>2, <2>3, GCharRoundTrip, PrintableBytes
         DEF Written, GString
    <2>5. At(h, p)
      BY <1>3, <2>2, <2>4, AtBoth
    <2>6. PICK r : r = ReadGChar(p)
      OBVIOUS
    <2>7. ReadAs(r, h, Len(e), p) /\ r.value \in Nat
      BY <2>2, <2>3, <2>5, <2>6, GCharBack, ByteForward
    <2>8. ReadAs(ReadString(r.value, r.pos), w, e, p)
      BY <1>3, <2>2, <2>4, <2>7, CountedBack
    <2> QED
      BY <1>2, <1>12, <2>1, <2>6, <2>8 DEF Read, Kept
  <1>13. CASE f.kind = "gstring_short"
    <2>1. PICK e : e = Cut(f.value, GShortMax)
      OBVIOUS
    <2>2. e \in Seq(Byte) /\ Len(e) \in Nat /\ Clamp(Len(e), GShortMax) = Len(e)
      BY <1>13, <2>1, CutType, CountNat DEF Typed, Numeric
    <2>3. PICK h : h = GShort(Len(e))
      OBVIOUS
    <2>4. /\ h \in Seq(Byte) /\ w = h \o e /\ Len(h) = 2
          /\ OfGShort(h) = Clamp(Len(e), GShortMax)
      BY <1>2, <1>13, <2>1, <2>2, <2>3, GShortRoundTrip, PrintableBytes
         DEF Written, GStringShort
    <2>5. At(h, p)
      BY <1>3, <2>2, <2>4, AtBoth
    <2>6. PICK v : v = OfGShort(Lanes(2, p))
      OBVIOUS
    <2>7. p + 2 <= Len(data) => v = Len(e)
      BY <2>2, <2>4, <2>5, <2>6, LanesBack
    <2>8. PICK r : r = Take(2, p, v, 0)
      OBVIOUS
    <2>9. ReadAs(r, h, Len(e), p)
      BY <2>4, <2>7, <2>8, TakeBack
    <2>10. r.value \in Nat
      <3>1. r.value = IF p + 2 > Len(data) THEN 0 ELSE v
        BY <2>8, TakeForward
      <3>2. Len(data) \in Nat
        BY DEF Inside
      <3> QED
        BY <1>1, <2>2, <2>7, <3>1, <3>2
    <2>11. ReadAs(ReadString(r.value, r.pos), w, e, p)
      BY <1>3, <2>2, <2>4, <2>9, <2>10, CountedBack
    <2> QED
      BY <1>2, <1>13, <2>1, <2>6, <2>8, <2>11 DEF Read, Kept
  <1> QED
    BY <1>4, <1>5, <1>6, <1>7, <1>8, <1>9, <1>10, <1>11, <1>12, <1>13
       DEF Kind, Numeric

-----------------------------------------------------------------------------
(* The invariant.                                                          *)

\* The packet is bytes, the fields are those that were written, and the
\* reader is inside the packet, at its start as long as it is being built.
ReaderInv == /\ fields \in Seq(Field) /\ Inside(pos)
             /\ mode \in LoopKind \cup {"build", "schema"}
             /\ mode = "build" => pos = 0
             /\ \E S : got \in Seq(S)

\* A step of a reader's loop moves forward.
LEMMA LoopForward ==
    ASSUME ReaderInv, ReadLoop
    PROVE  pos' \in Nat /\ pos <= pos' /\ pos' <= Len(data)
  <1>1. CASE mode = "skip"
    BY <1>1 DEF ReaderInv, ReadLoop, Skip, Inside
  <1>2. CASE mode # "skip"
    <2>1. mode \in Kind
      BY <1>2 DEF ReadLoop
    <2> QED
      BY <1>2, <2>1, ReadForward DEF ReaderInv, ReadLoop, Forward
  <1> QED
    BY <1>1, <1>2

\* So does a read of the next field.
LEMMA FieldForward ==
    ASSUME ReaderInv, ReadField
    PROVE  pos' \in Nat /\ pos <= pos' /\ pos' <= Len(data)
  <1>1. PICK f : f = fields[Len(got) + 1]
    OBVIOUS
  <1>2. f \in Field
    <2>1. Len(got) \in Nat
      BY DEF ReaderInv
    <2> QED
      BY <1>1, <2>1 DEF ReaderInv, ReadField
  <1>3. PICK n : n = IF f.kind = "string" THEN Len(f.value) ELSE 0
    OBVIOUS
  <1>4. n \in Nat /\ f.kind \in Kind
    <2>1. f.kind = "string" => f.value \in Seq(Byte)
      BY <1>2 DEF Typed
    <2> QED
      BY <1>2, <1>3, <2>1
  <1>5. pos' = Read(f.kind, n, pos).pos
    BY <1>1, <1>3 DEF ReadField
  <1> QED
    BY <1>4, <1>5, ReadForward DEF ReaderInv, Forward

\* What holds of a packet that was cut.
LEMMA CutInside ==
    ASSUME Inside(0), NEW n \in 0 .. Len(data)
    PROVE  SubSeq(data, 1, n) \in Seq(Byte) /\ Len(SubSeq(data, 1, n)) = n
  <1>1. \A i \in 1 .. n : data[i] \in Byte
    BY DEF Inside
  <1> QED
    BY <1>1, SubSeqProperties DEF Inside

\* ReaderInv is inductive.
LEMMA ReaderStep ==
    ASSUME ReaderInv, [Next]_vars
    PROVE  ReaderInv'
  <1>1. CASE UNCHANGED vars
    BY <1>1 DEF ReaderInv, Inside, vars
  <1>2. ASSUME NEW f \in Field, Write(f)
        PROVE  ReaderInv'
    <2>1. data \in Seq(Byte) /\ Written(f) \in Seq(Byte)
      BY WrittenBytes DEF ReaderInv, Inside
    <2>2. data' \in Seq(Byte) /\ Len(data') \in Nat
      BY <1>2, <2>1, ConcatProperties DEF Write
    <2>3. fields' \in Seq(Field)
      BY <1>2 DEF ReaderInv, Write
    <2> QED
      BY <1>2, <2>2, <2>3 DEF ReaderInv, Inside, Write
  <1>3. CASE Arrive
    <2>1. pos = 0 /\ Inside(0)
      BY <1>3 DEF Arrive, ReaderInv
    <2>2. data' \in Seq(Byte) /\ Len(data') \in Nat
      BY <1>3, <2>1, CutInside DEF Arrive
    <2>3. mode' \in LoopKind \cup {"schema"} /\ fields' \in Seq(Field)
      <3>1. CASE mode' = "schema" /\ UNCHANGED fields
        BY <3>1 DEF ReaderInv
      <3>2. CASE mode' \in LoopKind /\ fields' = <<>>
        BY <3>2
      <3> QED
        BY <1>3, <3>1, <3>2 DEF Arrive
    <2> QED
      BY <1>3, <2>1, <2>2, <2>3 DEF ReaderInv, Inside, Arrive
  <1>4. CASE ReadField
    <2>1. \E S : got' \in Seq(S)
      <3>1. PICK S : got \in Seq(S)
        BY DEF ReaderInv
      <3>2. PICK v : got' = Append(got, v)
        BY <1>4 DEF ReadField
      <3>3. got' \in Seq(S \cup {v})
        BY <3>1, <3>2
      <3> QED
        BY <3>3
    <2> QED
      BY <1>4, <2>1, FieldForward DEF ReaderInv, Inside, ReadField
  <1>5. CASE ReadLoop
    <2>1. pos' \in Nat /\ pos' <= Len(data)
      BY <1>5, LoopForward
    <2>2. /\ fields' = fields /\ data' = data /\ got' = got /\ mode' = mode
          /\ mode # "build" \/ "build" \in LoopKind
      BY <1>5 DEF ReadLoop
    <2>3. "build" \notin LoopKind
      BY DEF Kind, Numeric
    <2> QED
      BY <2>1, <2>2, <2>3 DEF ReaderInv, Inside
  <1> QED
    BY <1>1, <1>2, <1>3, <1>4, <1>5 DEF Next

\* In every state the reader is inside its packet.
THEOREM ReaderInside == Spec => []ReaderInv
  <1>1. Init => ReaderInv
    BY DEF Init, ReaderInv, Inside
  <1> QED
    BY <1>1, ReaderStep, PTL DEF Spec

\* No read, on any bytes, moves backwards or past the end.
THEOREM ReaderForward == Spec => ForwardOnly
  <1>1. ASSUME ReaderInv, [Next]_vars
        PROVE  [mode # "build" => pos <= pos' /\ pos' <= Len(data)]_vars
    <2>1. CASE UNCHANGED vars
      BY <2>1
    <2>2. CASE \E f \in Field : Write(f)
      BY <2>2 DEF Write
    <2>3. CASE Arrive
      BY <2>3 DEF Arrive
    <2>4. CASE ReadField
      BY <1>1, <2>4, FieldForward
    <2>5. CASE ReadLoop
      BY <1>1, <2>5, LoopForward
    <2> QED
      BY <1>1, <2>1, <2>2, <2>3, <2>4, <2>5 DEF Next
  <1> QED
    BY <1>1, ReaderInside, PTL DEF Spec, ForwardOnly

\* No G-type byte is a control character, the newline that separates packets
\* least of all.
THEOREM NoControlBytes == Spec => []NoControlByte
  <1>1. ReaderInv => NoControlByte
    <2> SUFFICES ASSUME ReaderInv, NEW i \in 1 .. Len(fields),
                        fields[i].kind \in Numeric,
                        NEW j \in 1 .. Len(Written(fields[i]))
                 PROVE  Written(fields[i])[j] >= 32
      BY DEF NoControlByte
    <2>1. fields[i] \in Field
      BY DEF ReaderInv
    <2>2. Written(fields[i])[j] \in Printable
      BY <2>1, NumericPrintable
    <2>3. \A c \in Printable : c >= 32
      BY DEF Printable
    <2> QED
      BY <2>2, <2>3
  <1> QED
    BY <1>1, ReaderInside, PTL

-----------------------------------------------------------------------------
(* What comes back.                                                        *)

\* Reading back is inductive together with where the bytes and the cursor are.
FieldsInv == ReaderInv /\ Laid /\ CursorAligned /\ ReadsBack

\* The invariant holds at the start.
LEMMA InitLaid == Init => FieldsInv
  <1> SUFFICES ASSUME Init
               PROVE  FieldsInv
    OBVIOUS
  <1>1. ReaderInv
    BY DEF Init, ReaderInv, Inside
  <1>2. fields \in Seq(Field) /\ Len(fields) = 0 /\ got = <<>> /\ Len(got) = 0
        /\ Len(data) = 0 /\ mode = "build"
    BY DEF Init
  <1>3. EndOf(0) = 0
    BY <1>2, EndsStep DEF EndOf
  <1> QED
    BY <1>1, <1>2, <1>3 DEF FieldsInv, Laid, CursorAligned, ReadsBack

\* Two strings of bytes as one.
LEMMA Joined ==
    ASSUME NEW s \in Seq(Byte), NEW t \in Seq(Byte)
    PROVE  /\ s \o t \in Seq(Byte) /\ Len(s \o t) = Len(s) + Len(t)
           /\ \A k \in 1 .. Len(s) : (s \o t)[k] = s[k]
           /\ \A j \in 1 .. Len(t) : (s \o t)[Len(s) + j] = t[j]
  OBVIOUS

\* A field is written behind those that are there.
LEMMA WriteLaid ==
    ASSUME FieldsInv, NEW f \in Field, Write(f), ReaderInv'
    PROVE  FieldsInv'
  <1>1. /\ mode = "build" /\ fields \in Seq(Field) /\ data \in Seq(Byte)
        /\ Len(fields) \in Nat /\ Len(data) \in Nat
        /\ Len(data) = EndOf(Len(fields)) /\ got = <<>>
    BY DEF FieldsInv, ReaderInv, Inside, Laid, Write
  <1>2. fields' = Append(fields, f) /\ data' = data \o Written(f)
        /\ got' = <<>> /\ mode' = "build"
    BY <1>1 DEF Write
  <1>3. PICK w \in Seq(Byte) : w = Written(f)
    BY WrittenBytes
  <1>4. /\ fields' \in Seq(Field) /\ Len(fields') = Len(fields) + 1
        /\ fields'[Len(fields) + 1] = f
        /\ \A i \in 1 .. Len(fields) : fields'[i] = fields[i]
    BY <1>1, <1>2
  <1>5. /\ data' \in Seq(Byte) /\ Len(data') = Len(data) + Len(w)
        /\ \A k \in 1 .. Len(data) : data'[k] = data[k]
        /\ \A j \in 1 .. Len(w) : data'[Len(data) + j] = w[j]
    <2>1. data' = data \o w
      BY <1>2, <1>3
    <2>2. PICK d : d = data \o w
      OBVIOUS
    <2>3. /\ d \in Seq(Byte) /\ Len(d) = Len(data) + Len(w)
          /\ \A k \in 1 .. Len(data) : d[k] = data[k]
          /\ \A j \in 1 .. Len(w) : d[Len(data) + j] = w[j]
      BY <1>1, <1>3, <2>2, Joined
    <2> QED
      BY <2>1, <2>2, <2>3
  <1>6. \A i \in 0 .. Len(fields) : EndOf(i)' = EndOf(i) /\ EndOf(i) \in Nat
    BY <1>1, <1>2, EndsAppend, EndsStep DEF EndOf
  <1>7. Ends(fields')[Len(fields) + 1] = EndOf(Len(fields)) + Len(w)
    <2>1. PICK n \in Nat : n = Len(fields)
      BY <1>1
    <2>2. n + 1 \in 1 .. Len(fields') /\ (n + 1) - 1 = n
      BY <1>4, <2>1
    <2>3. Ends(fields')[n + 1] = Ends(fields')[n] + Len(Written(fields'[n + 1]))
      BY <1>4, <2>2, EndsStep
    <2>4. Ends(fields')[n] = EndOf(n)
      BY <1>6, <2>1 DEF EndOf
    <2> QED
      BY <1>3, <1>4, <2>1, <2>3, <2>4 DEF EndOf
  <1>8. Len(data') = Ends(fields')[Len(fields')]
    BY <1>1, <1>4, <1>5, <1>7
  <1>9. ASSUME NEW i \in 1 .. Len(fields'), NEW j \in 1 .. Len(Written(fields'[i])),
               EndOf(i - 1)' + j <= Len(data')
        PROVE  data'[EndOf(i - 1)' + j] = Written(fields'[i])[j]
    <2>1. CASE i = Len(fields) + 1
      <3>1. EndOf(i - 1)' = Len(data)
        BY <1>1, <1>6, <2>1
      <3>2. Written(fields'[i]) = w
        BY <1>3, <1>4, <2>1
      <3> QED
        BY <1>5, <3>1, <3>2
    <2>2. CASE i # Len(fields) + 1
      <3>1. i \in 1 .. Len(fields) /\ i - 1 \in 0 .. Len(fields)
            /\ i \in 0 .. Len(fields)
        BY <1>1, <1>4, <2>2
      <3>2. fields'[i] = fields[i] /\ EndOf(i - 1)' = EndOf(i - 1)
        BY <1>4, <1>6, <3>1
      <3>3. EndOf(i) = EndOf(i - 1) + Len(Written(fields[i]))
        BY <1>1, <3>1, EndsStep DEF EndOf
      <3>4. EndOf(i) <= Len(data)
        BY <1>1, <3>1, EndsBelow DEF EndOf
      <3>5. fields[i] \in Field /\ Written(fields[i]) \in Seq(Byte)
        BY <1>1, <3>1, WrittenBytes
      <3>6. EndOf(i - 1) \in Nat /\ Len(Written(fields[i])) \in Nat /\ j \in Nat
            /\ 1 <= j /\ j <= Len(Written(fields[i]))
        BY <1>6, <3>1, <3>2, <3>5
      <3>7. PICK k \in Nat : k = EndOf(i - 1) + j
        BY <3>6
      <3>8. k \in 1 .. Len(data) /\ k <= Len(data)
        BY <1>1, <3>3, <3>4, <3>6, <3>7
      <3>9. data[k] = Written(fields[i])[j]
        BY <3>1, <3>2, <3>7, <3>8 DEF FieldsInv, Laid
      <3> QED
        BY <1>5, <3>2, <3>7, <3>8, <3>9
    <2> QED
      BY <2>1, <2>2
  <1>10. Len(got') = 0 /\ Len(got') <= Len(fields')
    BY <1>1, <1>2, <1>4
  <1>11. Laid'
    <2>1. Len(data') <= Ends(fields')[Len(fields')]
      BY <1>5, <1>8
    <2> QED
      BY <1>2, <1>8, <1>9, <1>10, <2>1 DEF Laid, EndOf
  <1>12. CursorAligned' /\ ReadsBack'
    BY <1>2, <1>10 DEF CursorAligned, ReadsBack
  <1> QED
    BY <1>11, <1>12 DEF FieldsInv

\* The packet arrives, and what is cut off was its end.
LEMMA ArriveLaid ==
    ASSUME FieldsInv, Arrive, ReaderInv'
    PROVE  FieldsInv'
  <1>1. /\ mode = "build" /\ fields \in Seq(Field) /\ Inside(0) /\ pos = 0
        /\ Len(fields) \in Nat /\ Len(data) \in Nat
        /\ Len(data) = EndOf(Len(fields)) /\ got = <<>> /\ Len(got) = 0
    BY DEF FieldsInv, ReaderInv, Inside, Laid, Arrive
  <1>2. PICK n \in 0 .. Len(data) : data' = SubSeq(data, 1, n)
    BY DEF Arrive
  <1>3. /\ data' \in Seq(Byte) /\ Len(data') = n
        /\ \A k \in 1 .. n : data'[k] = data[k]
    BY <1>1, <1>2, CutInside DEF Inside
  <1>4. pos' = 0 /\ got' = <<>> /\ Len(got') = 0 /\ mode' # "build"
    <2>1. "build" \notin LoopKind
      BY DEF Kind, Numeric
    <2> QED
      BY <1>1, <2>1 DEF Arrive
  <1>5. fields' \in Seq(Field)
    BY DEF ReaderInv
  <1>6. EndOf(0)' = 0
    BY <1>5, EndsStep DEF EndOf
  <1>7. CursorAligned'
    <2>1. Clamp(0, n) = 0
      BY DEF Clamp
    <2> QED
      BY <1>3, <1>4, <1>6, <2>1 DEF CursorAligned
  <1>8. ReadsBack'
    BY <1>4 DEF ReadsBack
  <1>9. CASE mode' = "schema" /\ UNCHANGED fields
    <2>1. ASSUME NEW i \in 1 .. Len(fields), NEW j \in 1 .. Len(Written(fields[i])),
                 EndOf(i - 1) + j <= Len(data')
          PROVE  data'[EndOf(i - 1) + j] = Written(fields[i])[j]
      <3>1. i - 1 \in 0 .. Len(fields)
        BY <1>1
      <3>2. EndOf(i - 1) \in Nat
        BY <1>1, <3>1, EndsStep DEF EndOf
      <3>3. j \in Nat /\ 1 <= j
        OBVIOUS
      <3>4. PICK k \in Nat : k = EndOf(i - 1) + j
        BY <3>2, <3>3
      <3>5. k \in 1 .. n /\ k <= Len(data)
        BY <1>1, <1>3, <2>1, <3>2, <3>3, <3>4
      <3>6. data[k] = Written(fields[i])[j]
        BY <3>4, <3>5 DEF FieldsInv, Laid
      <3> QED
        BY <1>3, <3>4, <3>5, <3>6
    <2>2. Len(data') <= EndOf(Len(fields))
      BY <1>1, <1>2, <1>3
    <2> QED
      BY <1>1, <1>4, <1>7, <1>8, <1>9, <2>1, <2>2 DEF FieldsInv, Laid, EndOf
  <1>10. CASE mode' \in LoopKind /\ fields' = <<>>
    <2>1. Len(fields') = 0
      BY <1>10
    <2> QED
      BY <1>4, <1>7, <1>8, <1>10, <2>1 DEF FieldsInv, Laid
  <1> QED
    BY <1>9, <1>10 DEF Arrive

\* The next field is read where it was written, or the packet has run out.
LEMMA FieldLaid ==
    ASSUME PositionsFit, FieldsInv, ReadField, ReaderInv'
    PROVE  FieldsInv'
  <1>1. /\ mode = "schema" /\ fields \in Seq(Field) /\ Inside(pos)
        /\ Len(fields) \in Nat /\ Len(data) \in Nat /\ pos \in Nat
        /\ Len(got) < Len(fields)
    BY DEF FieldsInv, ReaderInv, Inside, ReadField
  <1>2. PICK S : got \in Seq(S)
    BY DEF FieldsInv, ReaderInv
  <1>3. PICK k \in Nat : k = Len(got)
    BY <1>2
  <1>4. PICK f : f = fields[k + 1]
    OBVIOUS
  <1>5. k + 1 \in 1 .. Len(fields) /\ f \in Field /\ k \in 0 .. Len(fields)
        /\ (k + 1) - 1 = k /\ k + 1 \in 0 .. Len(fields)
    BY <1>1, <1>3, <1>4
  <1>6. PICK n : n = Expected(f)
    OBVIOUS
  <1>7. n \in Nat /\ f.kind \in Kind
    <2>1. f.kind = "string" => f.value \in Seq(Byte)
      BY <1>5 DEF Typed
    <2> QED
      BY <1>5, <1>6, <2>1 DEF Expected
  <1>8. PICK r : r = Read(f.kind, n, pos)
    OBVIOUS
  <1>9. got' = Append(got, r.value) /\ pos' = r.pos
        /\ fields' = fields /\ data' = data /\ mode' = "schema"
    BY <1>1, <1>3, <1>4, <1>6, <1>8 DEF ReadField, Expected
  <1>10. PICK e \in Nat : e = EndOf(k)
    BY <1>1, <1>5, EndsStep DEF EndOf
  <1>11. Written(f) \in Seq(Byte) /\ Len(Written(f)) \in Nat
    BY <1>5, WrittenBytes
  <1>12. PICK u \in Nat : u = e + Len(Written(f))
    BY <1>11
  <1>13. u = EndOf(k + 1)
    BY <1>1, <1>4, <1>5, <1>10, <1>12, EndsStep DEF EndOf
  <1>14. pos = Clamp(e, Len(data))
    BY <1>1, <1>3, <1>10 DEF FieldsInv, CursorAligned
  <1>15. r.pos = Clamp(u, Len(data)) /\ (u <= Len(data) => r.value = Kept(f))
    <2>1. CASE e <= Len(data)
      <3>1. pos = e
        BY <1>1, <1>14, <2>1 DEF Clamp
      <3>2. At(Written(f), pos)
        <4>1. ASSUME NEW j \in 1 .. Len(Written(f)), pos + j <= Len(data)
              PROVE  data[pos + j] = Written(f)[j]
          BY <1>4, <1>5, <1>10, <3>1, <4>1 DEF FieldsInv, Laid
        <4> QED
          BY <4>1 DEF At
      <3>3. ReadAs(r, Written(f), Kept(f), pos)
        BY <1>1, <1>5, <1>6, <1>7, <1>8, <3>2, FieldBack
      <3> QED
        BY <1>12, <3>1, <3>3 DEF ReadAs
    <2>2. CASE ~ (e <= Len(data))
      <3>1. pos = Len(data)
        BY <1>1, <1>14, <2>2 DEF Clamp
      <3>2. Forward(r, pos)
        BY <1>1, <1>7, <1>8, ReadForward
      <3>3. r.pos = Len(data)
        BY <1>1, <3>1, <3>2 DEF Forward
      <3>4. ~ (u <= Len(data)) /\ Clamp(u, Len(data)) = Len(data)
        BY <1>1, <1>11, <1>12, <2>2 DEF Clamp
      <3> QED
        BY <3>3, <3>4
    <2> QED
      BY <2>1, <2>2
  <1>16. /\ Len(got') = k + 1 /\ got'[k + 1] = r.value
         /\ \A i \in 1 .. k : got'[i] = got[i]
    BY <1>2, <1>3, <1>9
  <1>17. Laid'
    <2>1. Len(got') <= Len(fields)
      BY <1>5, <1>16
    <2> QED
      BY <1>1, <1>9, <2>1 DEF FieldsInv, Laid, EndOf
  <1>18. CursorAligned'
    BY <1>9, <1>13, <1>15, <1>16 DEF CursorAligned, EndOf
  <1>19. ReadsBack'
    <2>1. ASSUME NEW i \in 1 .. k + 1, EndOf(i) <= Len(data)
          PROVE  got'[i] = Kept(fields[i])
      <3>1. CASE i = k + 1
        BY <1>4, <1>13, <1>15, <1>16, <2>1, <3>1
      <3>2. CASE i # k + 1
        <4>1. i \in 1 .. k
          BY <3>2
        <4>2. got[i] = Kept(fields[i])
          BY <1>3, <2>1, <4>1 DEF FieldsInv, ReadsBack
        <4> QED
          BY <1>16, <4>1, <4>2
      <3> QED
        BY <3>1, <3>2
    <2> QED
      BY <1>9, <1>16, <2>1 DEF ReadsBack, EndOf
  <1> QED
    BY <1>17, <1>18, <1>19 DEF FieldsInv

\* Every step keeps it.
LEMMA FieldsStep ==
    ASSUME PositionsFit, FieldsInv, [Next]_vars
    PROVE  FieldsInv'
  <1>1. ReaderInv'
    BY ReaderStep DEF FieldsInv
  <1>2. CASE UNCHANGED vars
    BY <1>1, <1>2 DEF FieldsInv, Laid, CursorAligned, ReadsBack, EndOf, vars
  <1>3. CASE \E f \in Field : Write(f)
    BY <1>1, <1>3, WriteLaid
  <1>4. CASE Arrive
    BY <1>1, <1>4, ArriveLaid
  <1>5. CASE ReadField
    BY <1>1, <1>5, FieldLaid
  <1>6. CASE ReadLoop
    <2>1. mode \in LoopKind /\ mode # "schema" /\ mode # "build"
      BY <1>6 DEF ReadLoop, Kind, Numeric
    <2> QED
      BY <1>1, <1>6, <2>1
         DEF FieldsInv, Laid, CursorAligned, ReadsBack, EndOf, ReadLoop
  <1> QED
    BY <1>2, <1>3, <1>4, <1>5, <1>6 DEF Next

\* What was written lies in the packet field behind field, the cursor is on
\* the boundary of a field or at the end, and every field that arrived whole
\* reads back as it was written.
THEOREM FieldsInvariant ==
    ASSUME PositionsFit
    PROVE  Spec => []FieldsInv
  BY InitLaid, FieldsStep, PTL DEF Spec

\* A field that arrived whole reads back, whatever fields are around it.
THEOREM FieldsReadBack ==
    ASSUME PositionsFit
    PROVE  Spec => []ReadsBack
  <1>1. FieldsInv => ReadsBack
    BY DEF FieldsInv
  <1> QED
    BY <1>1, FieldsInvariant, PTL

\* The reader stays on the boundaries of the fields.
THEOREM ReaderAligned ==
    ASSUME PositionsFit
    PROVE  Spec => []CursorAligned
  <1>1. FieldsInv => CursorAligned
    BY DEF FieldsInv
  <1> QED
    BY <1>1, FieldsInvariant, PTL
=============================================================================
