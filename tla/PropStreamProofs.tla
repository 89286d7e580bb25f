-------------------------- MODULE PropStreamProofs --------------------------
(***************************************************************************)
(* PropStream for every stream of legal values, every policy, every cut    *)
(* and any junk: a value of each wire form reads back as ReadBack says,    *)
(* the walk stays on the boundaries of the properties, an alignment check  *)
(* notices every cut, and any walk moves forward whatever the bytes are.   *)
(***************************************************************************)
EXTENDS PropStream, SequenceTheorems, TLAPS

-----------------------------------------------------------------------------
(* Lanes.  Each carry is a lemma of its own, so that what is left to the   *)
(* solver is linear.                                                       *)

\* The clamp stays in the range.
LEMMA ClampRange ==
    ASSUME NEW v \in Int, NEW max \in Nat
    PROVE  Clamp(v, max) \in Nat /\ Clamp(v, max) <= max
  BY DEF Clamp

\* What is not negative.
LEMMA NonNegativeNat ==
    ASSUME NEW v \in Int
    PROVE  NonNegative(v) \in Nat /\ (v >= 0 => NonNegative(v) = v)
  BY DEF NonNegative

\* Any number gives a byte.
LEMMA CharByte ==
    ASSUME NEW d \in Int
    PROVE  Char(d) \in Byte
  BY DEF Char, Byte

\* Adding the offset to a lane does not wrap around.
LEMMA CharOfLane ==
    ASSUME NEW d \in Nat, d <= 223
    PROVE  Char(d) = d + 32 /\ Char(d) \in Byte
  BY DEF Char, Byte

\* A lane is capped.
LEMMA LaneRange ==
    ASSUME NEW d \in Nat
    PROVE  /\ Lane(d) \in Nat /\ Lane(d) <= 223 /\ Lane(d) <= d
           /\ Lane(d) = Clamp(d, 223)
  BY DEF Lane, Clamp

\* A lane of weight w takes d of t, and leaves r.
Split(t, w, d, r) == d = Lane(t \div w) /\ r = t - d * w

\* What a lane leaves is for the lane below it: never negative, in its range
\* if the whole was in the range of two lanes, and beyond it if it was beyond.
LEMMA Rest7 ==
    ASSUME NEW t \in Nat, NEW d, NEW r, Split(t, 128, d, r)
    PROVE  d \in Nat /\ d <= 223 /\ r \in Nat
  <1>1. PICK q \in Nat : q = t \div 128 /\ 128 * q <= t
    OBVIOUS
  <1>2. d = Lane(q) /\ r = t - d * 128
    BY <1>1 DEF Split
  <1>3. d \in Nat /\ d <= 223 /\ d <= q
    BY <1>2, LaneRange
  <1> QED
    BY SMTT(30), <1>1, <1>2, <1>3

LEMMA Carry7 ==
    ASSUME NEW t \in Nat, t <= 28767, NEW d, NEW r, Split(t, 128, d, r)
    PROVE  r <= 223
  <1>1. PICK q \in Nat : /\ q = t \div 128
                         /\ 128 * q <= t /\ t < 128 * q + 128
    OBVIOUS
  <1>2. (d = IF q > 223 THEN 223 ELSE q) /\ r = t - d * 128
    BY <1>1 DEF Lane, Split
  <1> QED
    BY SMTT(30), <1>1, <1>2

LEMMA Full7 ==
    ASSUME NEW t \in Nat, t >= 28767, NEW d, NEW r, Split(t, 128, d, r)
    PROVE  d = 223 /\ r >= 223
  <1>1. PICK q \in Nat : /\ q = t \div 128
                         /\ 128 * q <= t /\ t < 128 * q + 128
    OBVIOUS
  <1>2. (d = IF q > 223 THEN 223 ELSE q) /\ r = t - d * 128
    BY <1>1 DEF Lane, Split
  <1> QED
    BY SMTT(30), <1>1, <1>2

\* The same where two lanes are below.
LEMMA Rest14 ==
    ASSUME NEW t \in Nat, NEW d, NEW r, Split(t, 16384, d, r)
    PROVE  d \in Nat /\ d <= 223 /\ r \in Nat
  <1>1. PICK q \in Nat : q = t \div 16384 /\ 16384 * q <= t
    OBVIOUS
  <1>2. d = Lane(q) /\ r = t - d * 16384
    BY <1>1 DEF Split
  <1>3. d \in Nat /\ d <= 223 /\ d <= q
    BY <1>2, LaneRange
  <1> QED
    BY SMTT(30), <1>1, <1>2, <1>3

LEMMA Carry14 ==
    ASSUME NEW t \in Nat, t <= 3682399, NEW d, NEW r, Split(t, 16384, d, r)
    PROVE  r <= 28767
  <1>1. PICK q \in Nat : /\ q = t \div 16384
                         /\ 16384 * q <= t /\ t < 16384 * q + 16384
    OBVIOUS
  <1>2. (d = IF q > 223 THEN 223 ELSE q) /\ r = t - d * 16384
    BY <1>1 DEF Lane, Split
  <1> QED
    BY SMTT(30), <1>1, <1>2

LEMMA Full14 ==
    ASSUME NEW t \in Nat, t >= 3682399, NEW d, NEW r, Split(t, 16384, d, r)
    PROVE  d = 223 /\ r >= 28767
  <1>1. PICK q \in Nat : /\ q = t \div 16384
                         /\ 16384 * q <= t /\ t < 16384 * q + 16384
    OBVIOUS
  <1>2. (d = IF q > 223 THEN 223 ELSE q) /\ r = t - d * 16384
    BY <1>1 DEF Lane, Split
  <1> QED
    BY SMTT(30), <1>1, <1>2

\* And three, of a number that four lanes can hold.
LEMMA Carry21 ==
    ASSUME NEW t \in Nat, t <= 471347295
    PROVE  LET b == Lane(t \div 2097152)
           IN  b \in 0 .. 223 /\ t - 2097152 * b \in Nat /\ t - 2097152 * b <= 3682399
  <1>1. PICK q \in Nat : /\ q = t \div 2097152
                         /\ 2097152 * q <= t /\ t < 2097152 * q + 2097152
    OBVIOUS
  <1>2. CASE q <= 223
    BY SMTT(30), <1>1, <1>2 DEF Lane
  <1>3. CASE q > 223
    <2>1. Lane(q) = 223
      BY <1>3 DEF Lane
    <2>2. t >= 2097152 * 223
      BY <1>1, <1>3
    <2> QED
      BY SMTT(30), <1>1, <2>1, <2>2
  <1> QED
    BY SMTT(30), <1>1, <1>2, <1>3

\* Bytes in front of bytes.
LEMMA Joined ==
    ASSUME NEW u \in Seq(Byte), NEW v \in Seq(Byte)
    PROVE  /\ u \o v \in Seq(Byte) /\ Len(u \o v) = Len(u) + Len(v)
           /\ \A i \in 1 .. Len(u) : (u \o v)[i] = u[i]
           /\ \A i \in 1 .. Len(v) : (u \o v)[Len(u) + i] = v[i]
  OBVIOUS

LEMMA JoinOne ==
    ASSUME NEW a \in Byte, NEW b \in Byte
    PROVE  <<a>> \o <<b>> = <<a, b>>
  <1>1. <<a>> \in Seq(Byte) /\ <<b>> \in Seq(Byte) /\ <<a, b>> \in Seq(Byte)
    OBVIOUS
  <1>2. PICK u \in Seq(Byte), v \in Seq(Byte), w \in Seq(Byte) :
                u = <<a>> /\ v = <<b>> /\ w = <<a, b>>
    BY <1>1
  <1>3. /\ Len(u) = 1 /\ u[1] = a /\ Len(v) = 1 /\ v[1] = b
        /\ Len(w) = 2 /\ w[1] = a /\ w[2] = b
    BY <1>2
  <1>4. PICK x : x = u \o v
    OBVIOUS
  <1>5. x \in Seq(Byte) /\ Len(x) = 1 + 1 /\ x[1] = a /\ x[1 + 1] = b
    <2>1. /\ u \o v \in Seq(Byte) /\ Len(u \o v) = Len(u) + Len(v)
          /\ \A i \in 1 .. Len(u) : (u \o v)[i] = u[i]
          /\ \A i \in 1 .. Len(v) : (u \o v)[Len(u) + i] = v[i]
      BY Joined
    <2> QED
      BY <1>3, <1>4, <2>1
  <1>6. x = w
    BY <1>3, <1>5, SeqEqual
  <1> QED
    BY <1>2, <1>4, <1>6

LEMMA JoinTwo ==
    ASSUME NEW a \in Byte, NEW b \in Byte, NEW c \in Byte
    PROVE  <<a>> \o <<b, c>> = <<a, b, c>>
  <1>1. <<a>> \in Seq(Byte) /\ <<b, c>> \in Seq(Byte) /\ <<a, b, c>> \in Seq(Byte)
    OBVIOUS
  <1>2. PICK u \in Seq(Byte), v \in Seq(Byte), w \in Seq(Byte) :
                u = <<a>> /\ v = <<b, c>> /\ w = <<a, b, c>>
    BY <1>1
  <1>3. /\ Len(u) = 1 /\ u[1] = a /\ Len(v) = 2 /\ v[1] = b /\ v[2] = c
        /\ Len(w) = 3 /\ w[1] = a /\ w[2] = b /\ w[3] = c
    BY <1>2
  <1>4. PICK x : x = u \o v
    OBVIOUS
  <1>5. /\ x \in Seq(Byte) /\ Len(x) = 1 + 2
        /\ x[1] = a /\ x[1 + 1] = b /\ x[1 + 2] = c
    <2>1. /\ u \o v \in Seq(Byte) /\ Len(u \o v) = Len(u) + Len(v)
          /\ \A i \in 1 .. Len(u) : (u \o v)[i] = u[i]
          /\ \A i \in 1 .. Len(v) : (u \o v)[Len(u) + i] = v[i]
      BY Joined
    <2> QED
      BY <1>3, <1>4, <2>1
  <1>6. x = w
    BY <1>3, <1>5, SeqEqual
  <1> QED
    BY <1>2, <1>4, <1>6

\* The recursive definition of LanesOf defines a function: its table, unrolled.
LEMMA LanesDef ==
    \A n \in 1 .. 4 :
       LanesOf[n] = [t \in Nat |->
          IF n = 1 THEN <<Char(Lane(t))>>
          ELSE LET d == Lane(t \div Weight[n])
               IN  <<Char(d)>> \o LanesOf[n - 1][t - d * Weight[n]]]
  <1> DEFINE Lanes(n, below) ==
                [t \in Nat |->
                   IF n = 1 THEN <<Char(Lane(t))>>
                   ELSE LET d == Lane(t \div Weight[n])
                        IN  <<Char(d)>> \o below[t - d * Weight[n]]]
             Rec(F) == [n \in 1 .. 4 |-> Lanes(n, F[n - 1])]
             L  == CHOOSE F : F = Rec(F)
             l1 == [t \in Nat |-> <<Char(Lane(t))>>]
             l2 == Lanes(2, l1)
             l3 == Lanes(3, l2)
             l4 == Lanes(4, l3)
             f  == [n \in 1 .. 4 |-> IF n = 1 THEN l1 ELSE IF n = 2 THEN l2
                                     ELSE IF n = 3 THEN l3 ELSE l4]
  <1>1. LanesOf = L
    BY DEF LanesOf
  <1>2. \A below : Lanes(1, below) = l1
    OBVIOUS
  <1> HIDE DEF Lanes, l1, l2, l3, l4
  <1>3. f = Rec(f)
    <2>1. f[1] = l1 /\ f[2] = l2 /\ f[3] = l3
      OBVIOUS
    <2>2. l2 = Lanes(2, l1) /\ l3 = Lanes(3, l2) /\ l4 = Lanes(4, l3)
      BY DEF l2, l3, l4
    <2>3. \A n \in 1 .. 4 : f[n] = Lanes(n, f[n - 1])
      BY <1>2, <2>1, <2>2
    <2> HIDE DEF f
    <2>4. f = [n \in 1 .. 4 |-> f[n]]
      BY DEF f
    <2> QED
      BY <2>3, <2>4
  <1>4. L = Rec(L)
    BY <1>3
  <1> HIDE DEF L
  <1>5. \A n \in 1 .. 4 : L[n] = Lanes(n, L[n - 1])
    BY <1>4
  <1> QED
    BY <1>1, <1>5 DEF Lanes

\* _gbyte of one, two and three lanes, lane by lane.
LEMMA OneLane ==
    ASSUME NEW t \in Nat
    PROVE  LanesOf[1][t] = <<Char(Lane(t))>>
  BY LanesDef

LEMMA TwoLanes ==
    ASSUME NEW t \in Nat, NEW d, NEW r, Split(t, 128, d, r)
    PROVE  LanesOf[2][t] = <<Char(d), Char(Lane(r))>>
  <1>1. d \in Nat /\ r \in Nat
    BY Rest7
  <1>2. LanesOf[2][t] = <<Char(d)>> \o LanesOf[1][r]
    <2>1. LanesOf[2] = [m \in Nat |->
             LET c == Lane(m \div Weight[2])
             IN  <<Char(c)>> \o LanesOf[1][m - c * Weight[2]]]
      BY LanesDef
    <2>2. LanesOf[2][t] = LET c == Lane(t \div Weight[2])
                          IN  <<Char(c)>> \o LanesOf[1][t - c * Weight[2]]
      BY <2>1
    <2>3. Weight[2] = 128
      BY DEF Weight
    <2> QED
      BY <2>2, <2>3 DEF Split
  <1>3. LanesOf[1][r] = <<Char(Lane(r))>>
    BY <1>1, OneLane
  <1>4. Char(d) \in Byte /\ Char(Lane(r)) \in Byte
    BY <1>1, LaneRange, CharByte
  <1> QED
    BY <1>2, <1>3, <1>4, JoinOne

LEMMA ThreeLanes ==
    ASSUME NEW t \in Nat, NEW d, NEW r, Split(t, 16384, d, r),
           NEW e, NEW q, Split(r, 128, e, q)
    PROVE  LanesOf[3][t] = <<Char(d), Char(e), Char(Lane(q))>>
  <1>1. d \in Nat /\ r \in Nat
    BY Rest14
  <1>2. LanesOf[3][t] = <<Char(d)>> \o LanesOf[2][r]
    <2>1. LanesOf[3] = [m \in Nat |->
             LET c == Lane(m \div Weight[3])
             IN  <<Char(c)>> \o LanesOf[2][m - c * Weight[3]]]
      BY LanesDef
    <2>2. LanesOf[3][t] = LET c == Lane(t \div Weight[3])
                          IN  <<Char(c)>> \o LanesOf[2][t - c * Weight[3]]
      BY <2>1
    <2>3. Weight[3] = 16384
      BY DEF Weight
    <2> QED
      BY <2>2, <2>3 DEF Split
  <1>3. LanesOf[2][r] = <<Char(e), Char(Lane(q))>>
    BY <1>1, TwoLanes
  <1>4. e \in Nat /\ q \in Nat
    BY <1>1, Rest7
  <1>5. Char(d) \in Byte /\ Char(e) \in Byte /\ Char(Lane(q)) \in Byte
    BY <1>1, <1>4, LaneRange, CharByte
  <1> QED
    BY <1>2, <1>3, <1>5, JoinTwo

-----------------------------------------------------------------------------
(* What _gbyte writes: the lanes of the number, or of the greatest.        *)

\* The lanes of a number that fits make up the number again.
LEMMA TwoSum ==
    ASSUME NEW t \in Nat, NEW d, NEW r, Split(t, 128, d, r)
    PROVE  128 * d + Lane(r) = IF t > 28767 THEN 28767 ELSE t
  <1>1. d \in Nat /\ d <= 223 /\ r \in Nat
    BY Rest7
  <1>2. r = t - d * 128
    BY DEF Split
  <1>3. CASE t <= 28767
    <2>1. r <= 223
      BY <1>3, Carry7
    <2>2. Lane(r) = r
      BY <1>1, <2>1 DEF Lane
    <2> QED
      BY SMTT(30), <1>1, <1>2, <1>3, <2>2
  <1>4. CASE t > 28767
    <2>1. d = 223 /\ r >= 223
      BY SMTT(30), <1>4, Full7
    <2>2. Lane(r) = 223
      BY <1>1, <2>1 DEF Lane
    <2> QED
      BY SMTT(30), <1>4, <2>1, <2>2
  <1> QED
    BY SMTT(30), <1>3, <1>4

\* The same of three lanes.
LEMMA ThreeSum ==
    ASSUME NEW t \in Nat, NEW d, NEW r, Split(t, 16384, d, r),
           NEW e, NEW q, Split(r, 128, e, q)
    PROVE  16384 * d + 128 * e + Lane(q) = IF t > 3682399 THEN 3682399 ELSE t
  <1>1. d \in Nat /\ d <= 223 /\ r \in Nat
    BY Rest14
  <1>2. r = t - d * 16384
    BY DEF Split
  <1>3. e \in Nat /\ q \in Nat
    BY <1>1, Rest7
  <1>4. PICK f \in Nat : f = Lane(q)
    BY <1>3, LaneRange
  <1>5. 128 * e + f = IF r > 28767 THEN 28767 ELSE r
    BY <1>1, <1>4, TwoSum
  <1>6. CASE t <= 3682399
    <2>1. r <= 28767
      BY SMTT(30), <1>6, Carry14
    <2> QED
      BY SMTT(30), <1>1, <1>2, <1>3, <1>4, <1>5, <1>6, <2>1
  <1>7. CASE t > 3682399
    <2>1. d = 223 /\ r >= 28767
      BY SMTT(30), <1>7, Full14
    <2> QED
      BY SMTT(30), <1>1, <1>3, <1>4, <1>5, <1>7, <2>1
  <1> QED
    BY SMTT(30), <1>6, <1>7

\* One byte.
LEMMA GByte1 ==
    ASSUME NEW v \in Int
    PROVE  /\ GByte(v, 1) = <<Clamp(v, 223) + 32>>
           /\ GByte(v, 1) = GChar(v)
  <1>1. PICK t \in Nat : t = NonNegative(v)
    BY NonNegativeNat
  <1>2. Lane(t) = Clamp(v, 223)
    BY <1>1 DEF Lane, Clamp, NonNegative
  <1>3. Char(Lane(t)) = Clamp(v, 223) + 32
    BY <1>1, <1>2, LaneRange, CharOfLane
  <1>4. GByte(v, 1) = <<Char(Lane(t))>>
    BY <1>1, OneLane DEF GByte
  <1> QED
    BY <1>2, <1>3, <1>4 DEF GChar

\* Two bytes: lanes that make up the number or the greatest.
LEMMA GByte2 ==
    ASSUME NEW v \in Int
    PROVE  \E a, b \in 0 .. 223 :
              /\ GByte(v, 2) = <<a + 32, b + 32>>
              /\ 128 * a + b = Clamp(v, GShortMax)
  <1>1. PICK t \in Nat : t = NonNegative(v)
    BY NonNegativeNat
  <1>2. PICK d, r : Split(t, 128, d, r)
    BY DEF Split
  <1>3. d \in Nat /\ d <= 223 /\ r \in Nat
    BY <1>2, Rest7
  <1>4. PICK e \in Nat : e = Lane(r) /\ e <= 223
    BY <1>3, LaneRange
  <1>5. LanesOf[2][t] = <<Char(d), Char(e)>>
    BY <1>2, <1>4, TwoLanes
  <1>6. Char(d) = d + 32 /\ Char(e) = e + 32
    BY <1>3, <1>4, CharOfLane
  <1>7. GByte(v, 2) = <<d + 32, e + 32>>
    BY <1>1, <1>5, <1>6 DEF GByte
  <1>8. 128 * d + e = IF t > 28767 THEN 28767 ELSE t
    BY <1>2, <1>4, TwoSum
  <1>9. 128 * d + e = Clamp(v, GShortMax)
    BY SMTT(30), <1>1, <1>8 DEF Clamp, NonNegative, GShortMax
  <1> d \in 0 .. 223 /\ e \in 0 .. 223
    BY <1>3, <1>4
  <1> WITNESS d \in 0 .. 223, e \in 0 .. 223
  <1> QED
    BY <1>7, <1>9

\* And three.
LEMMA GByte3 ==
    ASSUME NEW v \in Int
    PROVE  \E a, b, c \in 0 .. 223 :
              /\ GByte(v, 3) = <<a + 32, b + 32, c + 32>>
              /\ 128 * (128 * a + b) + c = Clamp(v, GInt3Max)
  <1>1. PICK t \in Nat : t = NonNegative(v)
    BY NonNegativeNat
  <1>2. PICK d, r : Split(t, 16384, d, r)
    BY DEF Split
  <1>3. d \in Nat /\ d <= 223 /\ r \in Nat
    BY <1>2, Rest14
  <1>4. PICK e, q : Split(r, 128, e, q)
    BY DEF Split
  <1>5. e \in Nat /\ e <= 223 /\ q \in Nat
    BY <1>3, <1>4, Rest7
  <1>6. PICK f \in Nat : f = Lane(q) /\ f <= 223
    BY <1>5, LaneRange
  <1>7. LanesOf[3][t] = <<Char(d), Char(e), Char(f)>>
    BY <1>2, <1>4, <1>6, ThreeLanes
  <1>8. Char(d) = d + 32 /\ Char(e) = e + 32 /\ Char(f) = f + 32
    BY <1>3, <1>5, <1>6, CharOfLane
  <1>9. GByte(v, 3) = <<d + 32, e + 32, f + 32>>
    BY <1>1, <1>7, <1>8 DEF GByte
  <1>10. 16384 * d + 128 * e + f = IF t > 3682399 THEN 3682399 ELSE t
    BY <1>2, <1>4, <1>6, ThreeSum
  <1>11. 128 * (128 * d + e) + f = Clamp(v, GInt3Max)
    BY SMTT(30), <1>1, <1>3, <1>5, <1>10 DEF Clamp, NonNegative, GInt3Max
  <1> d \in 0 .. 223 /\ e \in 0 .. 223 /\ f \in 0 .. 223
    BY <1>3, <1>5, <1>6
  <1> WITNESS d \in 0 .. 223, e \in 0 .. 223, f \in 0 .. 223
  <1> QED
    BY <1>9, <1>11

\* The lanes PacketBuilder writes for the clamped number are those of the
\* number: beyond the range each lane is full.
LEMMA GShortLanes ==
    ASSUME NEW v \in Int
    PROVE  GByte(v, 2) = GShort(v)
  <1>1. PICK t \in Nat : t = NonNegative(v)
    BY NonNegativeNat
  <1>2. PICK c : c = Clamp(v, GShortMax)
    OBVIOUS
  <1>3. c = IF t > 28767 THEN 28767 ELSE t
    BY SMTT(30), <1>1, <1>2 DEF Clamp, NonNegative, GShortMax
  <1>4. c \in Nat /\ c <= 28767
    BY SMTT(30), <1>3
  <1>5. PICK d, r : Split(c, 128, d, r)
    BY DEF Split
  <1>6. d \in Nat /\ r \in Nat
    BY <1>4, <1>5, Rest7
  <1>7. r <= 223
    BY <1>4, <1>5, Carry7
  <1>8. Lane(r) = r
    BY <1>6, <1>7 DEF Lane
  <1>9. LanesOf[2][c] = <<Char(d), Char(r)>>
    BY <1>4, <1>5, <1>8, TwoLanes
  <1>10. GShort(v) = <<Char(d), Char(r)>>
    <2>1. d = Lane(c \div 128) /\ r = c - d * 128
      BY <1>5 DEF Split
    <2>2. c - 128 * d = r
      BY <1>4, <1>6, <2>1
    <2>3. GShort(v) = <<Char(d), Char(c - 128 * d)>>
      BY <1>2, <2>1 DEF GShort
    <2> QED
      BY <2>2, <2>3
  <1>11. LanesOf[2][t] = LanesOf[2][c]
    <2>1. CASE t <= 28767
      BY SMTT(30), <1>3, <2>1
    <2>2. CASE t > 28767
      <3>1. PICK d2, r2 : Split(t, 128, d2, r2)
        BY DEF Split
      <3>2. d2 = 223 /\ r2 >= 223
        BY SMTT(30), <2>2, <3>1, Full7
      <3>3. r2 \in Nat
        BY <3>1, Rest7
      <3>4. Lane(r2) = 223
        BY <3>2, <3>3 DEF Lane
      <3>5. LanesOf[2][t] = <<Char(223), Char(223)>>
        BY <3>1, <3>2, <3>4, TwoLanes
      <3>6. c >= 28767
        BY SMTT(30), <1>3, <2>2
      <3>7. d = 223 /\ r >= 223
        BY <1>4, <1>5, <3>6, Full7
      <3>8. r = 223
        BY <1>6, <1>7, <3>7
      <3> QED
        BY <1>9, <3>5, <3>7, <3>8
    <2> QED
      BY SMTT(30), <2>1, <2>2
  <1> QED
    BY <1>1, <1>9, <1>10, <1>11 DEF GByte

\* And the three of GInt3.
LEMMA GInt3Lanes ==
    ASSUME NEW v \in Int
    PROVE  GByte(v, 3) = GInt3(v)
  <1>1. PICK t \in Nat : t = NonNegative(v)
    BY NonNegativeNat
  <1>2. PICK c : c = Clamp(v, GInt3Max)
    OBVIOUS
  <1>3. c = IF t > 3682399 THEN 3682399 ELSE t
    BY SMTT(30), <1>1, <1>2 DEF Clamp, NonNegative, GInt3Max
  <1>4. c \in Nat /\ c <= 3682399
    BY SMTT(30), <1>3
  <1>5. PICK d, r : Split(c, 16384, d, r)
    BY DEF Split
  <1>6. d \in Nat /\ r \in Nat
    BY <1>4, <1>5, Rest14
  <1>7. r <= 28767
    BY <1>4, <1>5, Carry14
  <1>8. PICK e, q : Split(r, 128, e, q)
    BY DEF Split
  <1>9. e \in Nat /\ q \in Nat
    BY <1>6, <1>8, Rest7
  <1>10. q <= 223
    BY <1>6, <1>7, <1>8, Carry7
  <1>11. Lane(q) = q
    BY <1>9, <1>10 DEF Lane
  <1>12. LanesOf[3][c] = <<Char(d), Char(e), Char(q)>>
    BY <1>4, <1>5, <1>8, <1>11, ThreeLanes
  <1>13. GInt3(v) = <<Char(d), Char(e), Char(q)>>
    <2>1. d = Lane(c \div 16384) /\ r = c - d * 16384
      BY <1>5 DEF Split
    <2>2. PICK u : u = c - 16384 * d
      OBVIOUS
    <2>3. u = r
      BY SMTT(30), <1>4, <1>6, <2>1, <2>2
    <2>4. e = Lane(r \div 128) /\ q = r - e * 128
      BY <1>8 DEF Split
    <2>5. PICK w : w = r - 128 * e
      OBVIOUS
    <2>6. w = q
      BY <1>6, <1>9, <2>4, <2>5
    <2>7. GInt3(v) = LET b1 == Lane(u \div 128)
                     IN  <<Char(d), Char(b1), Char(u - 128 * b1)>>
      BY SMTT(30), <1>2, <2>1, <2>2 DEF GInt3
    <2> QED
      BY SMTT(30), <2>3, <2>4, <2>5, <2>6, <2>7
  <1>14. LanesOf[3][t] = LanesOf[3][c]
    <2>1. CASE t <= 3682399
      BY SMTT(30), <1>3, <2>1
    <2>2. CASE t > 3682399
      <3>1. PICK d2, r2 : Split(t, 16384, d2, r2)
        BY DEF Split
      <3>2. d2 = 223 /\ r2 >= 28767
        BY SMTT(30), <2>2, <3>1, Full14
      <3>3. r2 \in Nat
        BY <3>1, Rest14
      <3>4. PICK e2, q2 : Split(r2, 128, e2, q2)
        BY DEF Split
      <3>5. e2 = 223 /\ q2 >= 223
        BY <3>2, <3>3, <3>4, Full7
      <3>6. q2 \in Nat
        BY <3>3, <3>4, Rest7
      <3>7. Lane(q2) = 223
        BY <3>5, <3>6 DEF Lane
      <3>8. LanesOf[3][t] = <<Char(223), Char(223), Char(223)>>
        BY <3>1, <3>2, <3>4, <3>5, <3>7, ThreeLanes
      <3>9. c >= 3682399
        BY SMTT(30), <1>3, <2>2
      <3>10. d = 223 /\ r >= 28767
        BY <1>4, <1>5, <3>9, Full14
      <3>11. e = 223 /\ q >= 223
        BY <1>6, <1>8, <3>10, Full7
      <3>12. q = 223
        BY <1>9, <1>10, <3>11
      <3> QED
        BY <1>12, <3>8, <3>10, <3>11, <3>12
    <2> QED
      BY SMTT(30), <2>1, <2>2
  <1> QED
    BY <1>1, <1>12, <1>13, <1>14 DEF GByte

-----------------------------------------------------------------------------
(* Reading numbers.                                                        *)

\* Horner's scheme, unrolled for up to three lanes.
LEMMA SumDef ==
    ASSUME NEW b \in Seq(Int), Len(b) \in 1 .. 3
    PROVE  /\ Len(b) = 1 => SumOfLanes(b) = b[1] - 32
           /\ Len(b) = 2 => SumOfLanes(b) = 128 * (b[1] - 32) + (b[2] - 32)
           /\ Len(b) = 3 => SumOfLanes(b) =
                 128 * (128 * (b[1] - 32) + (b[2] - 32)) + (b[3] - 32)
  <1> DEFINE Rec(F) == [n \in 0 .. Len(b) |->
                          IF n = 0 THEN 0 ELSE 128 * F[n - 1] + (b[n] - 32)]
             V == CHOOSE F : F = Rec(F)
  <1>0. PICK m \in 1 .. 3 : m = Len(b)
    OBVIOUS
  <1>1. SumOfLanes(b) = V[Len(b)]
    BY DEF SumOfLanes
  <1>2. PICK c \in [1 .. 3 -> Int] : \A i \in 1 .. Len(b) : c[i] = b[i] - 32
    <2> DEFINE g == [i \in 1 .. 3 |-> IF i <= Len(b) THEN b[i] - 32 ELSE 0]
    <2>1. g \in [1 .. 3 -> Int]
      OBVIOUS
    <2>2. \A i \in 1 .. Len(b) : g[i] = b[i] - 32
      <3>1. \A i \in 1 .. m : i \in 1 .. 3 /\ i <= m
        OBVIOUS
      <3> QED
        BY <1>0, <3>1
    <2> HIDE DEF g
    <2> QED
      BY <2>1, <2>2
  <1>3. PICK s1 \in Int, s2 \in Int, s3 \in Int :
           s1 = c[1] /\ s2 = 128 * s1 + c[2] /\ s3 = 128 * s2 + c[3]
    OBVIOUS
  <1>4. V = Rec(V)
    <2> DEFINE f == [n \in 0 .. Len(b) |->
                       IF n = 0 THEN 0 ELSE IF n = 1 THEN s1
                       ELSE IF n = 2 THEN s2 ELSE s3]
    <2>1. \A n \in 0 .. Len(b) :
             f[n] = IF n = 0 THEN 0 ELSE 128 * f[n - 1] + (b[n] - 32)
      <3> TAKE n \in 0 .. Len(b)
      <3>1. /\ f[0] = 0 /\ (Len(b) >= 1 => f[1] = s1)
            /\ (Len(b) >= 2 => f[2] = s2) /\ (Len(b) >= 3 => f[3] = s3)
        OBVIOUS
      <3> HIDE DEF f
      <3>2. CASE n = 0
        BY <3>1, <3>2
      <3>3. CASE n = 1
        <4>1. f[n - 1] = 0 /\ b[n] - 32 = c[1] /\ f[n] = s1
          BY <1>2, <3>1, <3>3
        <4>2. 128 * f[n - 1] + (b[n] - 32) = 128 * 0 + c[1]
          BY <4>1
        <4>3. 128 * 0 + c[1] = s1
          BY <1>3
        <4>4. n # 0
          BY <3>3
        <4> QED
          BY <4>1, <4>2, <4>3, <4>4
      <3>4. CASE n = 2
        <4>1. f[n - 1] = s1 /\ b[n] - 32 = c[2] /\ f[n] = s2
          BY <1>2, <3>1, <3>4
        <4>2. 128 * f[n - 1] + (b[n] - 32) = 128 * s1 + c[2]
          BY <4>1
        <4>3. 128 * s1 + c[2] = s2
          BY <1>3
        <4>4. n # 0
          BY <3>4
        <4> QED
          BY <4>1, <4>2, <4>3, <4>4
      <3>5. CASE n = 3
        <4>1. f[n - 1] = s2 /\ b[n] - 32 = c[3] /\ f[n] = s3
          BY <1>2, <3>1, <3>5
        <4>2. 128 * f[n - 1] + (b[n] - 32) = 128 * s2 + c[3]
          BY <4>1
        <4>3. 128 * s2 + c[3] = s3
          BY <1>3
        <4>4. n # 0
          BY <3>5
        <4> QED
          BY <4>1, <4>2, <4>3, <4>4
      <3>6. n = 0 \/ n = 1 \/ n = 2 \/ n = 3
        <4>1. n \in 0 .. m
          BY <1>0
        <4> QED
          BY <4>1
      <3> HIDE DEF f
      <3> QED
        BY <3>2, <3>3, <3>4, <3>5, <3>6
    <2>2. f = [n \in 0 .. Len(b) |-> f[n]]
      OBVIOUS
    <2> HIDE DEF f
    <2>3. f = Rec(f)
      BY <2>1, <2>2
    <2> QED
      BY <2>3
  <1> HIDE DEF V
  <1>5. \A n \in 0 .. Len(b) :
           V[n] = IF n = 0 THEN 0 ELSE 128 * V[n - 1] + (b[n] - 32)
    BY <1>4
  <1>6. V[0] = 0
    BY <1>5
  <1>7. V[1] = b[1] - 32
    <2>1. V[1] = 128 * V[1 - 1] + (b[1] - 32)
      BY <1>5
    <2>2. b[1] \in Int
      OBVIOUS
    <2> QED
      BY <1>6, <2>1, <2>2
  <1>8. Len(b) >= 2 => V[2] = 128 * (b[1] - 32) + (b[2] - 32)
    <2>1. Len(b) >= 2 => V[2] = 128 * V[2 - 1] + (b[2] - 32)
      BY <1>5
    <2> QED
      BY <1>7, <2>1
  <1>9. Len(b) >= 3 =>
           V[3] = 128 * (128 * (b[1] - 32) + (b[2] - 32)) + (b[3] - 32)
    <2>1. Len(b) >= 3 => V[3] = 128 * V[3 - 1] + (b[3] - 32)
      BY <1>5
    <2> QED
      BY <1>8, <2>1
  <1> DEFINE t1 == b[1] - 32
             t2 == 128 * (b[1] - 32) + (b[2] - 32)
             t3 == 128 * (128 * (b[1] - 32) + (b[2] - 32)) + (b[3] - 32)
  <1> HIDE DEF t1, t2, t3
  <1>10. V[1] = t1 /\ (m >= 2 => V[2] = t2) /\ (m >= 3 => V[3] = t3)
    BY <1>0, <1>7, <1>8, <1>9 DEF t1, t2, t3
  <1>11. /\ m = 1 => SumOfLanes(b) = t1
         /\ m = 2 => SumOfLanes(b) = t2
         /\ m = 3 => SumOfLanes(b) = t3
    <2>1. SumOfLanes(b) = V[m]
      BY <1>0, <1>1
    <2>2. m = 1 => V[m] = t1
      BY <1>10
    <2>3. m = 2 => V[m] = t2
      BY <1>10
    <2>4. m = 3 => V[m] = t3
      BY <1>10
    <2> QED
      BY <2>1, <2>2, <2>3, <2>4
  <1> QED
    BY <1>0, <1>11 DEF t1, t2, t3

\* None is no value.
LEMMA NotNone ==
    /\ \A v \in Value : v # None
    /\ \A v \in Seq(Int) : v # None /\ v \in Value
    /\ \A v \in Seq(Byte) : v # None /\ v \in Value /\ v \in Seq(Int)
    /\ \A n \in Int : <<n>> # None /\ <<n>> \in Value
  <1>1. \A v \in Value : v # None
    BY PropsAssumption
  <1>2. \A v \in Seq(Int) : v \in Value
    BY DEF Value
  <1>3. \A v \in Seq(Byte) : v \in Seq(Int)
    <2>1. \A b \in Byte : b \in Int
      BY DEF Byte
    <2> QED
      BY <2>1
  <1>4. \A n \in Int : <<n>> \in Seq(Int)
    OBVIOUS
  <1> QED
    BY <1>1, <1>2, <1>3, <1>4

\* The bytes of data from p to q.
LEMMA BytesType ==
    ASSUME data \in Seq(Byte), NEW p \in Nat, NEW q \in Nat, p <= q, q <= Size
    PROVE  /\ Bytes(p, q) \in Seq(Byte) /\ Len(Bytes(p, q)) = q - p
           /\ \A i \in 1 .. q - p : Bytes(p, q)[i] = data[p + i]
  <1>1. p + 1 \in 1 .. Size + 1 /\ q \in p .. Size
    BY DEF Size
  <1>2. \A i \in p + 1 .. q : data[i] \in Byte
    BY DEF Size
  <1>3. PICK b : b = SubSeq(data, p + 1, q)
    OBVIOUS
  <1>4. b \in Seq(Byte) /\ Len(b) = IF p + 1 <= q THEN q - (p + 1) + 1 ELSE 0
    BY <1>2, <1>3, SubSeqProperties DEF Size
  <1>5. \A i \in 1 .. q - p : b[i] = data[p + i]
    BY <1>2, <1>3, SubSeqProperties DEF Size
  <1> QED
    BY <1>3, <1>4, <1>5 DEF Bytes

\* What there is of e in the data, from p on, is e.
At(p, e) == \A k \in 1 .. Len(e) : p + k <= Size => data[p + k] = e[k]

\* What is there whole is read whole.
LEMMA BytesWhole ==
    ASSUME data \in Seq(Byte), NEW p \in Nat, NEW e \in Seq(Byte), At(p, e),
           p + Len(e) <= Size
    PROVE  Bytes(p, p + Len(e)) = e
  <1>1. PICK n \in Nat : n = Len(e)
    OBVIOUS
  <1>2. PICK b : b = Bytes(p, p + n)
    OBVIOUS
  <1>3. /\ b \in Seq(Byte) /\ Len(b) = p + n - p
        /\ \A i \in 1 .. p + n - p : b[i] = data[p + i]
    <2>1. PICK q \in Nat : q = p + n
      BY <1>1
    <2>2. p <= q /\ q <= Size
      BY <1>1, <2>1
    <2>3. /\ Bytes(p, q) \in Seq(Byte) /\ Len(Bytes(p, q)) = q - p
          /\ \A i \in 1 .. q - p : Bytes(p, q)[i] = data[p + i]
      BY <2>2, BytesType
    <2> QED
      BY <1>2, <2>1, <2>3
  <1>4. \A i \in 1 .. n : data[p + i] = e[i]
    BY <1>1 DEF At, Size
  <1>5. p + n - p = n
    OBVIOUS
  <1>6. b = e
    BY <1>1, <1>3, <1>4, <1>5, SeqEqual
  <1> QED
    BY <1>1, <1>2, <1>6

\* What consists of two parts holds the one behind the other.
LEMMA AtJoined ==
    ASSUME NEW p \in Nat, NEW a \in Seq(Byte), NEW b \in Seq(Byte), At(p, a \o b)
    PROVE  At(p, a) /\ At(p + Len(a), b)
  <1>1. PICK c : c = a \o b
    OBVIOUS
  <1>2. PICK m \in Nat, n \in Nat : m = Len(a) /\ n = Len(b)
    OBVIOUS
  <1>3. /\ Len(c) = m + n
        /\ \A i \in 1 .. m : c[i] = a[i]
        /\ \A i \in 1 .. n : c[m + i] = b[i]
    BY <1>1, <1>2, Joined
  <1>4. \A k \in 1 .. m + n : p + k <= Size => data[p + k] = c[k]
    BY <1>1, <1>3 DEF At
  <1>5. \A k \in 1 .. m : p + k <= Size => data[p + k] = a[k]
    <2> TAKE k \in 1 .. m
    <2>1. k \in 1 .. m + n
      OBVIOUS
    <2> QED
      BY <1>3, <1>4, <2>1
  <1>6. \A k \in 1 .. n : (p + m) + k <= Size => data[(p + m) + k] = b[k]
    <2> TAKE k \in 1 .. n
    <2>1. PICK j : j = m + k
      OBVIOUS
    <2>2. j \in 1 .. m + n /\ p + j = (p + m) + k
      BY <2>1
    <2>3. c[j] = b[k]
      BY <1>3, <2>1
    <2> QED
      BY <1>4, <2>2, <2>3
  <1> QED
    BY <1>2, <1>5, <1>6 DEF At

\* The lanes of a number are as many bytes.
LEMMA GByteType ==
    ASSUME NEW n \in 1 .. 3, NEW v \in Int
    PROVE  GByte(v, n) \in Seq(Byte) /\ Len(GByte(v, n)) = n
  <1>0. \A d \in 0 .. 223 : d + 32 \in Byte
    BY DEF Byte
  <1>1. CASE n = 1
    <2>1. PICK a \in 0 .. 223 : GByte(v, 1) = <<a + 32>>
      <3>1. Clamp(v, 223) \in Nat /\ Clamp(v, 223) <= 223
        BY ClampRange
      <3>2. Clamp(v, 223) \in 0 .. 223
        BY <3>1
      <3> QED
        BY <3>2, GByte1
    <2>2. PICK x \in Byte : x = a + 32
      BY <1>0
    <2>3. <<x>> \in Seq(Byte) /\ Len(<<x>>) = 1
      OBVIOUS
    <2> QED
      BY <1>1, <2>1, <2>2, <2>3
  <1>2. CASE n = 2
    <2>1. PICK a \in 0 .. 223, b \in 0 .. 223 : GByte(v, 2) = <<a + 32, b + 32>>
      BY GByte2
    <2>2. PICK x \in Byte, y \in Byte : x = a + 32 /\ y = b + 32
      BY <1>0
    <2>3. <<x, y>> \in Seq(Byte) /\ Len(<<x, y>>) = 2
      OBVIOUS
    <2> QED
      BY <1>2, <2>1, <2>2, <2>3
  <1>3. CASE n = 3
    <2>1. PICK a \in 0 .. 223, b \in 0 .. 223, c \in 0 .. 223 :
             GByte(v, 3) = <<a + 32, b + 32, c + 32>>
      BY GByte3
    <2>2. PICK x \in Byte, y \in Byte, z \in Byte :
             x = a + 32 /\ y = b + 32 /\ z = c + 32
      BY <1>0
    <2>3. <<x, y, z>> \in Seq(Byte) /\ Len(<<x, y, z>>) = 3
      OBVIOUS
    <2> QED
      BY <1>3, <2>1, <2>2, <2>3
  <1> QED
    BY <1>1, <1>2, <1>3

\* And make up the number, or the greatest.
LEMMA SumOfGByte ==
    ASSUME NEW n \in 1 .. 3, NEW v \in Int
    PROVE  SumOfLanes(GByte(v, n)) = Clamp(v, LaneMax[n])
  <1>0. PICK g : g = GByte(v, n)
    OBVIOUS
  <1>4. g \in Seq(Int) /\ Len(g) = n
    BY <1>0, GByteType, NotNone
  <1>1. CASE n = 1
    <2>1. g[1] - 32 = Clamp(v, 223)
      <3>1. PICK a \in Nat : a = Clamp(v, 223)
        BY ClampRange
      <3>2. g = <<a + 32>>
        BY <1>0, <1>1, <3>1, GByte1
      <3> QED
        BY <3>1, <3>2
    <2>2. SumOfLanes(g) = g[1] - 32
      BY <1>1, <1>4, SumDef
    <2> QED
      BY <1>0, <1>1, <2>1, <2>2 DEF LaneMax
  <1>2. CASE n = 2
    <2>1. PICK a \in 0 .. 223, b \in 0 .. 223 :
             /\ g = <<a + 32, b + 32>>
             /\ 128 * a + b = Clamp(v, GShortMax)
      BY <1>0, <1>2, GByte2
    <2>2. SumOfLanes(g) = 128 * (g[1] - 32) + (g[2] - 32)
      BY <1>2, <1>4, SumDef
    <2>3. g[1] - 32 = a /\ g[2] - 32 = b
      BY <2>1
    <2> QED
      BY <1>0, <1>2, <2>1, <2>2, <2>3 DEF LaneMax
  <1>3. CASE n = 3
    <2>1. PICK a \in 0 .. 223, b \in 0 .. 223, c \in 0 .. 223 :
             /\ g = <<a + 32, b + 32, c + 32>>
             /\ 128 * (128 * a + b) + c = Clamp(v, GInt3Max)
      BY <1>0, <1>3, GByte3
    <2>2. SumOfLanes(g) = 128 * (128 * (g[1] - 32) + (g[2] - 32)) + (g[3] - 32)
      BY <1>3, <1>4, SumDef
    <2>3. g[1] - 32 = a /\ g[2] - 32 = b /\ g[3] - 32 = c
      BY <2>1
    <2> QED
      BY <1>0, <1>3, <2>1, <2>2, <2>3 DEF LaneMax
  <1> QED
    BY <1>1, <1>2, <1>3

\* Five lanes: the four lower ones hold any 28 bits, so nothing spills into
\* the top one.
LEMMA GInt5Reads ==
    ASSUME NEW v \in GInt5Value
    PROVE  /\ GInt5Lanes(v) \in Seq(Byte) /\ Len(GInt5Lanes(v)) = 5
           /\ OfGInt5(GInt5Lanes(v)) = v
  <1>1. PICK b1 : b1 = Lane(v.low \div 2097152)
    OBVIOUS
  <1>2. PICK r : r = v.low - 2097152 * b1
    OBVIOUS
  <1>3. PICK b2, q : Split(r, 16384, b2, q)
    BY DEF Split
  <1>4. PICK b3, p : Split(q, 128, b3, p)
    BY DEF Split
  <1>5. v.low \in Nat /\ v.low <= 268435455 /\ v.high \in 0 .. 15
    BY SMTT(30) DEF GInt5Value
  <1>6. b1 \in 0 .. 223 /\ r \in Nat /\ r <= 3682399
    BY SMTT(30), <1>1, <1>2, <1>5, Carry21
  <1>7. b2 \in Nat /\ b2 <= 223 /\ q \in Nat
    BY <1>3, <1>6, Rest14
  <1>8. q <= 28767
    BY SMTT(30), <1>3, <1>6, Carry14
  <1>9. b3 \in Nat /\ b3 <= 223 /\ p \in Nat
    BY <1>4, <1>7, Rest7
  <1>10. p <= 223
    BY SMTT(30), <1>4, <1>7, <1>8, Carry7
  <1>11. /\ b2 = Lane(r \div 16384) /\ q = r - 16384 * b2
         /\ b3 = Lane(q \div 128) /\ p = q - 128 * b3
    <2>1. /\ b2 = Lane(r \div 16384) /\ q = r - b2 * 16384
          /\ b3 = Lane(q \div 128) /\ p = q - b3 * 128
      BY <1>3, <1>4 DEF Split
    <2>2. b2 * 16384 = 16384 * b2 /\ b3 * 128 = 128 * b3
      BY SMTT(30), <1>7, <1>9
    <2> QED
      BY SMTT(30), <2>1, <2>2
  <1>12. /\ Char(v.high) = v.high + 32 /\ Char(v.high) \in Byte
         /\ Char(b1) = b1 + 32 /\ Char(b1) \in Byte
         /\ Char(b2) = b2 + 32 /\ Char(b2) \in Byte
         /\ Char(b3) = b3 + 32 /\ Char(b3) \in Byte
         /\ Char(p) = p + 32 /\ Char(p) \in Byte
    BY SMTT(30), <1>5, <1>6, <1>7, <1>9, <1>10, CharOfLane
  <1>13. GInt5Lanes(v) = <<Char(v.high), Char(b1), Char(b2), Char(b3), Char(p)>>
    <2>1. GInt5Lanes(v) = LET s  == v.low - 2097152 * b1
                         c2 == Lane(s \div 16384)
                         t  == s - 16384 * c2
                         c3 == Lane(t \div 128)
                     IN  <<Char(v.high), Char(b1), Char(c2), Char(c3),
                           Char(t - 128 * c3)>>
      BY SMTT(30), <1>1 DEF GInt5Lanes
    <2>2. GInt5Lanes(v) = LET c2 == Lane(r \div 16384)
                         t  == r - 16384 * c2
                         c3 == Lane(t \div 128)
                     IN  <<Char(v.high), Char(b1), Char(c2), Char(c3),
                           Char(t - 128 * c3)>>
      BY SMTT(30), <1>2, <2>1
    <2> QED
      BY SMTT(30), <1>11, <2>2
  <1>14. 2097152 * b1 + 16384 * b2 + 128 * b3 + p = v.low
    BY SMTT(30), <1>2, <1>5, <1>6, <1>7, <1>9, <1>11
  <1>15. OfGInt5(GInt5Lanes(v)) =
            [high |-> (v.high + v.low \div 268435456) % 16,
             low  |-> v.low % 268435456]
    <2>1. PICK b : b = GInt5Lanes(v)
      OBVIOUS
    <2>2. /\ b[1] - 32 = v.high /\ b[2] - 32 = b1 /\ b[3] - 32 = b2
          /\ b[4] - 32 = b3 /\ b[5] - 32 = p
      BY SMTT(30), <1>5, <1>6, <1>7, <1>9, <1>12, <1>13, <2>1
    <2>3. OfGInt5(b) =
            LET low == 2097152 * b1 + 16384 * b2 + 128 * b3 + p
            IN  [high |-> (v.high + low \div 268435456) % 16,
                 low  |-> low % 268435456]
      BY SMTT(30), <2>2 DEF OfGInt5
    <2> QED
      BY SMTT(30), <1>14, <2>1, <2>3
  <1>16. v.low \div 268435456 = 0 /\ v.low % 268435456 = v.low
    <2>1. PICK n : n = 268435456
      OBVIOUS
    <2>2. n \in Nat /\ v.low \in Nat /\ v.low < n
      BY SMTT(30), <1>5, <2>1
    <2>3. v.low \div n = 0 /\ v.low % n = v.low
      BY SMTT(30), <2>2
    <2> QED
      BY <2>1, <2>3
  <1>17. OfGInt5(GInt5Lanes(v)) = [high |-> v.high, low |-> v.low]
    BY SMTT(30), <1>5, <1>15, <1>16
  <1> QED
    BY SMTT(30), <1>12, <1>13, <1>17 DEF GInt5Value

\* Five bytes of any kind make up a pair of numbers.
LEMMA OfGInt5Type ==
    ASSUME NEW b \in Seq(Int), Len(b) = 5
    PROVE  OfGInt5(b).high \in Int /\ OfGInt5(b).low \in Int
  <1>1. /\ b[1] \in Int /\ b[2] \in Int /\ b[3] \in Int
        /\ b[4] \in Int /\ b[5] \in Int
    OBVIOUS
  <1>2. PICK low : low = 2097152 * (b[2] - 32) + 16384 * (b[3] - 32)
                         + 128 * (b[4] - 32) + (b[5] - 32)
    OBVIOUS
  <1>3. low \in Int
    BY <1>1, <1>2
  <1>4. PICK high : high = (b[1] - 32) + low \div 268435456
    OBVIOUS
  <1>5. high \in Int
    BY <1>1, <1>3, <1>4
  <1>6. high % 16 \in Int /\ low % 268435456 \in Int
    BY <1>3, <1>5
  <1>7. OfGInt5(b) = [high |-> high % 16, low |-> low % 268435456]
    BY SMTT(30), <1>2, <1>4 DEF OfGInt5
  <1> QED
    BY SMTT(30), <1>6, <1>7

\* _read_gbyte where there is too little data.
LEMMA ReadShort ==
    ASSUME NEW p \in Nat, NEW n \in Nat, p + n > Size
    PROVE  ReadGByte(p, n) = Result(None, Size)
  BY DEF ReadGByte

\* One, two or three bytes make up a number; it is never negative.
LEMMA ReadLanes ==
    ASSUME data \in Seq(Byte), NEW p \in Nat, NEW n \in 1 .. 3, p + n <= Size
    PROVE  \E m \in Nat : /\ m = NonNegative(SumOfLanes(Bytes(p, p + n)))
                          /\ ReadGByte(p, n) = Result(<<m>>, p + n)
  <1>1. Size \in Nat
    BY DEF Size
  <1>2. PICK b : b = Bytes(p, p + n)
    OBVIOUS
  <1>3. b \in Seq(Byte) /\ Len(b) = n
    <2>1. PICK q \in Nat : q = p + n
      OBVIOUS
    <2>2. p <= q /\ q <= Size /\ q - p = n
      BY <2>1
    <2>3. Bytes(p, q) \in Seq(Byte) /\ Len(Bytes(p, q)) = q - p
      BY <2>2, BytesType
    <2> QED
      BY <1>2, <2>1, <2>2, <2>3
  <1>4. b \in Seq(Int)
    BY <1>3, NotNone
  <1>5. SumOfLanes(b) \in Int
    <2>0. \A i \in 1 .. n : b[i] \in Int
      <3>1. \A i \in 1 .. Len(b) : b[i] \in Int
        BY <1>4
      <3> QED
        BY <1>3, <3>1
    <2>1. CASE n = 1
      <3>1. PICK x \in Int : x = b[1]
        BY <2>0, <2>1
      <3>2. SumOfLanes(b) = b[1] - 32
        BY <1>3, <1>4, <2>1, SumDef
      <3>3. x - 32 \in Int
        OBVIOUS
      <3> QED
        BY <3>1, <3>2, <3>3
    <2>2. CASE n = 2
      <3>1. PICK x \in Int, y \in Int : x = b[1] /\ y = b[2]
        BY <2>0, <2>2
      <3>2. SumOfLanes(b) = 128 * (b[1] - 32) + (b[2] - 32)
        BY <1>3, <1>4, <2>2, SumDef
      <3>3. 128 * (x - 32) + (y - 32) \in Int
        OBVIOUS
      <3> QED
        BY <3>1, <3>2, <3>3
    <2>3. CASE n = 3
      <3>1. Len(b) = 3
        BY <1>3, <2>3
      <3>2. b[1] \in Int /\ b[2] \in Int /\ b[3] \in Int
        <4>1. \A i \in 1 .. Len(b) : b[i] \in Int
          BY <1>4
        <4>2. \A i \in 1 .. 3 : b[i] \in Int
          BY <3>1, <4>1
        <4> QED
          BY <4>2
      <3>3. SumOfLanes(b) = 128 * (128 * (b[1] - 32) + (b[2] - 32)) + (b[3] - 32)
        BY <1>4, <3>1, SumDef
      <3>4. PICK x \in Int, y \in Int, z \in Int :
               x = b[1] /\ y = b[2] /\ z = b[3]
        BY <3>2
      <3>5. 128 * (128 * (x - 32) + (y - 32)) + (z - 32) \in Int
        OBVIOUS
      <3> QED
        BY <3>3, <3>4, <3>5
    <2> QED
      BY <2>1, <2>2, <2>3
  <1>6. PICK m \in Nat : m = NonNegative(SumOfLanes(b))
    BY <1>5, NonNegativeNat
  <1>7. ReadGByte(p, n) = Result(<<m>>, p + n)
    <2>1. ~ (p + n > Size) /\ n # 5
      BY <1>1
    <2> QED
      BY <1>2, <1>6, <2>1 DEF ReadGByte
  <1> WITNESS m \in Nat
  <1> QED
    BY <1>2, <1>6, <1>7

\* Five bytes give a value, too.
LEMMA ReadFive ==
    ASSUME data \in Seq(Byte), NEW p \in Nat, p + 5 <= Size
    PROVE  \E v \in Seq(Int) :
              /\ v = <<OfGInt5(Bytes(p, p + 5)).high, OfGInt5(Bytes(p, p + 5)).low>>
              /\ ReadGByte(p, 5) = Result(v, p + 5)
  <1>1. Size \in Nat
    BY DEF Size
  <1>2. PICK b : b = Bytes(p, p + 5)
    OBVIOUS
  <1>3. b \in Seq(Byte) /\ Len(b) = 5
    <2>1. PICK q \in Nat : q = p + 5
      OBVIOUS
    <2>2. p <= q /\ q <= Size /\ q - p = 5
      BY <2>1
    <2>3. Bytes(p, q) \in Seq(Byte) /\ Len(Bytes(p, q)) = q - p
      BY <2>2, BytesType
    <2> QED
      BY <1>2, <2>1, <2>2, <2>3
  <1>4. b \in Seq(Int)
    BY <1>3, NotNone
  <1>5. PICK h \in Int, l \in Int : h = OfGInt5(b).high /\ l = OfGInt5(b).low
    BY <1>3, <1>4, OfGInt5Type
  <1>6. <<h, l>> \in Seq(Int)
    OBVIOUS
  <1>7. ReadGByte(p, 5) = Result(<<h, l>>, p + 5)
    <2>1. ~ (p + 5 > Size)
      BY <1>1
    <2> QED
      BY <1>2, <1>5, <2>1 DEF ReadGByte
  <1> QED
    BY <1>2, <1>5, <1>6, <1>7

\* What _gbyte wrote is what _read_gbyte reads.
LEMMA GByteReads ==
    ASSUME data \in Seq(Byte), NEW p \in Nat, NEW n \in 1 .. 3, NEW v \in Int,
           At(p, GByte(v, n)), p + n <= Size
    PROVE  ReadGByte(p, n) = Result(<<Clamp(v, LaneMax[n])>>, p + n)
  <1>1. PICK e \in Seq(Byte) : e = GByte(v, n) /\ Len(e) = n
    BY GByteType
  <1>2. Bytes(p, p + n) = e
    <2>1. Bytes(p, p + Len(e)) = e
      BY <1>1, BytesWhole
    <2> QED
      BY <1>1, <2>1
  <1>3. PICK m \in Nat : /\ m = NonNegative(SumOfLanes(e))
                         /\ ReadGByte(p, n) = Result(<<m>>, p + n)
    BY <1>2, ReadLanes
  <1>4. SumOfLanes(e) = Clamp(v, LaneMax[n])
    BY <1>1, SumOfGByte
  <1>5. LaneMax[n] \in Nat
    BY DEF LaneMax, GShortMax, GInt3Max
  <1>6. PICK c \in Nat : c = Clamp(v, LaneMax[n])
    BY <1>5, ClampRange
  <1>7. NonNegative(c) = c
    BY NonNegativeNat
  <1> QED
    BY <1>3, <1>4, <1>6, <1>7

\* And five lanes.
LEMMA GInt5IsRead ==
    ASSUME data \in Seq(Byte), NEW p \in Nat, NEW v \in GInt5Value,
           At(p, GInt5Lanes(v)), p + 5 <= Size
    PROVE  ReadGByte(p, 5) = Result(<<v.high, v.low>>, p + 5)
  <1>1. PICK e \in Seq(Byte) : e = GInt5Lanes(v) /\ Len(e) = 5
    BY GInt5Reads
  <1>2. Bytes(p, p + 5) = e
    <2>1. Bytes(p, p + Len(e)) = e
      BY <1>1, BytesWhole
    <2> QED
      BY <1>1, <2>1
  <1>3. OfGInt5(e) = v
    BY <1>1, GInt5Reads
  <1>4. ReadGByte(p, 5) = Result(<<OfGInt5(e).high, OfGInt5(e).low>>, p + 5)
    BY <1>2, ReadFive
  <1> QED
    BY <1>3, <1>4

\* The first byte of a number of one lane.
LEMMA GByteFirst ==
    ASSUME NEW v \in Int, NEW p \in Nat, At(p, GByte(v, 1)), p < Size
    PROVE  Ord(p) = Clamp(v, 223)
  <1>1. PICK c \in Nat : c = Clamp(v, 223)
    BY ClampRange
  <1>2. PICK e : e = <<c + 32>>
    OBVIOUS
  <1>3. GByte(v, 1) = e /\ Len(e) = 1 /\ e[1] = c + 32
    BY <1>1, <1>2, GByte1
  <1>4. p + 1 <= Size
    BY DEF Size
  <1>5. data[p + 1] = c + 32
    <2>1. \A k \in 1 .. 1 : p + k <= Size => data[p + k] = e[k]
      BY <1>3 DEF At
    <2> QED
      BY <1>3, <1>4, <2>1
  <1> QED
    BY <1>1, <1>5 DEF Ord

\* A string: None when empty or cut short, and the position its length asks
\* for once its length is there.
LEMMA StringReads ==
    ASSUME data \in Seq(Byte), NEW p \in Nat, p <= Size,
           NEW s \in Seq(Byte), Len(s) <= 223, At(p, PropString(s, 1))
    PROVE  /\ PropString(s, 1) \in Seq(Byte)
           /\ Len(PropString(s, 1)) = 1 + Len(s)
           /\ p = Size => ReadString(p) = Result(None, Size)
           /\ p < Size => ReadString(p) =
                 Result(IF s = <<>> \/ p + 1 + Len(s) > Size THEN None ELSE s,
                        p + 1 + Len(s))
  <1>0. PICK n \in Nat : n = Len(s) /\ n <= 223
    OBVIOUS
  <1>1. PICK g \in Seq(Byte) : g = GByte(n, 1) /\ Len(g) = 1
    BY GByteType
  <1>2. PropString(s, 1) = g \o s
    BY <1>0, <1>1 DEF PropString
  <1>3. g \o s \in Seq(Byte) /\ Len(g \o s) = Len(g) + Len(s)
    BY Joined
  <1>4. At(p, g) /\ At(p + 1, s)
    BY <1>1, <1>2, AtJoined
  <1>5. Size \in Nat
    BY DEF Size
  <1>6. ASSUME p = Size
        PROVE  ReadString(p) = Result(None, Size)
    <2>1. ReadGByte(p, 1) = Result(None, Size)
      BY <1>5, <1>6, ReadShort
    <2> QED
      BY <2>1 DEF ReadString, Result
  <1>7. ASSUME p < Size
        PROVE  ReadString(p) =
                 Result(IF s = <<>> \/ p + 1 + n > Size THEN None ELSE s,
                        p + 1 + n)
    <2>1. p + 1 <= Size
      BY <1>5, <1>7
    <2>2. Clamp(n, LaneMax[1]) = n
      BY <1>0 DEF Clamp, LaneMax
    <2>3. ReadGByte(p, 1) = Result(<<n>>, p + 1)
      BY <1>1, <1>4, <2>1, <2>2, GByteReads
    <2>4. <<n>> # None
      BY NotNone
    <2>5. ReadString(p) =
             IF <<n>> = <<0>> THEN Result(None, p + 1)
             ELSE LET end == p + 1 + n
                  IN  Result(IF end > Size THEN None ELSE Bytes(p + 1, end), end)
      BY <2>3, <2>4 DEF ReadString, Result
    <2>6. <<n>> = <<0>> <=> s = <<>>
      BY <1>0
    <2>7. CASE s = <<>>
      <3>1. n = 0 /\ p + 1 + 0 = p + 1
        BY <1>0, <2>7
      <3> QED
        BY <2>5, <2>6, <2>7, <3>1
    <2>8. CASE s # <<>> /\ p + 1 + n > Size
      BY <2>5, <2>6, <2>8
    <2>9. CASE s # <<>> /\ ~ (p + 1 + n > Size)
      <3>1. PICK q \in Nat : q = p + 1
        OBVIOUS
      <3>2. q + Len(s) <= Size
        BY <1>0, <1>5, <2>9, <3>1
      <3>3. Bytes(q, q + Len(s)) = s
        BY <1>4, <3>1, <3>2, BytesWhole
      <3> QED
        BY <1>0, <2>5, <2>6, <2>9, <3>1, <3>3
    <2> QED
      BY <2>7, <2>8, <2>9
  <1> QED
    BY <1>0, <1>1, <1>2, <1>3, <1>6, <1>7

-----------------------------------------------------------------------------
(* One lemma for each wire form: what is there whole is read back and      *)
(* counts as whole; what is cut leaves nothing behind it and is noticed,   *)
(* but for an image form that ends at its power byte.                      *)

Reads(d, v, p, c) ==
    /\ Encode(d, v, c) \in Seq(Byte) /\ PayloadLen(d, p, c) \in Nat
    /\ p + Len(Encode(d, v, c)) <= Size =>
          /\ Decode(d, p, c) = Result(ReadBack(d, v, c),
                                      p + Len(Encode(d, v, c)))
          /\ p + PayloadLen(d, p, c) <= Size
    /\ p + Len(Encode(d, v, c)) > Size =>
          /\ Decode(d, p, c).pos >= Size
          /\ \/ p + PayloadLen(d, p, c) > Size
             \/ d.wire \in ImageForm /\ Size = p + 1

\* The stream from p on, as far as it goes, is the payload of v.
Placed(d, v, p, c) == /\ data \in Seq(Byte) /\ p \in Nat /\ p <= Size
                      /\ c \in {5, 8} /\ Legal(d, v) /\ At(p, Encode(d, v, c))

\* The only things that depend on the form.
LEMMA Reading ==
    ASSUME NEW d, NEW v, NEW p, NEW c, Placed(d, v, p, c),
           NEW e \in Seq(Byte), e = Encode(d, v, c),
           NEW n \in Nat, n = Len(e), NEW q \in Nat, NEW len \in Nat, NEW value,
           Decode(d, p, c) = Result(value, q), PayloadLen(d, p, c) = len,
           p + n <= Size => value = ReadBack(d, v, c) /\ q = p + n /\ len = n,
           p + n > Size => q >= Size /\ (\/ p + len > Size
                                         \/ d.wire \in ImageForm /\ Size = p + 1)
    PROVE  Reads(d, v, p, c)
  <1>1. p \in Nat
    BY DEF Placed
  <1>2. Encode(d, v, c) \in Seq(Byte) /\ Len(Encode(d, v, c)) = n
    OBVIOUS
  <1>3. Decode(d, p, c).pos = q
    BY DEF Result
  <1>4. p + n <= Size => /\ Decode(d, p, c) = Result(ReadBack(d, v, c), p + n)
                         /\ p + PayloadLen(d, p, c) <= Size
    OBVIOUS
  <1>5. p + n > Size => /\ Decode(d, p, c).pos >= Size
                        /\ \/ p + PayloadLen(d, p, c) > Size
                           \/ d.wire \in ImageForm /\ Size = p + 1
    BY <1>3
  <1> QED
    BY <1>2, <1>4, <1>5 DEF Reads

\* A function on 1 .. n is a sequence.
LEMMA FunctionSeq ==
    ASSUME NEW S, NEW n \in Nat, NEW f \in [1 .. n -> S]
    PROVE  f \in Seq(S) /\ Len(f) = n
  OBVIOUS

\* One number, and two.
LEMMA NumbersType ==
    ASSUME NEW v
    PROVE  /\ v \in Numbers(1) => Len(v) = 1 /\ v[1] \in Int
           /\ v \in Numbers(2) => v[1] \in Int /\ v[2] \in Int
                                    /\ v = <<v[1], v[2]>>
  <1>1. ASSUME v \in Numbers(1)
        PROVE  Len(v) = 1 /\ v[1] \in Int
    <2>1. PICK n \in Nat : n = 1
      OBVIOUS
    <2>2. v \in [1 .. n -> Int]
      BY <1>1, <2>1 DEF Numbers
    <2>3. Len(v) = n /\ 1 \in 1 .. n
      BY <2>1, <2>2, FunctionSeq
    <2> QED
      BY <2>1, <2>2, <2>3
  <1>2. ASSUME v \in Numbers(2)
        PROVE  v[1] \in Int /\ v[2] \in Int /\ v = <<v[1], v[2]>>
    <2>1. PICK n \in Nat : n = 2
      OBVIOUS
    <2>2. v \in [1 .. n -> Int]
      BY <1>2, <2>1 DEF Numbers
    <2>3. v \in Seq(Int) /\ Len(v) = n
      BY <2>2, FunctionSeq
    <2>4. v[1] \in Int /\ v[2] \in Int
      BY <2>1, <2>2
    <2>5. PICK w \in Seq(Int) : w = <<v[1], v[2]>>
      <3>1. \A a, b \in Int : <<a, b>> \in Seq(Int)
        OBVIOUS
      <3>2. <<v[1], v[2]>> \in Seq(Int)
        BY <2>4, <3>1
      <3> QED
        BY <3>2
    <2>6. Len(w) = 2 /\ w[1] = v[1] /\ w[2] = v[2]
      BY <2>5
    <2>7. \A i \in 1 .. 2 : v[i] = w[i]
      BY <2>6
    <2>8. v = w
      BY <2>1, <2>3, <2>6, <2>7, SeqEqual
    <2> QED
      BY <2>4, <2>5, <2>8
  <1> QED
    BY <1>1, <1>2

\* VOID: nothing.
LEMMA ReadsVoid ==
    ASSUME NEW d, NEW v, NEW p, NEW c, Placed(d, v, p, c), d.wire = "VOID"
    PROVE  Reads(d, v, p, c)
  <1>0. <<>> \in Seq(Byte) /\ Len(<<>>) = 0
    OBVIOUS
  <1>1. PICK e \in Seq(Byte) : e = <<>> /\ Len(e) = 0
    BY <1>0
  <1>2. e = Encode(d, v, c)
    BY <1>1 DEF Encode
  <1>3. p \in Nat /\ p <= Size /\ p + 0 = p
    BY DEF Placed
  <1>4. Decode(d, p, c) = Result(None, p) /\ PayloadLen(d, p, c) = 0
    BY DEF Decode, PayloadLen
  <1>5. ReadBack(d, v, c) = None
    BY DEF ReadBack
  <1>6. ~ (p + 0 > Size)
    BY <1>3 DEF Size
  <1> QED
    BY <1>1, <1>2, <1>3, <1>4, <1>5, <1>6, Reading

\* GBYTE: as many lanes as it is wide.
LEMMA ReadsGByte ==
    ASSUME NEW d, NEW v, NEW p, NEW c, Placed(d, v, p, c), d.wire = "GBYTE",
           d.width \in {1, 2, 3, 5}
    PROVE  Reads(d, v, p, c)
  <1>1. PICK n \in Nat : n = d.width
    OBVIOUS
  <1>2. /\ data \in Seq(Byte) /\ p \in Nat /\ p <= Size /\ Size \in Nat
        /\ At(p, Encode(d, v, c))
    BY DEF Placed, Size
  <1>3. PayloadLen(d, p, c) = n /\ Decode(d, p, c) = ReadGByte(p, n)
    BY <1>1 DEF PayloadLen, Decode
  <1>4. PICK e \in Seq(Byte) :
           /\ e = Encode(d, v, c) /\ Len(e) = n
           /\ p + n <= Size => ReadGByte(p, n) = Result(ReadBack(d, v, c), p + n)
    <2>1. CASE n \in 1 .. 3
      <3>1. n # 5
        BY <2>1
      <3>2. v \in Numbers(1)
        BY <1>1, <3>1 DEF Placed, Legal
      <3>3. v[1] \in Int
        BY <3>2 DEF Numbers
      <3>4. Encode(d, v, c) = GByte(v[1], n)
        BY <1>1, <3>1 DEF Encode
      <3>5. ReadBack(d, v, c) = <<Clamp(v[1], LaneMax[n])>>
        BY <1>1, <3>1 DEF ReadBack
      <3>6. p + n <= Size =>
               ReadGByte(p, n) = Result(<<Clamp(v[1], LaneMax[n])>>, p + n)
        BY <1>2, <2>1, <3>3, <3>4, GByteReads
      <3> QED
        BY <2>1, <3>3, <3>4, <3>5, <3>6, GByteType
    <2>2. CASE n = 5
      <3>1. v \in Numbers(2) /\ [high |-> v[1], low |-> v[2]] \in GInt5Value
        BY <1>1, <2>2 DEF Placed, Legal
      <3>2. PICK w \in GInt5Value : w = [high |-> v[1], low |-> v[2]]
        BY <3>1
      <3>3. Encode(d, v, c) = GInt5Lanes(w)
        BY <1>1, <2>2, <3>2 DEF Encode
      <3>4. ReadBack(d, v, c) = <<w.high, w.low>>
        <4>1. v = <<v[1], v[2]>>
          BY <3>1, NumbersType
        <4> QED
          BY <1>1, <2>2, <3>2, <4>1 DEF ReadBack
      <3>5. p + 5 <= Size => ReadGByte(p, 5) = Result(<<w.high, w.low>>, p + 5)
        BY <1>2, <3>3, GInt5IsRead
      <3>6. GInt5Lanes(w) \in Seq(Byte) /\ Len(GInt5Lanes(w)) = 5
        BY GInt5Reads
      <3> QED
        BY <2>2, <3>3, <3>4, <3>5, <3>6
    <2> QED
      BY <1>1, <2>1, <2>2
  <1>5. CASE p + n <= Size
    <2>1. ~ (p + n > Size)
      BY <1>2, <1>5
    <2> QED
      BY <1>1, <1>2, <1>3, <1>4, <1>5, <2>1, Reading
  <1>6. CASE p + n > Size
    <2>1. ReadGByte(p, n) = Result(None, Size)
      BY <1>2, <1>6, ReadShort
    <2>2. ~ (p + n <= Size) /\ Size >= Size
      BY <1>2, <1>6
    <2> QED
      BY <1>1, <1>2, <1>3, <1>4, <1>6, <2>1, <2>2, Reading
  <1> QED
    BY <1>2, <1>5, <1>6

\* RAW: bytes, cut or filled up to the width.
LEMMA ReadsRaw ==
    ASSUME NEW d, NEW v, NEW p, NEW c, Placed(d, v, p, c), d.wire = "RAW",
           d.width \in Nat
    PROVE  Reads(d, v, p, c)
  <1>1. PICK n \in Nat : n = d.width
    OBVIOUS
  <1>2. /\ data \in Seq(Byte) /\ p \in Nat /\ p <= Size /\ Size \in Nat
        /\ At(p, Encode(d, v, c)) /\ v \in Seq(Byte)
    BY DEF Placed, Size, Legal
  <1>3. PayloadLen(d, p, c) = n
    BY <1>1 DEF PayloadLen
  <1>4. Decode(d, p, c) = IF p + n > Size THEN Result(None, Size)
                          ELSE Result(Bytes(p, p + n), p + n)
    BY <1>1 DEF Decode
  <1>5. PICK e \in Seq(Byte) : e = Encode(d, v, c) /\ Len(e) = n
    <2>1. PICK f : f = [i \in 1 .. n |-> IF i <= Len(v) THEN v[i] ELSE 32]
      OBVIOUS
    <2>2. 32 \in Byte /\ \A i \in 1 .. Len(v) : v[i] \in Byte
      <3>1. 32 \in Byte
        BY DEF Byte
      <3>2. \A i \in 1 .. Len(v) : v[i] \in Byte
        BY <1>2
      <3> QED
        BY <3>1, <3>2
    <2>3. f \in [1 .. n -> Byte]
      <3>1. \A i \in 1 .. n : (IF i <= Len(v) THEN v[i] ELSE 32) \in Byte
        <4> TAKE i \in 1 .. n
        <4>1. i <= Len(v) => i \in 1 .. Len(v)
          BY <1>2
        <4> QED
          BY <2>2, <4>1
      <3> QED
        BY <2>1, <3>1
    <2>4. f \in Seq(Byte) /\ Len(f) = n
      BY <2>3
    <2>5. Encode(d, v, c) = f
      BY <1>1, <2>1 DEF Encode
    <2> QED
      BY <2>4, <2>5
  <1>6. ReadBack(d, v, c) = e
    BY <1>5 DEF Encode, ReadBack
  <1>7. CASE p + n <= Size
    <2>1. ~ (p + n > Size)
      BY <1>2, <1>7
    <2>2. Bytes(p, p + n) = e
      <3>1. Bytes(p, p + Len(e)) = e
        BY <1>2, <1>5, <1>7, BytesWhole
      <3> QED
        BY <1>5, <3>1
    <2>3. Decode(d, p, c) = Result(e, p + n)
      BY <1>4, <2>1, <2>2
    <2> QED
      BY <1>2, <1>3, <1>5, <1>6, <1>7, <2>1, <2>3, Reading
  <1>8. CASE p + n > Size
    <2>1. Decode(d, p, c) = Result(None, Size)
      BY <1>4, <1>8
    <2>2. ~ (p + n <= Size) /\ Size >= Size
      BY <1>2, <1>8
    <2> QED
      BY <1>2, <1>3, <1>5, <1>8, <2>1, <2>2, Reading
  <1> QED
    BY <1>2, <1>7, <1>8

\* STRING: its length and its bytes.
LEMMA ReadsString ==
    ASSUME NEW d, NEW v, NEW p, NEW c, Placed(d, v, p, c), d.wire = "STRING"
    PROVE  Reads(d, v, p, c)
  <1>1. Encode(d, v, c) = PropString(v, 1) /\ Decode(d, p, c) = ReadString(p)
    BY DEF Encode, Decode
  <1>2. /\ data \in Seq(Byte) /\ p \in Nat /\ p <= Size /\ Size \in Nat
        /\ At(p, PropString(v, 1)) /\ v \in Seq(Byte) /\ Len(v) <= 223
    BY <1>1 DEF Placed, Size, Legal, IsText
  <1>3. PICK m \in Nat : m = Len(v)
    BY <1>2
  <1>4. PICK e \in Seq(Byte) : e = Encode(d, v, c) /\ Len(e) = 1 + m
    BY <1>1, <1>2, <1>3, StringReads
  <1>5. ReadBack(d, v, c) = IF v = <<>> THEN None ELSE v
    BY DEF ReadBack
  <1>6. PayloadLen(d, p, c) = IF Decode(d, p, c).pos - p < 1 THEN 1
                              ELSE Decode(d, p, c).pos - p
    BY DEF PayloadLen
  <1>7. CASE p = Size
    <2>1. Decode(d, p, c) = Result(None, Size)
      BY <1>1, <1>2, <1>7, StringReads
    <2>2. PayloadLen(d, p, c) = 1
      BY <1>2, <1>6, <1>7, <2>1 DEF Result
    <2>3. p + 1 > Size /\ ~ (p + (1 + m) <= Size)
      BY <1>2, <1>7
    <2> QED
      BY <1>2, <1>4, <1>7, <2>1, <2>2, <2>3, Reading
  <1>8. CASE p < Size
    <2>1. PICK q \in Nat : q = p + 1 + m
      BY <1>2
    <2>2. PICK value : value = IF v = <<>> \/ q > Size THEN None ELSE v
      OBVIOUS
    <2>3. Decode(d, p, c) = Result(value, q)
      BY <1>1, <1>2, <1>3, <1>8, <2>1, <2>2, StringReads
    <2>4. q = p + (1 + m) /\ q - p = 1 + m /\ ~ (1 + m < 1)
      BY <1>2, <2>1
    <2>5. PayloadLen(d, p, c) = 1 + m
      BY <1>6, <2>3, <2>4 DEF Result
    <2>6. p + (1 + m) <= Size => value = ReadBack(d, v, c)
      BY <1>2, <1>5, <2>1, <2>2
    <2>7. p + (1 + m) > Size => q >= Size
      BY <1>2, <2>4
    <2>8. PICK n \in Nat : n = 1 + m
      OBVIOUS
    <2> QED
      BY <1>4, <2>3, <2>4, <2>5, <2>6, <2>7, <2>8, Reading
  <1> QED
    BY <1>2, <1>7, <1>8

\* LONGSTRING: its length in two lanes, and its bytes; it is cut to what
\* there is, but its position shows that there was more.
LEMMA ReadsLongString ==
    ASSUME NEW d, NEW v, NEW p, NEW c, Placed(d, v, p, c),
           d.wire = "LONGSTRING"
    PROVE  Reads(d, v, p, c)
  <1>1. Encode(d, v, c) = PropString(v, 2) /\ ReadBack(d, v, c) = v
    BY DEF Encode, ReadBack
  <1>2. /\ data \in Seq(Byte) /\ p \in Nat /\ p <= Size /\ Size \in Nat
        /\ At(p, PropString(v, 2)) /\ v \in Seq(Byte) /\ Len(v) <= GShortMax
    BY <1>1 DEF Placed, Size, Legal, IsText
  <1>3. PICK m \in Nat : m = Len(v) /\ m <= GShortMax
    BY <1>2
  <1>4. PICK g \in Seq(Byte) : g = GByte(m, 2) /\ Len(g) = 2
    BY GByteType
  <1>5. PICK e \in Seq(Byte) : e = g \o v /\ Len(e) = 2 + m
    <2>1. g \o v \in Seq(Byte) /\ Len(g \o v) = Len(g) + Len(v)
      BY <1>2, Joined
    <2> QED
      BY <1>3, <1>4, <2>1
  <1>6. e = Encode(d, v, c)
    BY <1>1, <1>3, <1>4, <1>5 DEF PropString
  <1>7. At(p, g) /\ At(p + 2, v)
    <2>1. At(p, g \o v)
      BY <1>2, <1>3, <1>4 DEF PropString
    <2> QED
      BY <1>2, <1>4, <2>1, AtJoined
  <1>8. PICK r : r = ReadGByte(p, 2)
    OBVIOUS
  <1>9. Decode(d, p, c) = IF r.value = None THEN r
                          ELSE Result(Bytes(r.pos, Clamp(r.pos + r.value[1], Size)),
                                      r.pos + r.value[1])
    BY <1>8 DEF Decode
  <1>10. PayloadLen(d, p, c) = IF Decode(d, p, c).pos - p < 2 THEN 2
                               ELSE Decode(d, p, c).pos - p
    BY DEF PayloadLen
  <1>11. PICK n \in Nat : n = 2 + m
    OBVIOUS
  <1>12. CASE p + 2 > Size
    <2>1. r = Result(None, Size)
      BY <1>2, <1>8, <1>12, ReadShort
    <2>2. Decode(d, p, c) = Result(None, Size)
      BY <1>9, <2>1 DEF Result
    <2>3. PayloadLen(d, p, c) = 2
      <3>1. Size - p < 2
        BY <1>2, <1>12
      <3> QED
        BY <1>10, <2>2, <3>1 DEF Result
    <2>4. ~ (p + n <= Size) /\ Size >= Size
      BY <1>2, <1>11, <1>12
    <2> QED
      BY <1>2, <1>5, <1>6, <1>11, <1>12, <2>2, <2>3, <2>4, Reading
  <1>13. CASE p + 2 <= Size
    <2>1. r = Result(<<m>>, p + 2)
      <3>1. ReadGByte(p, 2) = Result(<<Clamp(m, LaneMax[2])>>, p + 2)
        BY <1>2, <1>4, <1>7, <1>13, GByteReads
      <3>2. Clamp(m, GShortMax) = m
        BY <1>3 DEF Clamp, GShortMax
      <3>3. LaneMax[2] = GShortMax
        BY DEF LaneMax
      <3> QED
        BY <1>8, <3>1, <3>2, <3>3
    <2>2. PICK q \in Nat : q = p + 2 + m
      BY <1>2
    <2>3. PICK value : value = Bytes(p + 2, Clamp(q, Size))
      OBVIOUS
    <2>4. Decode(d, p, c) = Result(value, q)
      <3>1. r.value = <<m>> /\ r.value[1] = m /\ r.pos = p + 2
        BY <2>1 DEF Result
      <3>2. r.value # None
        BY <3>1, NotNone
      <3> QED
        BY <1>9, <2>2, <2>3, <3>1, <3>2
    <2>5. q = p + n /\ q - p = n /\ ~ (n < 2)
      BY <1>2, <1>11, <2>2
    <2>6. PayloadLen(d, p, c) = n
      BY <1>10, <2>4, <2>5 DEF Result
    <2>7. p + n <= Size => value = v
      <3>1. HAVE p + n <= Size
      <3>2. Clamp(q, Size) = q
        BY <1>2, <2>5, <3>1 DEF Clamp
      <3>3. PICK b \in Nat : b = p + 2
        BY <1>2
      <3>4. b + Len(v) = q /\ b + Len(v) <= Size
        BY <1>2, <1>3, <2>2, <2>5, <3>1, <3>3
      <3>5. Bytes(b, b + Len(v)) = v
        BY <1>2, <1>7, <3>3, <3>4, BytesWhole
      <3> QED
        BY <2>3, <3>2, <3>3, <3>4, <3>5
    <2>8. p + n > Size => q >= Size
      BY <1>2, <2>5
    <2> QED
      BY <1>1, <1>5, <1>6, <1>11, <2>4, <2>5, <2>6, <2>7, <2>8, Reading
  <1> QED
    BY <1>2, <1>12, <1>13

\* A form that begins with one byte has nothing where the data ends.
LEMMA ReadsNothing ==
    ASSUME NEW d, NEW v, NEW p, NEW c, Placed(d, v, p, c), p = Size,
           d.wire \in {"TILE", "HALFTILE", "TILEZ", "EFFECTCOLORS", "SWORDPOWER",
                       "POWERIMAGE", "HEADGIF", "ATTACHNPC"},
           NEW e \in Seq(Byte), e = Encode(d, v, c), Len(e) >= 1
    PROVE  Reads(d, v, p, c)
  <1>1. p \in Nat /\ Size \in Nat
    BY DEF Placed, Size
  <1>2. PICK value : Decode(d, p, c) = Result(value, p)
    <2>1. ~ (p < Size)
      BY <1>1
    <2> QED
      BY <2>1 DEF Decode
  <1>3. PICK len \in Nat : PayloadLen(d, p, c) = len /\ len >= 1
    <2>1. Decode(d, p, c).pos - p = 0
      BY <1>1, <1>2 DEF Result
    <2> QED
      BY <2>1 DEF PayloadLen
  <1>4. PICK n \in Nat : n = Len(e) /\ n >= 1
    OBVIOUS
  <1>5. p + len > Size /\ ~ (p + n <= Size) /\ p >= Size
    BY <1>1, <1>3, <1>4
  <1> QED
    BY <1>1, <1>2, <1>3, <1>4, <1>5, Reading

\* One byte, and what it is read as.
LEMMA ReadsOneByte ==
    ASSUME NEW d, NEW v, NEW p, NEW c, Placed(d, v, p, c),
           d.wire \in {"TILE", "HALFTILE", "TILEZ"},
           NEW e \in Seq(Byte), e = Encode(d, v, c), Len(e) = 1,
           p < Size => DecodeByte(d, p, c) = Result(ReadBack(d, v, c), p + 1)
    PROVE  Reads(d, v, p, c)
  <1>1. p \in Nat /\ Size \in Nat /\ p <= Size
    BY DEF Placed, Size
  <1>2. CASE p = Size
    <2>1. /\ d.wire \in {"TILE", "HALFTILE", "TILEZ", "EFFECTCOLORS",
                         "SWORDPOWER", "POWERIMAGE", "HEADGIF", "ATTACHNPC"}
          /\ Len(e) >= 1
      OBVIOUS
    <2> QED
      BY <1>2, <2>1, ReadsNothing
  <1>3. CASE p < Size
    <2>1. Decode(d, p, c) = Result(ReadBack(d, v, c), p + 1)
      BY <1>3 DEF Decode
    <2>2. PayloadLen(d, p, c) = 1
      BY DEF PayloadLen
    <2>3. ~ (p + 1 > Size)
      BY <1>1, <1>3
    <2>4. p + 1 \in Nat
      BY <1>1
    <2> QED
      BY <2>1, <2>2, <2>3, <2>4, Reading
  <1> QED
    BY <1>1, <1>2, <1>3

\* TILE: half tiles modulo 256, from -40 up to 215.
LEMMA ReadsTile ==
    ASSUME NEW d, NEW v, NEW p, NEW c, Placed(d, v, p, c), d.wire = "TILE"
    PROVE  Reads(d, v, p, c)
  <1>1. v[1] \in Int
    BY NumbersType DEF Placed, Legal
  <1>2. PICK h \in 0 .. 255 : h = v[1] % 256
    <2>1. v[1] % 256 \in 0 .. 255
      BY <1>1
    <2> QED
      BY <2>1
  <1>3. PICK k \in 0 .. 255 : k = IF h = 223 THEN 224 ELSE h
    OBVIOUS
  <1>4. PICK b \in Byte : b = Char(k)
    BY CharByte
  <1>5. PICK e \in Seq(Byte) : e = <<b>> /\ Len(e) = 1 /\ e[1] = b
    <2>1. <<b>> \in Seq(Byte) /\ Len(<<b>>) = 1 /\ <<b>>[1] = b
      OBVIOUS
    <2> QED
      BY <2>1
  <1>6. e = Encode(d, v, c)
    BY <1>2, <1>3, <1>4, <1>5 DEF Encode, Tile
  <1>7. ASSUME p < Size
        PROVE  DecodeByte(d, p, c) = Result(ReadBack(d, v, c), p + 1)
    <2>1. data[p + 1] = b
      <3>1. \A i \in 1 .. 1 : p + i <= Size => data[p + i] = e[i]
        BY <1>5, <1>6 DEF Placed, At
      <3>2. p + 1 <= Size
        BY <1>7 DEF Placed, Size
      <3> QED
        BY <1>5, <3>1, <3>2
    <2>2. PICK raw : raw = Ord(p)
      OBVIOUS
    <2>3. b = IF k < 224 THEN k + 32 ELSE k - 224
      BY <1>4 DEF Char
    <2>4. b \in Int
      BY DEF Byte
    <2>5. raw = IF k < 224 THEN k ELSE k - 256
      BY <2>1, <2>2, <2>3, <2>4 DEF Ord
    <2>6. DecodeByte(d, p, c) = Result(<<IF raw >= 216 THEN raw - 256 ELSE raw>>, p + 1)
      BY <2>2 DEF DecodeByte
    <2>7. ReadBack(d, v, c) = <<IF h = 223 THEN -32 ELSE IF h < 216 THEN h
                                ELSE h - 256>>
      BY <1>2 DEF ReadBack
    <2>8. (IF raw >= 216 THEN raw - 256 ELSE raw)
             = IF h = 223 THEN -32 ELSE IF h < 216 THEN h ELSE h - 256
      BY <1>3, <2>5
    <2> QED
      BY <2>6, <2>7, <2>8
  <1> QED
    BY <1>5, <1>6, <1>7, ReadsOneByte

\* HALFTILE: half tiles from 0 up to 223.
LEMMA ReadsHalfTile ==
    ASSUME NEW d, NEW v, NEW p, NEW c, Placed(d, v, p, c), d.wire = "HALFTILE"
    PROVE  Reads(d, v, p, c)
  <1>1. v[1] \in Int
    BY NumbersType DEF Placed, Legal
  <1>2. PICK e \in Seq(Byte) : e = GByte(v[1], 1) /\ Len(e) = 1
    BY <1>1, GByteType
  <1>3. e = Encode(d, v, c)
    BY <1>2 DEF Encode
  <1>4. ASSUME p < Size
        PROVE  DecodeByte(d, p, c) = Result(ReadBack(d, v, c), p + 1)
    <2>1. Ord(p) = Clamp(v[1], 223)
      BY <1>1, <1>2, <1>3, <1>4, GByteFirst DEF Placed
    <2> QED
      BY <2>1 DEF DecodeByte, ReadBack
  <1> QED
    BY <1>2, <1>3, <1>4, ReadsOneByte

\* TILEZ: a height from -50 up to 170.
LEMMA ReadsTileZ ==
    ASSUME NEW d, NEW v, NEW p, NEW c, Placed(d, v, p, c), d.wire = "TILEZ"
    PROVE  Reads(d, v, p, c)
  <1>1. v[1] \in Int
    BY NumbersType DEF Placed, Legal
  <1>2. PICK z \in Nat : z = Clamp(v[1] + 50, 220) /\ z <= 220
    <2>1. PICK x \in Int : x = v[1] + 50
      BY <1>1
    <2>2. Clamp(x, 220) \in Nat /\ Clamp(x, 220) <= 220
      BY ClampRange
    <2> QED
      BY <2>1, <2>2
  <1>3. PICK e \in Seq(Byte) : e = GByte(z, 1) /\ Len(e) = 1
    BY GByteType
  <1>4. e = Encode(d, v, c)
    BY <1>2, <1>3 DEF Encode
  <1>5. ASSUME p < Size
        PROVE  DecodeByte(d, p, c) = Result(ReadBack(d, v, c), p + 1)
    <2>1. Ord(p) = Clamp(z, 223)
      BY <1>3, <1>4, <1>5, GByteFirst DEF Placed
    <2>2. Clamp(z, 223) = z
      BY <1>2 DEF Clamp
    <2> QED
      BY <1>2, <2>1, <2>2 DEF DecodeByte, ReadBack
  <1> QED
    BY <1>3, <1>4, <1>5, ReadsOneByte

\* PIXEL: the sign in the lowest bit.
LEMMA ReadsPixel ==
    ASSUME NEW d, NEW v, NEW p, NEW c, Placed(d, v, p, c), d.wire = "PIXEL"
    PROVE  Reads(d, v, p, c)
  <1>1. PICK x \in Int : x = v[1] /\ -14383 <= x /\ x <= 14383
    <2>1. v \in Numbers(1) /\ -14383 <= v[1] /\ v[1] <= 14383
      BY DEF Placed, Legal
    <2> QED
      BY <2>1, NumbersType
  <1>2. ReadBack(d, v, c) = <<x>>
    <2>1. v \in Numbers(1) /\ ReadBack(d, v, c) = v
      BY DEF Placed, Legal, ReadBack
    <2>2. v = <<v[1]>>
      BY <2>1 DEF Numbers
    <2> QED
      BY <1>1, <2>1, <2>2
  <1>3. PICK t \in Nat : /\ t = (IF x < 0 THEN 2 * (- x) + 1 ELSE 2 * x)
                         /\ t <= 28767
    BY SMTT(30), <1>1
  <1>4. PICK e \in Seq(Byte) : e = GByte(t, 2) /\ Len(e) = 2
    BY GByteType
  <1>5. e = Encode(d, v, c)
    BY <1>1, <1>3, <1>4 DEF Encode, Pixel
  <1>6. /\ data \in Seq(Byte) /\ p \in Nat /\ p <= Size /\ Size \in Nat
        /\ At(p, e)
    BY <1>5 DEF Placed, Size
  <1>7. PICK r : r = ReadGByte(p, 2)
    OBVIOUS
  <1>8. Decode(d, p, c) =
           IF r.value = None THEN r
           ELSE LET n == r.value[1] \div 2
                IN  Result(<<IF r.value[1] % 2 = 1 THEN - n ELSE n>>, r.pos)
    BY <1>7 DEF Decode
  <1>9. PayloadLen(d, p, c) = 2
    BY DEF PayloadLen
  <1>10. CASE p + 2 > Size
    <2>1. r = Result(None, Size)
      BY <1>6, <1>7, <1>10, ReadShort
    <2>2. Decode(d, p, c) = Result(None, Size)
      BY <1>8, <2>1 DEF Result
    <2>3. ~ (p + 2 <= Size) /\ Size >= Size
      BY <1>6, <1>10
    <2> QED
      BY <1>4, <1>5, <1>6, <1>9, <1>10, <2>2, <2>3, Reading
  <1>11. CASE p + 2 <= Size
    <2>1. r = Result(<<t>>, p + 2)
      <3>1. ReadGByte(p, 2) = Result(<<Clamp(t, LaneMax[2])>>, p + 2)
        BY <1>4, <1>6, <1>11, GByteReads
      <3>2. Clamp(t, GShortMax) = t
        BY SMTT(30), <1>3 DEF Clamp, GShortMax
      <3>3. LaneMax[2] = GShortMax
        BY DEF LaneMax
      <3> QED
        BY <1>7, <3>1, <3>2, <3>3
    <2>2. r.value = <<t>> /\ r.value[1] = t /\ r.pos = p + 2 /\ r.value # None
      BY <2>1, NotNone DEF Result
    <2>3. Decode(d, p, c) =
             Result(<<IF t % 2 = 1 THEN - (t \div 2) ELSE t \div 2>>, p + 2)
      BY <1>8, <2>2
    <2>4. (IF t % 2 = 1 THEN - (t \div 2) ELSE t \div 2) = x
      <3>1. CASE x < 0
        <4>1. PICK y \in Nat : y = - x
          BY <3>1
        <4>2. t = 2 * y + 1
          BY <1>3, <3>1, <4>1
        <4>3. t % 2 = 1 /\ t \div 2 = y
          BY <4>2
        <4> QED
          BY <4>1, <4>3
      <3>2. CASE x >= 0
        <4>1. t = 2 * x
          BY <1>3, <3>2
        <4>2. t % 2 = 0 /\ t \div 2 = x
          BY <3>2, <4>1
        <4> QED
          BY <4>2
      <3> QED
        BY <3>1, <3>2
    <2>5. p + 2 \in Nat /\ ~ (p + 2 > Size)
      BY <1>6, <1>11
    <2>6. Decode(d, p, c) = Result(<<x>>, p + 2)
      BY <2>3, <2>4
    <2> QED
      BY <1>2, <1>4, <1>5, <1>9, <2>5, <2>6, Reading
  <1> QED
    BY <1>6, <1>10, <1>11

\* A list of colors, cut or filled up to n, takes n bytes.
LEMMA FilledChars ==
    ASSUME NEW v \in Seq(Int), NEW n \in Nat
    PROVE  /\ Chars(Filled(v, n)) \in Seq(Byte)
           /\ Len(Chars(Filled(v, n))) = n
           /\ \A i \in 1 .. n : Chars(Filled(v, n))[i] = Clamped(v, n)[i] + 32
           /\ \A i \in 1 .. n : Clamped(v, n)[i] \in Nat
  <1>1. PICK f : f = Filled(v, n)
    OBVIOUS
  <1>2. /\ f \in [1 .. n -> Int]
        /\ \A i \in 1 .. n : f[i] = IF i <= Len(v) THEN v[i] ELSE 0
    <2>1. \A i \in 1 .. n : (IF i <= Len(v) THEN v[i] ELSE 0) \in Int
      <3> TAKE i \in 1 .. n
      <3>1. i <= Len(v) => i \in 1 .. Len(v)
        OBVIOUS
      <3> QED
        BY <3>1
    <2> QED
      BY <1>1, <2>1 DEF Filled
  <1>3. f \in Seq(Int) /\ Len(f) = n
    BY <1>2, FunctionSeq
  <1>4. PICK s : s = Chars(f)
    OBVIOUS
  <1>5. s = [i \in 1 .. n |-> GByte(f[i], 1)[1]]
    BY <1>3, <1>4 DEF Chars
  <1>6. PICK z : z = Clamped(v, n)
    OBVIOUS
  <1>7. \A i \in 1 .. n : z[i] = Clamp(f[i], 223)
    <2>1. Clamp(0, 223) = 0
      BY DEF Clamp
    <2> QED
      BY <1>2, <1>6, <2>1 DEF Clamped
  <1>8. \A i \in 1 .. n : z[i] \in Nat /\ z[i] + 32 \in Byte /\ s[i] = z[i] + 32
    <2> TAKE i \in 1 .. n
    <2>1. PICK x \in Int : x = f[i]
      BY <1>2
    <2>2. PICK y \in Nat : y = Clamp(x, 223) /\ y <= 223
      <3>1. Clamp(x, 223) \in Nat /\ Clamp(x, 223) <= 223
        BY ClampRange
      <3> QED
        BY <3>1
    <2>3. y + 32 \in Byte
      <3>1. y <= 223
        BY <2>2
      <3> QED
        BY <3>1 DEF Byte
    <2>4. GByte(x, 1) = <<y + 32>>
      BY <2>2, GByte1
    <2>5. s[i] = y + 32
      BY <1>5, <2>1, <2>4
    <2> QED
      BY <1>7, <2>1, <2>2, <2>3, <2>5
  <1>9. s \in [1 .. n -> Byte]
    BY <1>5, <1>8
  <1>10. s \in Seq(Byte) /\ Len(s) = n
    BY <1>9, FunctionSeq
  <1> QED
    BY <1>1, <1>4, <1>6, <1>8, <1>10

\* And is read byte by byte.
LEMMA CharredReads ==
    ASSUME NEW v \in Seq(Int), NEW n \in Nat, NEW p \in Nat,
           At(p, Chars(Filled(v, n))), p + n <= Size
    PROVE  Charred(p, p + n) = Clamped(v, n)
  <1>1. Size \in Nat
    BY DEF Size
  <1>2. PICK s : s = Chars(Filled(v, n))
    OBVIOUS
  <1>3. PICK z : z = Clamped(v, n)
    OBVIOUS
  <1>4. /\ Len(s) = n /\ \A i \in 1 .. n : s[i] = z[i] + 32
        /\ \A i \in 1 .. n : z[i] \in Nat
    BY <1>2, <1>3, FilledChars
  <1>5. \A i \in 1 .. n : NonNegative(Ord(p + i - 1)) = z[i]
    <2> TAKE i \in 1 .. n
    <2>1. p + i <= Size
      BY <1>1
    <2>2. data[p + i] = s[i]
      BY <1>2, <1>4, <2>1 DEF At
    <2>3. p + i - 1 + 1 = p + i
      OBVIOUS
    <2>4. Ord(p + i - 1) = s[i] - 32
      BY <2>2, <2>3 DEF Ord
    <2>5. PICK y \in Nat : y = z[i] /\ s[i] = y + 32
      BY <1>4
    <2>6. NonNegative(y) = y
      BY NonNegativeNat
    <2>7. Ord(p + i - 1) = y
      BY <2>4, <2>5
    <2> QED
      BY <2>5, <2>6, <2>7
  <1>6. p + n - p = n
    OBVIOUS
  <1>7. Charred(p, p + n) = [i \in 1 .. n |-> NonNegative(Ord(p + i - 1))]
    BY <1>6 DEF Charred
  <1>8. z = [i \in 1 .. n |-> z[i]]
    BY <1>3 DEF Clamped
  <1> QED
    BY <1>3, <1>5, <1>7, <1>8

\* COLORS: as many bytes as the reader's width.
LEMMA ReadsColors ==
    ASSUME NEW d, NEW v, NEW p, NEW c, Placed(d, v, p, c), d.wire = "COLORS"
    PROVE  Reads(d, v, p, c)
  <1>1. /\ data \in Seq(Byte) /\ p \in Nat /\ p <= Size /\ Size \in Nat
        /\ v \in Seq(Int) /\ c \in Nat /\ At(p, Encode(d, v, c))
    BY DEF Placed, Size, Legal
  <1>2. PICK e \in Seq(Byte) : e = Chars(Filled(v, c)) /\ Len(e) = c
    BY <1>1, FilledChars
  <1>3. e = Encode(d, v, c) /\ ReadBack(d, v, c) = Clamped(v, c)
    BY <1>2 DEF Encode, ReadBack
  <1>4. PICK value : value = Charred(p, Clamp(p + c, Size))
    OBVIOUS
  <1>5. Decode(d, p, c) = Result(value, p + c) /\ PayloadLen(d, p, c) = c
    BY <1>4 DEF Decode, PayloadLen
  <1>6. p + c <= Size => value = Clamped(v, c)
    <2>1. HAVE p + c <= Size
    <2>2. Clamp(p + c, Size) = p + c
      BY <1>1, <2>1 DEF Clamp
    <2>3. Charred(p, p + c) = Clamped(v, c)
      BY <1>1, <1>2, <1>3, <2>1, CharredReads
    <2> QED
      BY <1>4, <2>2, <2>3
  <1>7. p + c \in Nat /\ (p + c > Size => p + c >= Size)
    BY <1>1
  <1> QED
    BY <1>1, <1>2, <1>3, <1>5, <1>6, <1>7, Reading

\* The payload length of a form that is measured: what its decoder advances.
LEMMA Measured ==
    ASSUME NEW d, NEW p \in Nat, NEW c,
           d.wire \in {"EFFECTCOLORS", "SWORDPOWER", "POWERIMAGE", "HEADGIF"},
           NEW value, NEW q \in Nat, q >= p + 1,
           Decode(d, p, c) = Result(value, q)
    PROVE  PayloadLen(d, p, c) = q - p /\ q - p \in Nat
  <1>1. Decode(d, p, c).pos = q
    BY DEF Result
  <1>2. q - p \in Nat /\ ~ (q - p < 1)
    OBVIOUS
  <1>3. PayloadLen(d, p, c) = IF Decode(d, p, c).pos - p < 1 THEN 1
                              ELSE Decode(d, p, c).pos - p
    BY DEF PayloadLen
  <1> QED
    BY <1>1, <1>2, <1>3

\* EFFECTCOLORS: no colors, or five of which the first is not zero.
LEMMA ReadsEffectColors ==
    ASSUME NEW d, NEW v, NEW p, NEW c, Placed(d, v, p, c),
           d.wire = "EFFECTCOLORS"
    PROVE  Reads(d, v, p, c)
  <1>1. /\ data \in Seq(Byte) /\ p \in Nat /\ p <= Size /\ Size \in Nat
        /\ v \in Seq(Int) /\ (v # <<>> => v[1] >= 0) /\ At(p, Encode(d, v, c))
    BY DEF Placed, Size, Legal
  <1>2. CASE v = <<>> \/ v[1] = 0
    <2>1. PICK e \in Seq(Byte) : e = GByte(0, 1) /\ Len(e) = 1
      BY GByteType
    <2>2. e = Encode(d, v, c) /\ ReadBack(d, v, c) = <<0>>
      BY <1>2, <2>1 DEF Encode, ReadBack
    <2>3. CASE p = Size
      <3>1. Len(e) >= 1
        BY <2>1
      <3> QED
        BY <2>2, <2>3, <3>1, ReadsNothing
    <2>4. CASE p < Size
      <3>1. Clamp(0, 223) = 0
        BY DEF Clamp
      <3>2. Ord(p) = 0
        BY <1>1, <2>1, <2>2, <2>4, <3>1, GByteFirst
      <3>3. Decode(d, p, c) = Result(<<0>>, p + 1)
        BY <2>4, <3>2 DEF Decode, DecodeByte
      <3>4. p + 1 \in Nat /\ p + 1 - p = 1 /\ p + 1 >= p + 1 /\ ~ (p + 1 > Size)
        BY <1>1, <2>4
      <3>5. PayloadLen(d, p, c) = 1
        BY <1>1, <3>3, <3>4, Measured
      <3> QED
        BY <2>1, <2>2, <3>3, <3>4, <3>5, Reading
    <2> QED
      BY <1>1, <2>3, <2>4
  <1>3. CASE v # <<>> /\ v[1] # 0
    <2>1. PICK x \in Nat : x = v[1] /\ x > 0
      <3>1. Len(v) >= 1 /\ v[1] \in Int
        BY <1>1, <1>3
      <3> QED
        BY <1>1, <1>3, <3>1
    <2>2. PICK e \in Seq(Byte) : /\ e = Chars(Filled(v, 5)) /\ Len(e) = 5
                                 /\ e[1] = Clamped(v, 5)[1] + 32
      <3>1. /\ Chars(Filled(v, 5)) \in Seq(Byte)
            /\ Len(Chars(Filled(v, 5))) = 5
            /\ \A i \in 1 .. 5 : Chars(Filled(v, 5))[i] = Clamped(v, 5)[i] + 32
        BY <1>1, FilledChars
      <3> QED
        BY <3>1
    <2>3. e = Encode(d, v, c) /\ ReadBack(d, v, c) = Clamped(v, 5)
      BY <1>3, <2>2 DEF Encode, ReadBack
    <2>4. CASE p = Size
      <3>1. Len(e) >= 1
        BY <2>2
      <3> QED
        BY <2>3, <2>4, <3>1, ReadsNothing
    <2>5. CASE p < Size
      <3>1. PICK y \in Nat : Clamped(v, 5)[1] = y /\ y > 0
        <4>1. 1 <= Len(v)
          BY <1>1, <1>3
        <4>2. Clamped(v, 5)[1] = Clamp(x, 223)
          BY <2>1, <4>1 DEF Clamped
        <4>3. Clamp(x, 223) \in Nat /\ Clamp(x, 223) > 0
          BY <2>1 DEF Clamp
        <4> QED
          BY <4>2, <4>3
      <3>2. Ord(p) = y
        <4>1. p + 1 <= Size
          BY <1>1, <2>5
        <4>2. \A i \in 1 .. 5 : p + i <= Size => data[p + i] = e[i]
          BY <1>1, <2>2, <2>3 DEF At
        <4>3. data[p + 1] = y + 32
          BY <2>2, <3>1, <4>1, <4>2
        <4> QED
          BY <4>3 DEF Ord
      <3>3. PICK value : value = Charred(p, Clamp(p + 5, Size))
        OBVIOUS
      <3>4. Decode(d, p, c) = Result(value, p + 5)
        <4>1. Ord(p) # 0
          BY <3>1, <3>2
        <4> QED
          BY <2>5, <3>3, <4>1 DEF Decode, DecodeByte
      <3>5. p + 5 \in Nat /\ p + 5 - p = 5 /\ p + 5 >= p + 1
        BY <1>1
      <3>6. PayloadLen(d, p, c) = 5
        BY <1>1, <3>4, <3>5, Measured
      <3>7. p + 5 <= Size => value = Clamped(v, 5)
        <4>1. HAVE p + 5 <= Size
        <4>2. Clamp(p + 5, Size) = p + 5
          BY <1>1, <4>1 DEF Clamp
        <4>3. Charred(p, p + 5) = Clamped(v, 5)
          BY <1>1, <2>2, <2>3, <4>1, CharredReads
        <4> QED
          BY <3>3, <4>2, <4>3
      <3>8. p + 5 > Size => p + 5 >= Size
        BY <1>1
      <3> QED
        BY <1>1, <2>2, <2>3, <3>4, <3>5, <3>6, <3>7, <3>8, Reading
    <2> QED
      BY <1>1, <2>4, <2>5
  <1> QED
    BY <1>2, <1>3

\* A form with an image is a power byte and a string.
WithImage(d, v, c, power, s) ==
    Encode(d, v, c) = GByte(power, 1) \o PropString(s, 1)

\* What it has behind its power byte.
LEMMA ImageBehind ==
    ASSUME NEW d, NEW v, NEW p, NEW c, Placed(d, v, p, c), d.wire \in ImageForm,
           NEW s \in Seq(Byte), Len(s) <= 223, NEW power \in Int,
           WithImage(d, v, c, power, s)
    PROVE  /\ Encode(d, v, c) \in Seq(Byte)
           /\ Len(Encode(d, v, c)) = 2 + Len(s)
           /\ p < Size => Ord(p) = Clamp(power, 223)
           /\ p + 1 = Size => ReadString(p + 1) = Result(None, Size)
           /\ p + 1 < Size => ReadString(p + 1) =
                 Result(IF s = <<>> \/ p + 2 + Len(s) > Size THEN None ELSE s,
                        p + 2 + Len(s))
  <1>1. /\ data \in Seq(Byte) /\ p \in Nat /\ p <= Size /\ Size \in Nat
        /\ At(p, GByte(power, 1) \o PropString(s, 1))
    BY DEF Placed, Size, WithImage
  <1>2. PICK g \in Seq(Byte) : g = GByte(power, 1) /\ Len(g) = 1
    BY GByteType
  <1>3. PICK m \in Nat : m = Len(s) /\ m <= 223
    OBVIOUS
  <1>4. PICK t \in Seq(Byte) : t = PropString(s, 1) /\ Len(t) = 1 + m
    <2>1. PICK u \in Seq(Byte) : u = GByte(m, 1) /\ Len(u) = 1
      BY GByteType
    <2>2. u \o s \in Seq(Byte) /\ Len(u \o s) = Len(u) + Len(s)
      BY Joined
    <2> QED
      BY <1>3, <2>1, <2>2 DEF PropString
  <1>5. g \o t \in Seq(Byte) /\ Len(g \o t) = 1 + (1 + m)
    <2>1. g \o t \in Seq(Byte) /\ Len(g \o t) = Len(g) + Len(t)
      BY Joined
    <2> QED
      BY <1>2, <1>4, <2>1
  <1>6. At(p, g) /\ At(p + 1, t)
    <2>1. At(p, g) /\ At(p + Len(g), t)
      BY <1>1, <1>2, <1>4, AtJoined
    <2> QED
      BY <1>2, <2>1
  <1>7. p < Size => Ord(p) = Clamp(power, 223)
    BY <1>1, <1>2, <1>6, GByteFirst
  <1>8. PICK b \in Nat : b = p + 1
    BY <1>1
  <1>9. p + 1 = Size => ReadString(p + 1) = Result(None, Size)
    <2>1. b = Size => ReadString(b) = Result(None, Size)
      <3>1. HAVE b = Size
      <3>2. b <= Size
        BY <1>1, <3>1
      <3> QED
        BY <1>1, <1>3, <1>4, <1>6, <1>8, <3>1, <3>2, StringReads
    <2> QED
      BY <1>8, <2>1
  <1>10. p + 1 < Size => ReadString(p + 1) =
            Result(IF s = <<>> \/ p + 2 + m > Size THEN None ELSE s, p + 2 + m)
    <2>1. HAVE p + 1 < Size
    <2>2. b < Size /\ b <= Size /\ b + 1 + m = p + 2 + m
      BY <1>1, <1>8, <2>1
    <2>3. ReadString(b) = Result(IF s = <<>> \/ b + 1 + m > Size THEN None ELSE s,
                                 b + 1 + m)
      BY <1>1, <1>3, <1>4, <1>6, <1>8, <2>2, StringReads
    <2> QED
      BY <1>8, <2>2, <2>3
  <1>11. 1 + (1 + m) = 2 + m
    OBVIOUS
  <1> QED
    BY <1>2, <1>3, <1>4, <1>5, <1>7, <1>9, <1>10, <1>11 DEF WithImage

\* A pair is not a single number, and its text is not None.
LEMMA PairType ==
    ASSUME NEW S, NEW v, v \in S \X Seq(Byte)
    PROVE  /\ v[1] \in S /\ v[2] \in Seq(Byte) /\ v = <<v[1], v[2]>>
           /\ Len(v) # 1 /\ ImageText(v[2]) = v[2]
  <1>1. PICK a \in S, b \in Seq(Byte) : v = <<a, b>>
    OBVIOUS
  <1>2. v[1] = a /\ v[2] = b /\ Len(v) = 2
    BY <1>1
  <1>3. b # None
    BY NotNone
  <1> QED
    BY <1>1, <1>2, <1>3 DEF ImageText

\* SWORDPOWER: a power below the bias alone, or a power above it and the image.
LEMMA ReadsSwordPower ==
    ASSUME NEW d, NEW v, NEW p, NEW c, Placed(d, v, p, c),
           d.wire = "SWORDPOWER", d.bias \in {10, 30}
    PROVE  Reads(d, v, p, c)
  <1>1. /\ data \in Seq(Byte) /\ p \in Nat /\ p <= Size /\ Size \in Nat
        /\ At(p, Encode(d, v, c))
    BY DEF Placed, Size
  <1>2. Encode(d, v, c) = PowerImage(v, d.bias)
    BY DEF Encode
  <1>3. PICK bias \in Nat : bias = d.bias /\ bias <= 30
    OBVIOUS
  <1>4. ReadBack(d, v, c) = IF Len(v) = 1 THEN <<NonNegative(v[1]), None>>
                            ELSE <<Clamp(v[1], 223 - bias), v[2]>>
    BY <1>3 DEF ReadBack
  <1>5. p < Size => Decode(d, p, c) =
           IF Ord(p) < bias THEN Result(<<NonNegative(Ord(p)), None>>, p + 1)
           ELSE LET r == ReadString(p + 1)
                IN  Result(<<Ord(p) - bias, Or(r.value, <<>>)>>, r.pos)
    BY <1>3 DEF Decode, DecodeByte
  <1>6. \/ v \in Numbers(1) /\ v[1] < bias
        \/ v \in Nat \X Seq(Byte) /\ IsText(v[2], 223)
    BY <1>3 DEF Placed, Legal
  <1>7. CASE v \in Numbers(1) /\ v[1] < bias
    <2>1. Len(v) = 1 /\ v[1] \in Int
      BY <1>7, NumbersType
    <2>2. PICK x \in Int : x = v[1] /\ x < bias
      BY <1>7, <2>1
    <2>3. PICK e \in Seq(Byte) : e = GByte(x, 1) /\ Len(e) = 1
      BY GByteType
    <2>4. e = Encode(d, v, c) /\ ReadBack(d, v, c) = <<NonNegative(x), None>>
      BY <1>2, <1>3, <1>4, <2>1, <2>2, <2>3 DEF PowerImage
    <2>5. CASE p = Size
      <3>1. Len(e) = 1
        BY <2>3
      <3>2. Len(e) >= 1
        BY <3>1
      <3> QED
        BY <2>4, <2>5, <3>2, ReadsNothing
    <2>6. CASE p < Size
      <3>1. Ord(p) = Clamp(x, 223)
        BY <1>1, <2>3, <2>4, <2>6, GByteFirst
      <3>2. /\ Clamp(x, 223) < bias
            /\ NonNegative(Clamp(x, 223)) = NonNegative(x)
        BY <1>3, <2>2 DEF Clamp, NonNegative
      <3>3. Decode(d, p, c) = Result(<<NonNegative(x), None>>, p + 1)
        BY <1>5, <2>6, <3>1, <3>2
      <3>4. p + 1 \in Nat /\ p + 1 - p = 1 /\ p + 1 >= p + 1 /\ ~ (p + 1 > Size)
        BY <1>1, <2>6
      <3>5. PayloadLen(d, p, c) = 1
        BY <1>1, <3>3, <3>4, Measured
      <3> QED
        BY <2>3, <2>4, <3>3, <3>4, <3>5, Reading
    <2> QED
      BY <1>1, <2>5, <2>6
  <1>8. CASE v \in Nat \X Seq(Byte) /\ IsText(v[2], 223)
    <2>1. PICK x \in Nat, s \in Seq(Byte) :
             /\ x = v[1] /\ s = v[2] /\ Len(s) <= 223
             /\ Len(v) # 1 /\ ImageText(v[2]) = s
      BY <1>8, PairType DEF IsText
    <2>2. PICK m \in Nat : m = Len(s)
      OBVIOUS
    <2>3. bias + x \in Int
      OBVIOUS
    <2>4. Encode(d, v, c) = GByte(bias + x, 1) \o PropString(s, 1)
      BY <1>2, <1>3, <2>1 DEF PowerImage
    <2>5. ReadBack(d, v, c) = <<Clamp(x, 223 - bias), s>>
      BY <1>4, <2>1
    <2>6. /\ Encode(d, v, c) \in Seq(Byte) /\ Len(Encode(d, v, c)) = 2 + m
          /\ p < Size => Ord(p) = Clamp(bias + x, 223)
          /\ p + 1 = Size => ReadString(p + 1) = Result(None, Size)
          /\ p + 1 < Size => ReadString(p + 1) =
                Result(IF s = <<>> \/ p + 2 + m > Size THEN None ELSE s, p + 2 + m)
      <3>1. d.wire \in ImageForm /\ Len(s) <= 223
        BY <2>1 DEF ImageForm
      <3>2. PICK power \in Int : power = bias + x
        BY <2>3
      <3>3. /\ Encode(d, v, c) \in Seq(Byte)
            /\ Len(Encode(d, v, c)) = 2 + Len(s)
            /\ p < Size => Ord(p) = Clamp(power, 223)
            /\ p + 1 = Size => ReadString(p + 1) = Result(None, Size)
            /\ p + 1 < Size => ReadString(p + 1) =
                  Result(IF s = <<>> \/ p + 2 + Len(s) > Size THEN None ELSE s,
                         p + 2 + Len(s))
        <4>1. WithImage(d, v, c, power, s)
          BY <2>4, <3>2 DEF WithImage
        <4> QED
          BY <3>1, <4>1, ImageBehind
      <3> QED
        BY <2>2, <3>2, <3>3
    <2>7. PICK e \in Seq(Byte) : e = Encode(d, v, c) /\ Len(e) = 2 + m
      BY <2>6
    <2>8. CASE p = Size
      <3>1. Len(e) >= 1
        BY <2>7
      <3> QED
        BY <2>7, <2>8, <3>1, ReadsNothing
    <2>9. CASE p < Size
      <3>1. PICK power : power = Ord(p) - bias
        OBVIOUS
      <3>2. power = Clamp(x, 223 - bias) /\ ~ (Ord(p) < bias)
        BY <1>3, <2>6, <2>9, <3>1 DEF Clamp
      <3>3. PICK r : r = ReadString(p + 1)
        OBVIOUS
      <3>4. Decode(d, p, c) = Result(<<power, Or(r.value, <<>>)>>, r.pos)
        BY <1>5, <2>9, <3>1, <3>2, <3>3
      <3>5. PICK n \in Nat : n = 2 + m
        OBVIOUS
      <3>6. CASE p + 1 = Size
        <4>1. r.pos = p + 1
          BY <2>6, <3>3, <3>6 DEF Result
        <4>2. PICK value : Decode(d, p, c) = Result(value, p + 1)
          BY <3>4, <4>1
        <4>3. p + 1 \in Nat /\ p + 1 - p = 1 /\ p + 1 >= p + 1
              /\ p + 1 >= Size /\ ~ (p + n <= Size)
          BY <1>1, <3>5, <3>6
        <4>4. PayloadLen(d, p, c) = 1
          BY <1>1, <4>2, <4>3, Measured
        <4>5. d.wire \in ImageForm /\ Size = p + 1
          BY <3>6 DEF ImageForm
        <4> QED
          BY <2>7, <3>5, <4>2, <4>3, <4>4, <4>5, Reading
      <3>7. CASE p + 1 < Size
        <4>1. PICK q \in Nat : q = p + 2 + m
          BY <1>1
        <4>2. r = Result(IF s = <<>> \/ q > Size THEN None ELSE s, q)
          BY <2>6, <3>3, <3>7, <4>1
        <4>3. r.pos = q /\ r.value = IF s = <<>> \/ q > Size THEN None ELSE s
          BY <4>2 DEF Result
        <4>4. PICK value : value = <<power, Or(r.value, <<>>)>>
          OBVIOUS
        <4>5. Decode(d, p, c) = Result(value, q)
          BY <3>4, <4>3, <4>4
        <4>6. q = p + n /\ q - p = n /\ q >= p + 1 /\ (p + n > Size => q >= Size)
          BY <1>1, <3>5, <4>1
        <4>7. PayloadLen(d, p, c) = n
          BY <1>1, <4>5, <4>6, Measured
        <4>8. p + n <= Size => value = ReadBack(d, v, c)
          <5>1. HAVE p + n <= Size
          <5>2. ~ (q > Size)
            BY <1>1, <4>6, <5>1
          <5>3. Or(r.value, <<>>) = s
            <6>1. s # None
              BY NotNone
            <6> QED
              BY <4>3, <5>2, <6>1 DEF Or
          <5> QED
            BY <2>5, <3>2, <4>4, <5>3
        <4> QED
          BY <2>7, <3>5, <4>5, <4>6, <4>7, <4>8, Reading
      <3> QED
        BY <1>1, <2>9, <3>6, <3>7
    <2> QED
      BY <1>1, <2>8, <2>9
  <1> QED
    BY <1>6, <1>7, <1>8

\* POWERIMAGE: a power and an image; of an empty one nothing is left.
LEMMA ReadsPowerImage ==
    ASSUME NEW d, NEW v, NEW p, NEW c, Placed(d, v, p, c),
           d.wire = "POWERIMAGE", d.bias = 0
    PROVE  Reads(d, v, p, c)
  <1>1. /\ data \in Seq(Byte) /\ p \in Nat /\ p <= Size /\ Size \in Nat
        /\ At(p, Encode(d, v, c))
    BY DEF Placed, Size
  <1>2. Encode(d, v, c) = PowerImage(v, 0)
    BY DEF Encode
  <1>3. PICK x \in Int, s \in Seq(Byte) :
             /\ x = v[1] /\ s = v[2] /\ Len(s) <= 223
             /\ Len(v) # 1 /\ ImageText(v[2]) = s
    <2>1. v \in Int \X Seq(Byte) /\ IsText(v[2], 223)
      BY DEF Placed, Legal
    <2> QED
      BY <2>1, PairType DEF IsText
  <1>4. ReadBack(d, v, c) = <<Clamp(x, 223), IF s = <<>> THEN None ELSE s>>
    BY <1>3 DEF ReadBack
  <1>5. p < Size => Decode(d, p, c) =
           LET r == ReadString(p + 1)
           IN  Result(<<NonNegative(Ord(p)), r.value>>, r.pos)
    BY DEF Decode, DecodeByte
  <1>6. PICK m \in Nat : m = Len(s)
    OBVIOUS
  <1>7. Encode(d, v, c) = GByte(x, 1) \o PropString(s, 1)
    <2>1. 0 + x = x
      OBVIOUS
    <2> QED
      BY <1>2, <1>3, <2>1 DEF PowerImage
  <1>8. /\ Encode(d, v, c) \in Seq(Byte) /\ Len(Encode(d, v, c)) = 2 + m
        /\ p < Size => Ord(p) = Clamp(x, 223)
        /\ p + 1 = Size => ReadString(p + 1) = Result(None, Size)
        /\ p + 1 < Size => ReadString(p + 1) =
              Result(IF s = <<>> \/ p + 2 + m > Size THEN None ELSE s, p + 2 + m)
    <2>1. d.wire \in ImageForm /\ Len(s) <= 223
      BY <1>3 DEF ImageForm
    <2>2. /\ Encode(d, v, c) \in Seq(Byte)
          /\ Len(Encode(d, v, c)) = 2 + Len(s)
          /\ p < Size => Ord(p) = Clamp(x, 223)
          /\ p + 1 = Size => ReadString(p + 1) = Result(None, Size)
          /\ p + 1 < Size => ReadString(p + 1) =
                Result(IF s = <<>> \/ p + 2 + Len(s) > Size THEN None ELSE s,
                       p + 2 + Len(s))
      <3>1. WithImage(d, v, c, x, s)
        BY <1>7 DEF WithImage
      <3> QED
        BY <2>1, <3>1, ImageBehind
    <2> QED
      BY <1>6, <2>2
  <1>9. PICK e \in Seq(Byte) : e = Encode(d, v, c) /\ Len(e) = 2 + m
    BY <1>8
  <1>10. CASE p = Size
    <2>1. Len(e) >= 1
      BY <1>9
    <2> QED
      BY <1>9, <1>10, <2>1, ReadsNothing
  <1>11. CASE p < Size
    <2>1. PICK power \in Nat : power = Clamp(x, 223)
      BY ClampRange
    <2>2. NonNegative(Ord(p)) = power
      BY <1>8, <1>11, <2>1, NonNegativeNat
    <2>3. PICK r : r = ReadString(p + 1)
      OBVIOUS
    <2>4. Decode(d, p, c) = Result(<<power, r.value>>, r.pos)
      BY <1>5, <1>11, <2>2, <2>3
    <2>5. PICK n \in Nat : n = 2 + m
      OBVIOUS
    <2>6. CASE p + 1 = Size
      <3>1. r.pos = p + 1
        BY <1>8, <2>3, <2>6 DEF Result
      <3>2. PICK value : Decode(d, p, c) = Result(value, p + 1)
        BY <2>4, <3>1
      <3>3. p + 1 \in Nat /\ p + 1 - p = 1 /\ p + 1 >= p + 1
            /\ p + 1 >= Size /\ ~ (p + n <= Size)
        BY <1>1, <2>5, <2>6
      <3>4. PayloadLen(d, p, c) = 1
        BY <1>1, <3>2, <3>3, Measured
      <3>5. d.wire \in ImageForm /\ Size = p + 1
        BY <2>6 DEF ImageForm
      <3> QED
        BY <1>9, <2>5, <3>2, <3>3, <3>4, <3>5, Reading
    <2>7. CASE p + 1 < Size
      <3>1. PICK q \in Nat : q = p + 2 + m
        BY <1>1
      <3>2. r = Result(IF s = <<>> \/ q > Size THEN None ELSE s, q)
        BY <1>8, <2>3, <2>7, <3>1
      <3>3. r.pos = q /\ r.value = IF s = <<>> \/ q > Size THEN None ELSE s
        BY <3>2 DEF Result
      <3>4. PICK value : value = <<power, r.value>>
        OBVIOUS
      <3>5. Decode(d, p, c) = Result(value, q)
        BY <2>4, <3>3, <3>4
      <3>6. q = p + n /\ q - p = n /\ q >= p + 1 /\ (p + n > Size => q >= Size)
        BY <1>1, <2>5, <3>1
      <3>7. PayloadLen(d, p, c) = n
        BY <1>1, <3>5, <3>6, Measured
      <3>8. p + n <= Size => value = ReadBack(d, v, c)
        <4>1. HAVE p + n <= Size
        <4>2. ~ (q > Size)
          BY <1>1, <3>6, <4>1
        <4> QED
          BY <1>4, <2>1, <3>3, <3>4, <4>2
      <3> QED
        BY <1>9, <2>5, <3>5, <3>6, <3>7, <3>8, Reading
    <2> QED
      BY <1>1, <1>11, <2>6, <2>7
  <1> QED
    BY <1>1, <1>10, <1>11

\* HEADGIF: the number of a preset, or a name whose length is in the same byte.
LEMMA ReadsHeadGif ==
    ASSUME NEW d, NEW v, NEW p, NEW c, Placed(d, v, p, c), d.wire = "HEADGIF"
    PROVE  Reads(d, v, p, c)
  <1>1. /\ data \in Seq(Byte) /\ p \in Nat /\ p <= Size /\ Size \in Nat
        /\ At(p, Encode(d, v, c))
    BY DEF Placed, Size
  <1>2. Encode(d, v, c) = HeadGif(v)
    BY DEF Encode
  <1>3. ReadBack(d, v, c) = IF v[1] = "preset" THEN <<"preset", Clamp(v[2], 99)>>
                            ELSE v
    BY DEF ReadBack
  <1>4. p < Size => Decode(d, p, c) =
           IF Ord(p) < 100 THEN Result(<<"preset", Ord(p)>>, p + 1)
           ELSE LET end == p + 1 + (Ord(p) - 100)
                IN  Result(IF end > Size THEN None
                           ELSE <<"name", Bytes(p + 1, end)>>, end)
    BY DEF Decode, DecodeByte
  <1>5. \/ v \in {"preset"} \X Int
        \/ v \in {"name"} \X Seq(Byte) /\ IsText(v[2], 123)
    BY DEF Placed, Legal
  <1>6. CASE v \in {"preset"} \X Int
    <2>1. PICK x \in Int : v[1] = "preset" /\ x = v[2]
      BY <1>6
    <2>2. PICK y \in Int : y = IF x > 99 THEN 99 ELSE x
      OBVIOUS
    <2>3. PICK e \in Seq(Byte) : e = GByte(y, 1) /\ Len(e) = 1
      BY GByteType
    <2>4. e = Encode(d, v, c) /\ ReadBack(d, v, c) = <<"preset", Clamp(x, 99)>>
      BY <1>2, <1>3, <2>1, <2>2, <2>3 DEF HeadGif
    <2>5. CASE p = Size
      <3>1. Len(e) = 1
        BY <2>3
      <3>2. Len(e) >= 1
        BY <3>1
      <3> QED
        BY <2>4, <2>5, <3>2, ReadsNothing
    <2>6. CASE p < Size
      <3>1. Ord(p) = Clamp(y, 223)
        BY <1>1, <2>3, <2>4, <2>6, GByteFirst
      <3>2. Clamp(y, 223) = Clamp(x, 99) /\ Clamp(x, 99) < 100
        BY <2>2 DEF Clamp
      <3>3. Decode(d, p, c) = Result(<<"preset", Clamp(x, 99)>>, p + 1)
        BY <1>4, <2>6, <3>1, <3>2
      <3>4. p + 1 \in Nat /\ p + 1 - p = 1 /\ p + 1 >= p + 1 /\ ~ (p + 1 > Size)
        BY <1>1, <2>6
      <3>5. PayloadLen(d, p, c) = 1
        BY <1>1, <3>3, <3>4, Measured
      <3> QED
        BY <2>3, <2>4, <3>3, <3>4, <3>5, Reading
    <2> QED
      BY <1>1, <2>5, <2>6
  <1>7. CASE v \in {"name"} \X Seq(Byte) /\ IsText(v[2], 123)
    <2>1. PICK s \in Seq(Byte) : /\ s = v[2] /\ v[1] = "name" /\ v = <<"name", s>>
                                 /\ Len(s) <= 123
      <3>1. v[1] \in {"name"} /\ v[2] \in Seq(Byte) /\ v = <<v[1], v[2]>>
        BY <1>7, PairType
      <3> QED
        BY <1>7, <3>1 DEF IsText
    <2>2. PICK m \in Nat : m = Len(s) /\ m <= 123
      BY <2>1
    <2>3. PICK h \in Nat : h = 100 + m
      OBVIOUS
    <2>4. PICK g \in Seq(Byte) : g = GByte(h, 1) /\ Len(g) = 1
      BY GByteType
    <2>5. Encode(d, v, c) = g \o s
      <3>1. v[1] # "preset"
        BY <2>1
      <3> QED
        BY <1>2, <2>1, <2>2, <2>3, <2>4, <3>1 DEF HeadGif
    <2>6. PICK n \in Nat : n = 1 + m
      OBVIOUS
    <2>7. PICK e \in Seq(Byte) : e = Encode(d, v, c) /\ Len(e) = n
      <3>1. g \o s \in Seq(Byte) /\ Len(g \o s) = Len(g) + Len(s)
        BY Joined
      <3> QED
        BY <2>2, <2>4, <2>5, <2>6, <3>1
    <2>8. At(p, g) /\ At(p + 1, s)
      <3>1. At(p, g \o s)
        BY <1>1, <2>5
      <3>2. At(p, g) /\ At(p + Len(g), s)
        BY <1>1, <3>1, AtJoined
      <3> QED
        BY <2>4, <3>2
    <2>9. ReadBack(d, v, c) = <<"name", s>>
      <3>1. v[1] # "preset"
        BY <2>1
      <3> QED
        BY <1>3, <2>1, <3>1
    <2>10. CASE p = Size
      <3>1. Len(e) >= 1
        BY <2>6, <2>7
      <3> QED
        BY <2>7, <2>10, <3>1, ReadsNothing
    <2>11. CASE p < Size
      <3>1. Ord(p) = Clamp(h, 223)
        BY <1>1, <2>4, <2>8, <2>11, GByteFirst
      <3>2. Ord(p) - 100 = m /\ ~ (Ord(p) < 100)
        <4>1. Clamp(h, 223) = 100 + m
          BY <2>2, <2>3 DEF Clamp
        <4> QED
          BY <3>1, <4>1
      <3>3. PICK q \in Nat : q = p + 1 + m
        BY <1>1
      <3>4. PICK value : value = IF q > Size THEN None
                                 ELSE <<"name", Bytes(p + 1, q)>>
        OBVIOUS
      <3>5. Decode(d, p, c) = Result(value, q)
        BY <1>4, <2>11, <3>2, <3>3, <3>4
      <3>6. q = p + n /\ q - p = n /\ q >= p + 1 /\ (p + n > Size => q >= Size)
        BY <1>1, <2>6, <3>3
      <3>7. PayloadLen(d, p, c) = n
        BY <1>1, <3>5, <3>6, Measured
      <3>8. p + n <= Size => value = ReadBack(d, v, c)
        <4>1. HAVE p + n <= Size
        <4>2. ~ (q > Size)
          BY <1>1, <3>6, <4>1
        <4>3. PICK b \in Nat : b = p + 1
          BY <1>1
        <4>4. b + Len(s) = q /\ b + Len(s) <= Size
          BY <1>1, <2>2, <3>3, <3>6, <4>1, <4>3
        <4>5. Bytes(b, b + Len(s)) = s
          BY <1>1, <2>8, <4>3, <4>4, BytesWhole
        <4> QED
          BY <2>9, <3>4, <4>2, <4>3, <4>4, <4>5
      <3> QED
        BY <2>7, <3>5, <3>6, <3>7, <3>8, Reading
    <2> QED
      BY <1>1, <2>10, <2>11
  <1> QED
    BY <1>5, <1>6, <1>7

\* ELORATING: two numbers in the bits of three lanes.
LEMMA ReadsEloRating ==
    ASSUME NEW d, NEW v, NEW p, NEW c, Placed(d, v, p, c), d.wire = "ELORATING"
    PROVE  Reads(d, v, p, c)
  <1>0. PICK x \in Int, y \in Int : x = v[1] /\ y = v[2]
    BY NumbersType DEF Placed, Legal
  <1>1. PICK a \in Nat, b \in Nat : /\ a = x % 4096 /\ a <= 4095
                                    /\ b = y % 512 /\ b <= 511
    <2>1. x % 4096 \in 0 .. 4095
      OBVIOUS
    <2>2. y % 512 \in 0 .. 511
      OBVIOUS
    <2> QED
      BY <2>1, <2>2
  <1>2. PICK t \in Nat : t = 512 * a + b
    OBVIOUS
  <1>3. PICK n \in 1 .. 3, e \in Seq(Byte) :
           n = 3 /\ e = GByte(t, n) /\ Len(e) = n
    <2>1. GByte(t, 3) \in Seq(Byte) /\ Len(GByte(t, 3)) = 3
      BY GByteType
    <2> QED
      BY <2>1
  <1>4. e = Encode(d, v, c) /\ ReadBack(d, v, c) = <<a, b>>
    <2>1. Encode(d, v, c) = GByte(512 * (v[1] % 4096) + (v[2] % 512), 3)
      BY DEF Encode
    <2>2. 512 * (v[1] % 4096) + (v[2] % 512) = t
      BY <1>0, <1>1, <1>2
    <2>3. ReadBack(d, v, c) = <<v[1] % 4096, v[2] % 512>>
      BY DEF ReadBack
    <2> QED
      BY <1>0, <1>1, <1>3, <2>1, <2>2, <2>3
  <1>5. /\ data \in Seq(Byte) /\ p \in Nat /\ p <= Size /\ Size \in Nat
        /\ At(p, e)
    BY <1>4 DEF Placed, Size
  <1>6. PICK r : r = ReadGByte(p, n)
    OBVIOUS
  <1>7. Decode(d, p, c) =
           IF r.value = None THEN r
           ELSE Result(<<(r.value[1] \div 512) % 4096, r.value[1] % 512>>, r.pos)
    BY <1>3, <1>6 DEF Decode
  <1>8. PayloadLen(d, p, c) = n
    BY <1>3 DEF PayloadLen
  <1>9. CASE p + n > Size
    <2>1. r = Result(None, Size)
      BY <1>5, <1>6, <1>9, ReadShort
    <2>2. Decode(d, p, c) = Result(None, Size)
      BY <1>7, <2>1 DEF Result
    <2>3. ~ (p + n <= Size) /\ Size >= Size
      BY <1>5, <1>9
    <2> QED
      BY <1>3, <1>4, <1>5, <1>8, <1>9, <2>2, <2>3, Reading
  <1>10. CASE p + n <= Size
    <2>1. r = Result(<<t>>, p + n)
      <3>1. ReadGByte(p, n) = Result(<<Clamp(t, LaneMax[n])>>, p + n)
        BY <1>3, <1>5, <1>10, GByteReads
      <3>2. Clamp(t, GInt3Max) = t
        <4>1. t <= 3682399
          BY SMTT(30), <1>1, <1>2
        <4> QED
          BY SMTT(30), <4>1 DEF Clamp, GInt3Max
      <3>3. LaneMax[n] = GInt3Max
        BY <1>3 DEF LaneMax
      <3>4. Clamp(t, LaneMax[n]) = t
        BY <3>2, <3>3
      <3> QED
        BY <1>6, <3>1, <3>4
    <2>2. r.value = <<t>> /\ r.value[1] = t /\ r.pos = p + n /\ r.value # None
      BY <2>1, NotNone DEF Result
    <2>3. Decode(d, p, c) = Result(<<(t \div 512) % 4096, t % 512>>, p + n)
      BY <1>7, <2>2
    <2>4. t \div 512 = a /\ t % 512 = b /\ a % 4096 = a
      BY <1>1, <1>2
    <2>5. Decode(d, p, c) = Result(<<a, b>>, p + n)
      BY <2>3, <2>4
    <2>6. p + n \in Nat /\ ~ (p + n > Size)
      BY <1>5, <1>10
    <2> QED
      BY <1>3, <1>4, <1>8, <2>5, <2>6, Reading
  <1> QED
    BY <1>5, <1>9, <1>10

\* ATTACHNPC: a byte and a number of three lanes.
LEMMA ReadsAttachNpc ==
    ASSUME NEW d, NEW v, NEW p, NEW c, Placed(d, v, p, c), d.wire = "ATTACHNPC"
    PROVE  Reads(d, v, p, c)
  <1>1. PICK x \in Int, y \in Int : x = v[1] /\ y = v[2]
    BY NumbersType DEF Placed, Legal
  <1>2. PICK f \in Seq(Byte) : f = GByte(x, 1) /\ Len(f) = 1
    BY GByteType
  <1>3. PICK g \in Seq(Byte) : g = GByte(y, 3) /\ Len(g) = 3
    BY GByteType
  <1>4. /\ Encode(d, v, c) = f \o g
        /\ ReadBack(d, v, c) = <<Clamp(x, 223), Clamp(y, GInt3Max)>>
    BY <1>1, <1>2, <1>3 DEF Encode, ReadBack
  <1>5. PICK e \in Seq(Byte) : e = Encode(d, v, c) /\ Len(e) = 4
    <2>1. f \o g \in Seq(Byte) /\ Len(f \o g) = Len(f) + Len(g)
      BY Joined
    <2>2. Len(f) = 1 /\ Len(g) = 3
      BY <1>2, <1>3
    <2>3. Len(f \o g) = 4
      BY <2>1, <2>2
    <2> QED
      BY <1>4, <2>1, <2>3
  <1>6. /\ data \in Seq(Byte) /\ p \in Nat /\ p <= Size /\ Size \in Nat
        /\ At(p, f \o g)
    BY <1>4 DEF Placed, Size
  <1>7. At(p, f) /\ At(p + 1, g)
    <2>1. At(p, f) /\ At(p + Len(f), g)
      BY <1>6, AtJoined
    <2> QED
      BY <1>2, <2>1
  <1>8. PayloadLen(d, p, c) = 4
    BY DEF PayloadLen
  <1>9. CASE p = Size
    <2>1. Len(e) >= 1
      BY <1>5
    <2> QED
      BY <1>5, <1>9, <2>1, ReadsNothing
  <1>10. CASE p < Size
    <2>1. Ord(p) = Clamp(x, 223)
      BY <1>2, <1>6, <1>7, <1>10, GByteFirst
    <2>2. PICK r : r = ReadGByte(p + 1, 3)
      OBVIOUS
    <2>3. Decode(d, p, c) = Result(IF r.value = None THEN None
                                   ELSE <<Clamp(x, 223), r.value[1]>>, r.pos)
      BY <1>10, <2>1, <2>2 DEF Decode, DecodeByte
    <2>4. PICK b \in Nat : b = p + 1
      BY <1>6
    <2>5. CASE p + 4 > Size
      <3>1. r = Result(None, Size)
        <4>1. b + 3 > Size
          BY <1>6, <2>4, <2>5
        <4> QED
          BY <2>2, <2>4, <4>1, ReadShort
      <3>2. Decode(d, p, c) = Result(None, Size)
        BY <2>3, <3>1 DEF Result
      <3>3. ~ (p + 4 <= Size) /\ Size >= Size
        BY <1>6, <2>5
      <3> QED
        BY <1>5, <1>6, <1>8, <2>5, <3>2, <3>3, Reading
    <2>6. CASE p + 4 <= Size
      <3>1. r = Result(<<Clamp(y, GInt3Max)>>, p + 4)
        <4>1. b + 3 <= Size /\ b + 3 = p + 4
          BY <1>6, <2>4, <2>6
        <4>2. ReadGByte(b, 3) = Result(<<Clamp(y, LaneMax[3])>>, b + 3)
          BY <1>3, <1>6, <1>7, <2>4, <4>1, GByteReads
        <4>3. LaneMax[3] = GInt3Max
          BY DEF LaneMax
        <4> QED
          BY <2>2, <2>4, <4>1, <4>2, <4>3
      <3>2. PICK z \in Nat : z = Clamp(y, GInt3Max)
        <4>1. GInt3Max \in Nat
          BY SMTT(30) DEF GInt3Max
        <4>2. Clamp(y, GInt3Max) \in Nat
          BY <4>1, ClampRange
        <4> QED
          BY <4>2
      <3>3. /\ r.value = <<z>> /\ r.value[1] = z /\ r.pos = p + 4
            /\ r.value # None
        BY <3>1, <3>2, NotNone DEF Result
      <3>4. Decode(d, p, c) = Result(<<Clamp(x, 223), z>>, p + 4)
        BY <2>3, <3>3
      <3>5. p + 4 \in Nat /\ ~ (p + 4 > Size)
        BY <1>6, <2>6
      <3> QED
        BY <1>4, <1>5, <1>8, <3>2, <3>4, <3>5, Reading
    <2> QED
      BY <1>6, <2>5, <2>6
  <1> QED
    BY <1>6, <1>9, <1>10

\* IMAGEPART: two numbers of two lanes and two of one.
LEMMA ReadsImagePart ==
    ASSUME NEW d, NEW v, NEW p, NEW c, Placed(d, v, p, c), d.wire = "IMAGEPART"
    PROVE  Reads(d, v, p, c)
  <1>1. PICK x \in Int, y \in Int, w \in Int, h \in Int :
           x = v[1] /\ y = v[2] /\ w = v[3] /\ h = v[4]
    <2>1. v \in [1 .. 4 -> Int]
      BY DEF Placed, Legal, Numbers
    <2> QED
      BY <2>1
  <1>2. PICK e1 \in Seq(Byte) : e1 = GByte(x, 2) /\ Len(e1) = 2
    BY GByteType
  <1>3. PICK e2 \in Seq(Byte) : e2 = GByte(y, 2) /\ Len(e2) = 2
    BY GByteType
  <1>4. PICK e3 \in Seq(Byte) : e3 = GByte(w, 1) /\ Len(e3) = 1
    BY GByteType
  <1>5. PICK e4 \in Seq(Byte) : e4 = GByte(h, 1) /\ Len(e4) = 1
    BY GByteType
  <1>6. PICK e12 \in Seq(Byte) : e12 = e1 \o e2 /\ Len(e12) = 4
    <2>1. e1 \o e2 \in Seq(Byte) /\ Len(e1 \o e2) = Len(e1) + Len(e2)
      BY Joined
    <2>2. Len(e1) = 2 /\ Len(e2) = 2
      BY <1>2, <1>3
    <2>3. Len(e1 \o e2) = 4
      BY <2>1, <2>2
    <2> QED
      BY <2>1, <2>3
  <1>7. PICK e123 \in Seq(Byte) : e123 = e12 \o e3 /\ Len(e123) = 5
    <2>1. e12 \o e3 \in Seq(Byte) /\ Len(e12 \o e3) = Len(e12) + Len(e3)
      BY Joined
    <2>2. Len(e12) = 4 /\ Len(e3) = 1
      BY <1>4, <1>6
    <2>3. Len(e12 \o e3) = 5
      BY <2>1, <2>2
    <2> QED
      BY <2>1, <2>3
  <1>8. PICK e \in Seq(Byte) : e = e123 \o e4 /\ Len(e) = 6
    <2>1. e123 \o e4 \in Seq(Byte) /\ Len(e123 \o e4) = Len(e123) + Len(e4)
      BY Joined
    <2>2. Len(e123) = 5 /\ Len(e4) = 1
      BY <1>5, <1>7
    <2>3. Len(e123 \o e4) = 6
      BY <2>1, <2>2
    <2> QED
      BY <2>1, <2>3
  <1>9. e = Encode(d, v, c)
    BY <1>1, <1>2, <1>3, <1>4, <1>5, <1>6, <1>7, <1>8 DEF Encode
  <1>10. /\ data \in Seq(Byte) /\ p \in Nat /\ p <= Size /\ Size \in Nat
         /\ At(p, e)
    BY <1>9 DEF Placed, Size
  <1>11. At(p, e1) /\ At(p + 2, e2) /\ At(p + 4, e3) /\ At(p + 5, e4)
    <2>1. At(p, e123) /\ At(p + Len(e123), e4)
      BY <1>8, <1>10, AtJoined
    <2>2. At(p, e12) /\ At(p + Len(e12), e3)
      BY <1>7, <1>10, <2>1, AtJoined
    <2>3. At(p, e1) /\ At(p + Len(e1), e2)
      BY <1>6, <1>10, <2>2, AtJoined
    <2> QED
      BY <1>2, <1>6, <1>7, <2>1, <2>2, <2>3
  <1>12. ReadBack(d, v, c) = <<Clamp(x, GShortMax), Clamp(y, GShortMax),
                               Clamp(w, 223), Clamp(h, 223)>>
    BY <1>1 DEF ReadBack
  <1>13. PayloadLen(d, p, c) = 6
    BY DEF PayloadLen
  <1>14. CASE p + 6 > Size
    <2>1. Decode(d, p, c) = Result(None, Size)
      BY <1>14 DEF Decode
    <2>2. ~ (p + 6 <= Size) /\ Size >= Size
      BY <1>10, <1>14
    <2> QED
      BY <1>8, <1>9, <1>10, <1>13, <1>14, <2>1, <2>2, Reading
  <1>15. CASE p + 6 <= Size
    <2>1. ~ (p + 6 > Size) /\ p + 6 \in Nat
      BY <1>10, <1>15
    <2>2. PICK b \in Nat, i \in Nat, j \in Nat : b = p + 2 /\ i = p + 4 /\ j = p + 5
      BY <1>10
    <2>3. p + 2 <= Size /\ b + 2 <= Size /\ i < Size /\ j < Size
      BY <1>10, <1>15, <2>2
    <2>4. LaneMax[2] = GShortMax
      BY DEF LaneMax
    <2>5. ReadGByte(p, 2).value[1] = Clamp(x, GShortMax)
      <3>1. ReadGByte(p, 2) = Result(<<Clamp(x, LaneMax[2])>>, p + 2)
        BY <1>2, <1>10, <1>11, <2>3, GByteReads
      <3> QED
        BY <2>4, <3>1 DEF Result
    <2>6. ReadGByte(b, 2).value[1] = Clamp(y, GShortMax)
      <3>1. ReadGByte(b, 2) = Result(<<Clamp(y, LaneMax[2])>>, b + 2)
        BY <1>3, <1>10, <1>11, <2>2, <2>3, GByteReads
      <3> QED
        BY <2>4, <3>1 DEF Result
    <2>7. Ord(i) = Clamp(w, 223)
      BY <1>4, <1>11, <2>2, <2>3, GByteFirst
    <2>8. Ord(j) = Clamp(h, 223)
      BY <1>5, <1>11, <2>2, <2>3, GByteFirst
    <2>9. Decode(d, p, c) =
             Result(<<ReadGByte(p, 2).value[1], ReadGByte(b, 2).value[1],
                      Ord(i), Ord(j)>>, p + 6)
      BY <2>1, <2>2 DEF Decode
    <2>10. Decode(d, p, c) = Result(ReadBack(d, v, c), p + 6)
      BY <1>12, <2>5, <2>6, <2>7, <2>8, <2>9
    <2> QED
      BY <1>8, <1>9, <1>13, <2>1, <2>10, Reading
  <1> QED
    BY <1>10, <1>14, <1>15

\* Every form is read, whatever the table says of it.
Wires == {"VOID", "GBYTE", "RAW", "STRING", "LONGSTRING", "TILE", "HALFTILE",
          "TILEZ", "PIXEL", "COLORS", "EFFECTCOLORS", "SWORDPOWER",
          "POWERIMAGE", "HEADGIF", "ELORATING", "ATTACHNPC", "IMAGEPART"}

Descriptor(d) == /\ d.wire \in Wires
                 /\ d.wire = "GBYTE" => d.width \in {1, 2, 3, 5}
                 /\ d.wire = "RAW" => d.width \in Nat
                 /\ d.wire = "SWORDPOWER" => d.bias \in {10, 30}
                 /\ d.wire = "POWERIMAGE" => d.bias = 0

\* The descriptors of the tables are of this kind.
LEMMA Plains ==
    /\ \A w \in Wires \ {"GBYTE", "RAW", "SWORDPOWER"} : Descriptor(Plain(w))
    /\ \A n \in {1, 2, 3, 5} : Descriptor(GBYTE(n))
    /\ \A n \in Nat : Descriptor(RAW(n))
    /\ \A b \in {10, 30} : Descriptor(POWER(b))
  <1>1. \A w \in Wires \ {"GBYTE", "RAW", "SWORDPOWER"} : Descriptor(Plain(w))
    BY DEF Plain, Descriptor
  <1>2. \A n \in {1, 2, 3, 5} : Descriptor(GBYTE(n))
    BY DEF GBYTE, Descriptor, Wires
  <1>3. \A n \in Nat : Descriptor(RAW(n))
    BY DEF RAW, Descriptor, Wires
  <1>4. \A b \in {10, 30} : Descriptor(POWER(b))
    BY DEF POWER, Descriptor, Wires
  <1> QED
    BY <1>1, <1>2, <1>3, <1>4

LEMMA TableDescriptors ==
    ASSUME NEW t \in {"player", "npc", "baddy"}, NEW id \in DOMAIN TableOf(t)
    PROVE  Descriptor(TableOf(t)[id])
  <1>0. \A w \in {"STRING", "LONGSTRING", "HEADGIF", "COLORS", "EFFECTCOLORS",
                  "TILE", "HALFTILE", "TILEZ", "PIXEL", "ELORATING", "ATTACHNPC",
                  "VOID", "IMAGEPART", "POWERIMAGE"} : Descriptor(Plain(w))
    BY Plains DEF Wires
  <1>1. CASE t = "player"
    <2>1. TableOf(t) = PLAYER_PROPS
      BY <1>1 DEF TableOf
    <2>2. id \in 0 .. 83
      BY <2>1 DEF PLAYER_PROPS
    <2>3. \A i \in 0 .. 83 : Descriptor(PLAYER_PROPS[i])
      BY <1>0, Plains DEF PLAYER_PROPS
    <2> QED
      BY <2>1, <2>2, <2>3
  <1>2. CASE t = "npc"
    <2>1. TableOf(t) = NPC_PROPS
      BY <1>2 DEF TableOf
    <2>2. id \in 0 .. 77
      BY <2>1 DEF NPC_PROPS
    <2>3. \A i \in 0 .. 77 : Descriptor(NPC_PROPS[i])
      BY <1>0, Plains DEF NPC_PROPS
    <2> QED
      BY <2>1, <2>2, <2>3
  <1>3. CASE t = "baddy"
    <2>1. TableOf(t) = BADDY_PROPS
      BY <1>3 DEF TableOf
    <2>2. id \in 0 .. 10
      BY <2>1 DEF BADDY_PROPS
    <2>3. \A i \in 0 .. 10 : Descriptor(BADDY_PROPS[i])
      BY <1>0, Plains DEF BADDY_PROPS
    <2> QED
      BY <2>1, <2>2, <2>3
  <1> QED
    BY <1>1, <1>2, <1>3

\* decode_value undoes encode_value, for every descriptor and every legal value.
THEOREM PayloadReadBack ==
    ASSUME NEW d, NEW v, NEW p, NEW c, Placed(d, v, p, c), Descriptor(d)
    PROVE  Reads(d, v, p, c)
  <1>1. d.wire \in Wires
    BY DEF Descriptor
  <1>2. CASE d.wire = "VOID"
    BY <1>2, ReadsVoid
  <1>3. CASE d.wire = "GBYTE"
    BY <1>3, ReadsGByte DEF Descriptor
  <1>4. CASE d.wire = "RAW"
    BY <1>4, ReadsRaw DEF Descriptor
  <1>5. CASE d.wire = "STRING"
    BY <1>5, ReadsString
  <1>6. CASE d.wire = "LONGSTRING"
    BY <1>6, ReadsLongString
  <1>7. CASE d.wire = "TILE"
    BY <1>7, ReadsTile
  <1>8. CASE d.wire = "HALFTILE"
    BY <1>8, ReadsHalfTile
  <1>9. CASE d.wire = "TILEZ"
    BY <1>9, ReadsTileZ
  <1>10. CASE d.wire = "PIXEL"
    BY <1>10, ReadsPixel
  <1>11. CASE d.wire = "COLORS"
    BY <1>11, ReadsColors
  <1>12. CASE d.wire = "EFFECTCOLORS"
    BY <1>12, ReadsEffectColors
  <1>13. CASE d.wire = "SWORDPOWER"
    BY <1>13, ReadsSwordPower DEF Descriptor
  <1>14. CASE d.wire = "POWERIMAGE"
    BY <1>14, ReadsPowerImage DEF Descriptor
  <1>15. CASE d.wire = "HEADGIF"
    BY <1>15, ReadsHeadGif
  <1>16. CASE d.wire = "ELORATING"
    BY <1>16, ReadsEloRating
  <1>17. CASE d.wire = "ATTACHNPC"
    BY <1>17, ReadsAttachNpc
  <1>18. CASE d.wire = "IMAGEPART"
    BY <1>18, ReadsImagePart
  <1> QED
    BY <1>1, <1>2, <1>3, <1>4, <1>5, <1>6, <1>7, <1>8, <1>9, <1>10, <1>11,
       <1>12, <1>13, <1>14, <1>15, <1>16, <1>17, <1>18 DEF Wires

-----------------------------------------------------------------------------
(* Reading any data.                                                       *)

\* What decode_value returns of any bytes is a value or None, and it never
\* goes back.
Safe(d, p, c) == \E value \in Value \cup {None}, q \in Nat :
                    q >= p /\ Decode(d, p, c) = Result(value, q)

\* One way to show it.
LEMMA SafeIs ==
    ASSUME NEW d, NEW p \in Nat, NEW c, NEW value \in Value \cup {None},
           NEW q \in Nat, q >= p, Decode(d, p, c) = Result(value, q)
    PROVE  Safe(d, p, c)
  BY DEF Safe

\* The kinds of values.
LEMMA ValueHas ==
    /\ \A v \in Seq(Int) : v \in Value
    /\ \A v \in Seq(Byte) : v \in Value
    /\ \A n \in Int : <<n>> \in Value /\ <<"preset", n>> \in Value
    /\ \A m, n \in Int : <<m, n>> \in Value
    /\ \A n \in Int : <<n, None>> \in Value
    /\ \A n \in Int, s \in Seq(Byte) : <<n, s>> \in Value
    /\ \A s \in Seq(Byte) : <<"name", s>> \in Value
    /\ \A a, b, c, e \in Int : <<a, b, c, e>> \in Value
  <1>0. \A s \in Seq(Byte) : s \in Seq(Int)
    BY NotNone
  <1>1. /\ \A v \in Seq(Int) : v \in Value
        /\ \A v \in Seq(Byte) : v \in Value
    BY NotNone
  <1>2. \A n \in Int : <<n>> \in Value
    BY NotNone
  <1>3. \A n \in Int : <<"preset", n>> \in Value
    BY DEF Value
  <1>4. \A m, n \in Int : <<m, n>> \in Value
    <2>1. \A m, n \in Int : <<m, n>> \in Seq(Int)
      OBVIOUS
    <2> QED
      BY <1>1, <2>1
  <1>5. \A n \in Int : <<n, None>> \in Value
    BY DEF Value
  <1>6. \A n \in Int, s \in Seq(Byte) : <<n, s>> \in Value
    BY <1>0 DEF Value
  <1>7. \A s \in Seq(Byte) : <<"name", s>> \in Value
    BY <1>0 DEF Value
  <1>8. \A a, b, c, e \in Int : <<a, b, c, e>> \in Value
    <2>1. \A a, b, c, e \in Int : <<a, b, c, e>> \in Seq(Int)
      OBVIOUS
    <2> QED
      BY <1>1, <2>1
  <1> QED
    BY <1>1, <1>2, <1>3, <1>4, <1>5, <1>6, <1>7, <1>8

\* A number of one to three lanes.
LEMMA ReadGByteAny ==
    ASSUME data \in Seq(Byte), NEW p \in Nat, p <= Size, NEW n \in 1 .. 3
    PROVE  \/ ReadGByte(p, n) = Result(None, Size)
           \/ p + n <= Size /\ \E m \in Nat : ReadGByte(p, n) = Result(<<m>>, p + n)
  <1>1. Size \in Nat
    BY DEF Size
  <1>2. CASE p + n > Size
    BY <1>2, ReadShort
  <1>3. CASE p + n <= Size
    BY <1>3, ReadLanes
  <1> QED
    BY <1>1, <1>2, <1>3

\* A string.
LEMMA ReadStringAny ==
    ASSUME data \in Seq(Byte), NEW p \in Nat, p <= Size
    PROVE  \E value \in {None} \cup Seq(Byte), q \in Nat :
              q >= p /\ ReadString(p) = Result(value, q)
  <1>1. Size \in Nat
    BY DEF Size
  <1>2. CASE ReadGByte(p, 1) = Result(None, Size)
    <2>1. ReadString(p) = Result(None, Size)
      BY <1>2 DEF ReadString, Result
    <2>2. Size >= p
      BY <1>1
    <2> QED
      BY <1>1, <2>1, <2>2
  <1>3. CASE p + 1 <= Size /\ \E m \in Nat : ReadGByte(p, 1) = Result(<<m>>, p + 1)
    <2>1. PICK m \in Nat : ReadGByte(p, 1) = Result(<<m>>, p + 1)
      BY <1>3
    <2>2. <<m>> # None
      BY NotNone
    <2>3. ReadString(p) =
             IF <<m>> = <<0>> THEN Result(None, p + 1)
             ELSE Result(IF p + 1 + m > Size THEN None ELSE Bytes(p + 1, p + 1 + m),
                         p + 1 + m)
      BY <2>1, <2>2 DEF ReadString, Result
    <2>4. PICK b \in Nat, q \in Nat : b = p + 1 /\ q = p + 1 + m
      OBVIOUS
    <2>5. b >= p /\ q >= p /\ b <= q
      BY <2>4
    <2>6. CASE <<m>> = <<0>>
      <3>1. ReadString(p) = Result(None, b)
        BY <2>3, <2>4, <2>6
      <3> QED
        BY <2>5, <3>1
    <2>7. CASE <<m>> # <<0>> /\ q > Size
      <3>1. ReadString(p) = Result(None, q)
        BY <2>3, <2>4, <2>7
      <3> QED
        BY <2>5, <3>1
    <2>8. CASE <<m>> # <<0>> /\ ~ (q > Size)
      <3>1. ReadString(p) = Result(Bytes(b, q), q)
        BY <2>3, <2>4, <2>8
      <3>2. q <= Size
        BY <1>1, <2>8
      <3>3. Bytes(b, q) \in Seq(Byte)
        BY <2>5, <3>2, BytesType
      <3> QED
        BY <2>5, <3>1, <3>3
    <2> QED
      BY <2>6, <2>7, <2>8
  <1>4. 1 \in 1 .. 3
    OBVIOUS
  <1> QED
    BY <1>2, <1>3, <1>4, ReadGByteAny

\* Bytes taken one by one.
LEMMA CharredAny ==
    ASSUME data \in Seq(Byte), NEW p \in Nat, NEW q \in Nat, p <= q, q <= Size
    PROVE  Charred(p, q) \in Seq(Int)
  <1>1. Size \in Nat
    BY DEF Size
  <1>2. PICK n \in Nat : n = q - p
    OBVIOUS
  <1>3. \A i \in 1 .. n : NonNegative(Ord(p + i - 1)) \in Int
    <2> TAKE i \in 1 .. n
    <2>1. p + i - 1 + 1 = p + i /\ p + i \in 1 .. Size
      BY <1>1, <1>2
    <2>2. data[p + i] \in Byte
      BY <2>1 DEF Size
    <2>3. PICK x \in Int : x = data[p + i] - 32
      <3>1. \A b \in Byte : b - 32 \in Int
        BY DEF Byte
      <3>2. data[p + i] - 32 \in Int
        BY <2>2, <3>1
      <3> QED
        BY <3>2
    <2>4. Ord(p + i - 1) = x
      BY <2>1, <2>3 DEF Ord
    <2> QED
      BY <2>4, NonNegativeNat
  <1>4. Charred(p, q) \in [1 .. n -> Int]
    BY <1>2, <1>3 DEF Charred
  <1> QED
    BY <1>4, FunctionSeq

\* The byte at p.
LEMMA OrdAny ==
    ASSUME data \in Seq(Byte), NEW p \in Nat, p < Size
    PROVE  Ord(p) \in Int /\ Ord(p) >= -32
  <1>1. p + 1 \in 1 .. Size
    BY DEF Size
  <1>2. PICK x \in Byte : x = data[p + 1]
    BY <1>1 DEF Size
  <1>3. x - 32 \in Int /\ x - 32 >= -32
    BY DEF Byte
  <1> QED
    BY <1>2, <1>3 DEF Ord

\* The forms that begin with one byte.
LEMMA DecodeByteSafe ==
    ASSUME data \in Seq(Byte), NEW p \in Nat, p < Size, NEW c, NEW d,
           d.wire \in {"TILE", "HALFTILE", "TILEZ", "EFFECTCOLORS", "SWORDPOWER",
                       "POWERIMAGE", "HEADGIF", "ATTACHNPC"},
           Descriptor(d)
    PROVE  \E value \in Value \cup {None}, q \in Nat :
              q >= p /\ DecodeByte(d, p, c) = Result(value, q)
  <1>1. Size \in Nat
    BY DEF Size
  <1>2. PICK raw \in Int : raw = Ord(p)
    BY OrdAny
  <1>3. PICK b \in Nat : b = p + 1 /\ b <= Size /\ b >= p
    BY <1>1
  <1>4. PICK s \in {None} \cup Seq(Byte), t \in Nat :
           t >= b /\ ReadString(b) = Result(s, t)
    BY <1>3, ReadStringAny
  <1>5. t >= p
    BY <1>3, <1>4
  <1>6. ReadString(p + 1) = Result(s, t)
    BY <1>3, <1>4
  <1>7. CASE d.wire = "TILE"
    <2>1. PICK x \in Int : x = IF raw >= 216 THEN raw - 256 ELSE raw
      OBVIOUS
    <2>2. DecodeByte(d, p, c) = Result(<<x>>, b)
      BY <1>2, <1>3, <1>7, <2>1 DEF DecodeByte
    <2> QED
      BY <1>3, <2>2, ValueHas
  <1>8. CASE d.wire = "HALFTILE"
    <2>1. DecodeByte(d, p, c) = Result(<<raw>>, b)
      BY <1>2, <1>3, <1>8 DEF DecodeByte
    <2> QED
      BY <1>3, <2>1, ValueHas
  <1>9. CASE d.wire = "TILEZ"
    <2>1. PICK x \in Int : x = raw - 50
      OBVIOUS
    <2>2. DecodeByte(d, p, c) = Result(<<x>>, b)
      BY <1>2, <1>3, <1>9, <2>1 DEF DecodeByte
    <2> QED
      BY <1>3, <2>2, ValueHas
  <1>10. CASE d.wire = "EFFECTCOLORS"
    <2>1. PICK e \in Nat : e = Clamp(p + 5, Size) /\ p <= e /\ e <= Size
      BY <1>1 DEF Clamp
    <2>2. PICK value \in Seq(Int) : value = Charred(p, e)
      BY <2>1, CharredAny
    <2>3. PICK z \in Int, w \in Nat : z = 0 /\ w = p + 5 /\ w >= p
      OBVIOUS
    <2>4. DecodeByte(d, p, c) = IF raw = 0 THEN Result(<<z>>, b)
                                ELSE Result(value, w)
      BY <1>2, <1>3, <1>10, <2>1, <2>2, <2>3 DEF DecodeByte
    <2>5. CASE raw = 0
      <3>1. DecodeByte(d, p, c) = Result(<<z>>, b)
        BY <2>4, <2>5
      <3> QED
        BY <1>3, <3>1, ValueHas
    <2>6. CASE raw # 0
      <3>1. DecodeByte(d, p, c) = Result(value, w)
        BY <2>4, <2>6
      <3> QED
        BY <2>3, <3>1, ValueHas
    <2> QED
      BY <2>5, <2>6
  <1>11. CASE d.wire = "SWORDPOWER"
    <2>1. PICK bias \in Nat : bias = d.bias
      BY <1>11 DEF Descriptor
    <2>2. PICK x \in Int, y \in Int : x = NonNegative(raw) /\ y = raw - bias
      BY NonNegativeNat
    <2>3. PICK u \in Seq(Byte) : u = Or(s, <<>>)
      <3>1. <<>> \in Seq(Byte)
        OBVIOUS
      <3>2. Or(s, <<>>) \in Seq(Byte)
        BY <3>1 DEF Or
      <3> QED
        BY <3>2
    <2>4. DecodeByte(d, p, c) = IF raw < bias THEN Result(<<x, None>>, b)
                                ELSE Result(<<y, u>>, t)
      <3>1. DecodeByte(d, p, c) =
               IF Ord(p) < bias THEN Result(<<NonNegative(Ord(p)), None>>, p + 1)
               ELSE LET r == ReadString(p + 1)
                    IN  Result(<<Ord(p) - bias, Or(r.value, <<>>)>>, r.pos)
        BY <1>11, <2>1 DEF DecodeByte
      <3>2. PICK r : r = ReadString(p + 1)
        OBVIOUS
      <3>3. r.value = s /\ r.pos = t
        BY <1>6, <3>2 DEF Result
      <3>4. DecodeByte(d, p, c) = IF raw < bias THEN Result(<<x, None>>, b)
                                  ELSE Result(<<y, Or(r.value, <<>>)>>, r.pos)
        BY <1>2, <1>3, <2>2, <3>1, <3>2
      <3> QED
        BY <2>3, <3>3, <3>4
    <2>5. CASE raw < bias
      <3>1. DecodeByte(d, p, c) = Result(<<x, None>>, b)
        BY <2>4, <2>5
      <3> QED
        BY <1>3, <3>1, ValueHas
    <2>6. CASE ~ (raw < bias)
      <3>1. DecodeByte(d, p, c) = Result(<<y, u>>, t)
        BY <2>4, <2>6
      <3> QED
        BY <1>5, <3>1, ValueHas
    <2> QED
      BY <2>5, <2>6
  <1>12. CASE d.wire = "POWERIMAGE"
    <2>1. PICK x \in Int : x = NonNegative(raw)
      BY NonNegativeNat
    <2>2. DecodeByte(d, p, c) = Result(<<x, s>>, t)
      BY <1>2, <1>6, <1>12, <2>1 DEF DecodeByte, Result
    <2>3. <<x, s>> \in Value
      BY ValueHas
    <2> QED
      BY <1>5, <2>2, <2>3
  <1>13. CASE d.wire = "HEADGIF"
    <2>1. CASE raw < 100
      <3>1. DecodeByte(d, p, c) = Result(<<"preset", raw>>, b)
        BY <1>2, <1>3, <1>13, <2>1 DEF DecodeByte
      <3> QED
        BY <1>3, <3>1, ValueHas
    <2>2. CASE ~ (raw < 100)
      <3>1. PICK q \in Nat : q = p + 1 + (raw - 100) /\ q >= b
        BY <1>3, <2>2
      <3>2. DecodeByte(d, p, c) = Result(IF q > Size THEN None
                                         ELSE <<"name", Bytes(b, q)>>, q)
        BY <1>2, <1>3, <1>13, <2>2, <3>1 DEF DecodeByte
      <3>3. q >= p
        BY <1>3, <3>1
      <3>4. CASE q > Size
        <4>1. DecodeByte(d, p, c) = Result(None, q)
          BY <3>2, <3>4
        <4> QED
          BY <3>3, <4>1
      <3>5. CASE ~ (q > Size)
        <4>1. DecodeByte(d, p, c) = Result(<<"name", Bytes(b, q)>>, q)
          BY <3>2, <3>5
        <4>2. q <= Size /\ b <= q
          BY <1>1, <3>1, <3>5
        <4>3. Bytes(b, q) \in Seq(Byte)
          BY <4>2, BytesType
        <4>4. <<"name", Bytes(b, q)>> \in Value
          BY <4>3, ValueHas
        <4> QED
          BY <3>3, <4>1, <4>4
      <3> QED
        BY <3>4, <3>5
    <2> QED
      BY <2>1, <2>2
  <1>14. CASE d.wire = "ATTACHNPC"
    <2>1. PICK r : r = ReadGByte(b, 3)
      OBVIOUS
    <2>2. DecodeByte(d, p, c) = Result(IF r.value = None THEN None
                                       ELSE <<raw, r.value[1]>>, r.pos)
      BY <1>2, <1>3, <1>14, <2>1 DEF DecodeByte
    <2>3. 3 \in 1 .. 3
      OBVIOUS
    <2>4. CASE r = Result(None, Size)
      <3>1. DecodeByte(d, p, c) = Result(None, Size)
        BY <2>2, <2>4 DEF Result
      <3>2. Size >= p
        BY <1>1
      <3> QED
        BY <1>1, <3>1, <3>2
    <2>5. CASE \E m \in Nat : r = Result(<<m>>, b + 3)
      <3>1. PICK m \in Nat : r = Result(<<m>>, b + 3)
        BY <2>5
      <3>2. PICK q \in Nat : q = b + 3 /\ q >= p
        BY <1>3
      <3>3. r.value = <<m>> /\ r.value[1] = m /\ r.pos = q /\ r.value # None
        BY <3>1, <3>2, NotNone DEF Result
      <3>4. DecodeByte(d, p, c) = Result(<<raw, m>>, q)
        BY <2>2, <3>3
      <3> QED
        BY <3>2, <3>4, ValueHas
    <2> QED
      BY <1>3, <2>1, <2>3, <2>4, <2>5, ReadGByteAny
  <1> QED
    BY <1>7, <1>8, <1>9, <1>10, <1>11, <1>12, <1>13, <1>14

\* decode_value on any bytes, for every descriptor.
THEOREM DecodeSafe ==
    ASSUME data \in Seq(Byte), NEW p \in Nat, p <= Size, NEW c \in {5, 8}, NEW d,
           Descriptor(d)
    PROVE  Safe(d, p, c)
  <1>1. d.wire \in Wires /\ Size \in Nat
    BY DEF Descriptor, Size
  <1>2. Size >= p /\ p >= p
    BY <1>1
  <1>3. CASE d.wire = "VOID"
    <2>1. Decode(d, p, c) = Result(None, p)
      BY <1>3 DEF Decode
    <2> QED
      BY <1>2, <2>1, SafeIs
  <1>4. CASE d.wire = "GBYTE"
    <2>1. PICK n \in Nat : n = d.width /\ (n \in 1 .. 3 \/ n = 5)
      BY <1>4 DEF Descriptor
    <2>2. Decode(d, p, c) = ReadGByte(p, n)
      BY <1>4, <2>1 DEF Decode
    <2>3. CASE ReadGByte(p, n) = Result(None, Size)
      BY <1>1, <1>2, <2>2, <2>3, SafeIs
    <2>4. CASE n \in 1 .. 3 /\ \E m \in Nat : ReadGByte(p, n) = Result(<<m>>, p + n)
      <3>1. PICK m \in Nat : ReadGByte(p, n) = Result(<<m>>, p + n)
        BY <2>4
      <3>2. p + n \in Nat /\ p + n >= p
        OBVIOUS
      <3>3. <<m>> \in Value
        <4>1. \A k \in Int : <<k>> \in Value
          BY ValueHas
        <4> QED
          BY <4>1
      <3> QED
        BY <2>2, <3>1, <3>2, <3>3, SafeIs
    <2>5. CASE n = 5 /\ p + 5 <= Size
      <3>1. PICK v \in Seq(Int) : ReadGByte(p, 5) = Result(v, p + 5)
        BY <2>5, ReadFive
      <3>2. p + 5 \in Nat /\ p + 5 >= p
        OBVIOUS
      <3>3. v \in Value
        BY ValueHas
      <3> QED
        BY <2>2, <2>5, <3>1, <3>2, <3>3, SafeIs
    <2>6. CASE n = 5 /\ ~ (p + 5 <= Size)
      <3>1. p + 5 > Size
        BY <1>1, <2>6
      <3>2. ReadGByte(p, 5) = Result(None, Size)
        BY <3>1, ReadShort
      <3> QED
        BY <1>1, <1>2, <2>2, <2>6, <3>2, SafeIs
    <2> QED
      BY <2>1, <2>3, <2>4, <2>5, <2>6, ReadGByteAny
  <1>5. CASE d.wire = "RAW"
    <2>1. PICK n \in Nat : n = d.width
      BY <1>5 DEF Descriptor
    <2>2. Decode(d, p, c) = IF p + n > Size THEN Result(None, Size)
                            ELSE Result(Bytes(p, p + n), p + n)
      BY <1>5, <2>1 DEF Decode
    <2>3. CASE p + n > Size
      <3>1. Decode(d, p, c) = Result(None, Size)
        BY <2>2, <2>3
      <3> QED
        BY <1>1, <1>2, <3>1, SafeIs
    <2>4. CASE ~ (p + n > Size)
      <3>1. PICK q \in Nat : q = p + n
        OBVIOUS
      <3>2. p <= q /\ q <= Size /\ q >= p
        BY <1>1, <2>4, <3>1
      <3>3. Bytes(p, q) \in Seq(Byte)
        BY <3>2, BytesType
      <3>4. Bytes(p, q) \in Value
        BY <3>3, ValueHas
      <3>5. Decode(d, p, c) = Result(Bytes(p, q), q)
        BY <2>2, <2>4, <3>1
      <3> QED
        BY <3>2, <3>4, <3>5, SafeIs
    <2> QED
      BY <2>3, <2>4
  <1>6. CASE d.wire = "STRING"
    <2>1. PICK s \in {None} \cup Seq(Byte), q \in Nat :
             q >= p /\ ReadString(p) = Result(s, q)
      BY ReadStringAny
    <2>2. s \in Value \cup {None}
      BY ValueHas
    <2>3. Decode(d, p, c) = Result(s, q)
      BY <1>6, <2>1 DEF Decode
    <2> QED
      BY <2>1, <2>2, <2>3, SafeIs
  <1>7. CASE d.wire = "LONGSTRING"
    <2>1. PICK r : r = ReadGByte(p, 2)
      OBVIOUS
    <2>2. Decode(d, p, c) =
             IF r.value = None THEN r
             ELSE Result(Bytes(r.pos, Clamp(r.pos + r.value[1], Size)),
                         r.pos + r.value[1])
      BY <1>7, <2>1 DEF Decode
    <2>3. 2 \in 1 .. 3
      OBVIOUS
    <2>4. CASE r = Result(None, Size)
      <3>1. Decode(d, p, c) = Result(None, Size)
        BY <2>2, <2>4 DEF Result
      <3> QED
        BY <1>1, <1>2, <3>1, SafeIs
    <2>5. CASE p + 2 <= Size /\ \E m \in Nat : r = Result(<<m>>, p + 2)
      <3>1. PICK m \in Nat : r = Result(<<m>>, p + 2)
        BY <2>5
      <3>2. PICK b \in Nat, q \in Nat : b = p + 2 /\ q = b + m /\ b <= Size
        BY <2>5
      <3>3. r.value = <<m>> /\ r.value[1] = m /\ r.pos = b /\ r.value # None
        BY <3>1, <3>2, NotNone DEF Result
      <3>4. PICK e \in Nat : e = Clamp(q, Size) /\ b <= e /\ e <= Size
        BY <1>1, <3>2 DEF Clamp
      <3>5. Bytes(b, e) \in Seq(Byte)
        BY <3>4, BytesType
      <3>6. Decode(d, p, c) = Result(Bytes(b, e), q)
        BY <2>2, <3>2, <3>3, <3>4
      <3>7. Bytes(b, e) \in Value /\ q >= p
        BY <3>2, <3>5, ValueHas
      <3> QED
        BY <3>6, <3>7, SafeIs
    <2> QED
      BY <2>1, <2>3, <2>4, <2>5, ReadGByteAny
  <1>8. CASE d.wire = "PIXEL"
    <2>1. PICK r : r = ReadGByte(p, 2)
      OBVIOUS
    <2>2. Decode(d, p, c) =
             IF r.value = None THEN r
             ELSE LET n == r.value[1] \div 2
                  IN  Result(<<IF r.value[1] % 2 = 1 THEN - n ELSE n>>, r.pos)
      BY <1>8, <2>1 DEF Decode
    <2>3. 2 \in 1 .. 3
      OBVIOUS
    <2>4. CASE r = Result(None, Size)
      <3>1. Decode(d, p, c) = Result(None, Size)
        BY <2>2, <2>4 DEF Result
      <3> QED
        BY <1>1, <1>2, <3>1, SafeIs
    <2>5. CASE p + 2 <= Size /\ \E m \in Nat : r = Result(<<m>>, p + 2)
      <3>1. PICK m \in Nat : r = Result(<<m>>, p + 2)
        BY <2>5
      <3>2. PICK b \in Nat : b = p + 2 /\ b >= p
        OBVIOUS
      <3>3. r.value = <<m>> /\ r.value[1] = m /\ r.pos = b /\ r.value # None
        BY <3>1, <3>2, NotNone DEF Result
      <3>4. PICK x \in Int : x = IF m % 2 = 1 THEN - (m \div 2) ELSE m \div 2
        OBVIOUS
      <3>5. Decode(d, p, c) = Result(<<x>>, b)
        BY <2>2, <3>3, <3>4
      <3>6. <<x>> \in Value
        BY ValueHas
      <3> QED
        BY <3>2, <3>5, <3>6, SafeIs
    <2> QED
      BY <2>1, <2>3, <2>4, <2>5, ReadGByteAny
  <1>9. CASE d.wire = "ELORATING"
    <2>1. PICK r : r = ReadGByte(p, 3)
      OBVIOUS
    <2>2. Decode(d, p, c) =
             IF r.value = None THEN r
             ELSE Result(<<(r.value[1] \div 512) % 4096, r.value[1] % 512>>, r.pos)
      BY <1>9, <2>1 DEF Decode
    <2>3. PICK n \in 1 .. 3 : n = 3
      OBVIOUS
    <2>4. CASE r = Result(None, Size)
      <3>1. Decode(d, p, c) = Result(None, Size)
        BY <2>2, <2>4 DEF Result
      <3> QED
        BY <1>1, <1>2, <3>1, SafeIs
    <2>5. CASE \E m \in Nat : r = Result(<<m>>, p + n)
      <3>1. PICK m \in Nat : r = Result(<<m>>, p + n)
        BY <2>5
      <3>2. PICK b \in Nat : b = p + n /\ b >= p
        OBVIOUS
      <3>3. r.value = <<m>> /\ r.value[1] = m /\ r.pos = b /\ r.value # None
        BY <3>1, <3>2, NotNone DEF Result
      <3>4. PICK x \in Int, y \in Int : x = (m \div 512) % 4096 /\ y = m % 512
        OBVIOUS
      <3>5. Decode(d, p, c) = Result(<<x, y>>, b)
        BY <2>2, <3>3, <3>4
      <3>6. <<x, y>> \in Value
        BY ValueHas
      <3> QED
        BY <3>2, <3>5, <3>6, SafeIs
    <2>6. \/ ReadGByte(p, n) = Result(None, Size)
          \/ \E m \in Nat : ReadGByte(p, n) = Result(<<m>>, p + n)
      BY ReadGByteAny
    <2> QED
      BY <2>1, <2>3, <2>4, <2>5, <2>6
  <1>10. CASE d.wire = "COLORS"
    <2>1. PICK e \in Nat : e = Clamp(p + c, Size) /\ p <= e /\ e <= Size
      BY <1>1 DEF Clamp
    <2>2. PICK value \in Seq(Int) : value = Charred(p, e)
      BY <2>1, CharredAny
    <2>3. PICK q \in Nat : q = p + c /\ q >= p
      OBVIOUS
    <2>4. Decode(d, p, c) = Result(value, q)
      BY <1>10, <2>1, <2>2, <2>3 DEF Decode
    <2>5. value \in Value
      BY ValueHas
    <2> QED
      BY <2>3, <2>4, <2>5, SafeIs
  <1>11. CASE d.wire = "IMAGEPART"
    <2>1. CASE p + 6 > Size
      <3>1. Decode(d, p, c) = Result(None, Size)
        BY <1>11, <2>1 DEF Decode
      <3> QED
        BY <1>1, <1>2, <3>1, SafeIs
    <2>2. CASE ~ (p + 6 > Size)
      <3>1. p + 2 <= Size /\ p + 2 + 2 <= Size /\ p + 4 < Size /\ p + 5 < Size
        BY <1>1, <2>2
      <3>2. PICK b \in Nat, i \in Nat, j \in Nat :
               b = p + 2 /\ i = p + 4 /\ j = p + 5
        OBVIOUS
      <3>3. 2 \in 1 .. 3
        OBVIOUS
      <3>4. PICK x \in Nat : ReadGByte(p, 2).value[1] = x
        <4>1. PICK m \in Nat : ReadGByte(p, 2) = Result(<<m>>, p + 2)
          BY <3>1, <3>3, ReadLanes
        <4> QED
          BY <4>1 DEF Result
      <3>5. PICK y \in Nat : ReadGByte(b, 2).value[1] = y
        <4>1. b + 2 <= Size
          BY <3>1, <3>2
        <4>2. PICK m \in Nat : ReadGByte(b, 2) = Result(<<m>>, b + 2)
          BY <3>3, <4>1, ReadLanes
        <4> QED
          BY <4>2 DEF Result
      <3>6. PICK w \in Int, h \in Int : w = Ord(i) /\ h = Ord(j)
        BY <3>1, <3>2, OrdAny
      <3>7. PICK q \in Nat : q = p + 6 /\ q >= p
        OBVIOUS
      <3>8. Decode(d, p, c) =
               Result(<<ReadGByte(p, 2).value[1], ReadGByte(b, 2).value[1],
                        Ord(i), Ord(j)>>, q)
        BY <1>11, <2>2, <3>2, <3>7 DEF Decode
      <3>9. Decode(d, p, c) = Result(<<x, y, w, h>>, q)
        BY <3>4, <3>5, <3>6, <3>8
      <3>10. <<x, y, w, h>> \in Value
        BY ValueHas
      <3> QED
        BY <3>7, <3>9, <3>10, SafeIs
    <2> QED
      BY <2>1, <2>2
  <1>12. CASE d.wire \in {"TILE", "HALFTILE", "TILEZ", "EFFECTCOLORS",
                          "SWORDPOWER", "POWERIMAGE", "HEADGIF", "ATTACHNPC"}
    <2>1. CASE p < Size
      <3>1. PICK value \in Value \cup {None}, q \in Nat :
               q >= p /\ DecodeByte(d, p, c) = Result(value, q)
        BY <1>12, <2>1, DecodeByteSafe
      <3>2. Decode(d, p, c) = DecodeByte(d, p, c)
        BY <1>12, <2>1 DEF Decode
      <3> QED
        BY <3>1, <3>2, SafeIs
    <2>2. CASE ~ (p < Size)
      <3>1. Decode(d, p, c) =
               Result(IF d.wire = "SWORDPOWER" THEN <<0, None>> ELSE None, p)
        BY <1>12, <2>2 DEF Decode
      <3>2. CASE d.wire = "SWORDPOWER"
        <4>1. PICK z \in Int : z = 0
          OBVIOUS
        <4>2. <<z, None>> \in Value
          BY ValueHas
        <4>3. Decode(d, p, c) = Result(<<z, None>>, p)
          BY <3>1, <3>2, <4>1
        <4> QED
          BY <1>2, <4>2, <4>3, SafeIs
      <3>3. CASE d.wire # "SWORDPOWER"
        <4>1. Decode(d, p, c) = Result(None, p)
          BY <3>1, <3>3
        <4> QED
          BY <1>2, <4>1, SafeIs
      <3> QED
        BY <3>2, <3>3
    <2> QED
      BY <2>1, <2>2
  <1> QED
    BY <1>1, <1>3, <1>4, <1>5, <1>6, <1>7, <1>8, <1>9, <1>10, <1>11, <1>12
       DEF Wires

-----------------------------------------------------------------------------
(* The invariant.  What the properties say of the reader follows from where *)
(* each property lies in the data and what is there of it.                  *)

Entry == [id : Int, value : Value \cup {None}] \cup {None}

Types == /\ table \in Tables /\ colors \in {5, 8} /\ policy \in Policies
         /\ props \in Seq(Prop[table])
         /\ ends \in Seq(Nat) /\ Len(ends) = Len(props)
         /\ data \in Seq(Byte) /\ pos \in Nat /\ last \in Int
         /\ out \in Seq(Entry) /\ clean \in BOOLEAN
         /\ phase \in {"write", "walk", "done"}

\* The properties lie one after the other.
EndsFollow == \A i \in 1 .. Len(props) :
                 EndOf(i) = EndOf(i - 1) + Len(Written(props[i]))

Monotone == \A i, j \in 0 .. Len(props) : i <= j => EndOf(i) <= EndOf(j)

\* What there is of a property in the data is what was written.
Laid == \A i \in 1 .. Len(props) : At(EndOf(i - 1), Written(props[i]))

\* Nothing has been read of a stream that is being written.
Unread == phase = "write" =>
             /\ Size = EndOf(Len(props))
             /\ pos = 0 /\ last = -1 /\ out = <<>> /\ clean = TRUE

Streams == Types /\ EndsFollow /\ Monotone /\ Laid /\ Unread

Same == phase # "write" /\ SameStream

\* The walk stands at the end of what it has read, and has read what was
\* written, until it comes to a property that was cut short.
InPlace == Same =>
    /\ Len(out) <= Len(props)
    /\ last = IF out = <<>> THEN -1 ELSE props[Len(out)].id
    /\ EndOf(Len(out)) > Size => pos >= Size
    /\ EndOf(Len(out)) <= Size => out = Wanted(Len(out))
    /\ EndOf(Len(out)) <= Size /\ (phase = "walk" \/ clean) =>
          pos = EndOf(Len(out))

CutAt(i) == /\ EndOf(i - 1) < Size /\ Size < EndOf(i)
            /\ ~ /\ props[i].id \in DOMAIN Table
                 /\ Table[props[i].id].wire \in ImageForm
                 /\ Size = EndOf(i - 1) + 2

\* A property that was cut and has been read is noticed, now or at the end.
Noticed == (Same /\ policy.check_alignment) =>
    \A i \in 1 .. Len(props) : (CutAt(i) /\ i <= Len(out)) =>
        ~ clean \/ (phase = "walk" /\ pos > Size)

Ended == phase = "done" /\ clean => pos >= Size

Ascending ==
    /\ Same /\ Size = EndOf(Len(props))
    /\ \A i \in 1 .. Len(props) : props[i].id <= policy.max_prop_id
    /\ policy.require_ascending =>
          \A i \in 2 .. Len(props) :
             \/ props[i - 1].id < props[i].id
             \/ props[i - 1].id \in policy.ascending_exempt

WholeClean == Ascending => clean

PropInv == Streams /\ InPlace /\ Noticed /\ Ended /\ WholeClean

-----------------------------------------------------------------------------
(* Writing.                                                                *)

Payload(q) == IF q.id \in DOMAIN Table
              THEN Encode(Table[q.id], q.value, colors) ELSE <<32>>

\* What hosts write is legal, for the descriptors of the table.
LEMMA PropLegal ==
    ASSUME table \in Tables, NEW q \in Prop[table]
    PROVE  /\ q.id \in 0 .. 223
           /\ q.id \in DOMAIN Table => /\ Legal(Table[q.id], q.value)
                                       /\ Descriptor(Table[q.id])
  <1>1. q.id \in 0 .. 223
    BY PropsAssumption
  <1>2. q.id \in DOMAIN Table => Legal(Table[q.id], q.value)
    BY PropsAssumption DEF Table
  <1>3. table \in {"player", "npc", "baddy"}
    BY PropsAssumption
  <1>4. q.id \in DOMAIN Table => Descriptor(Table[q.id])
    BY <1>3, TableDescriptors DEF Table
  <1> QED
    BY <1>1, <1>2, <1>4

\* Where the payload of a known property lies, it is read back.
LEMMA Placing ==
    ASSUME Types, NEW q \in Prop[table], q.id \in DOMAIN Table,
           NEW p \in Nat, p <= Size, At(p, Payload(q))
    PROVE  Reads(Table[q.id], q.value, p, colors)
  <1>1. Payload(q) = Encode(Table[q.id], q.value, colors)
    BY DEF Payload
  <1>2. data \in Seq(Byte) /\ colors \in {5, 8} /\ table \in Tables
    BY DEF Types
  <1>3. Legal(Table[q.id], q.value) /\ Descriptor(Table[q.id])
    BY <1>2, PropLegal
  <1>4. At(p, Encode(Table[q.id], q.value, colors))
    BY <1>1
  <1>5. Placed(Table[q.id], q.value, p, colors)
    BY <1>2, <1>3, <1>4 DEF Placed
  <1> QED
    BY <1>3, <1>5, PayloadReadBack

\* A property is its id, offset, and then its payload.
LEMMA WrittenIs ==
    ASSUME Types, NEW q \in Prop[table]
    PROVE  /\ Written(q) = <<q.id + 32>> \o Payload(q)
           /\ q.id \in 0 .. 223 /\ q.id + 32 \in Byte
           /\ Payload(q) \in Seq(Byte) /\ Written(q) \in Seq(Byte)
           /\ Len(Written(q)) = 1 + Len(Payload(q))
           /\ Written(q)[1] = q.id + 32
           /\ q.id \notin DOMAIN Table => Payload(q) = <<32>>
  <1>1. data \in Seq(Byte) /\ table \in Tables /\ Size \in Nat
    BY DEF Types, Size
  <1>2. q.id \in 0 .. 223
    BY <1>1, PropLegal
  <1>3. PICK b \in Byte : b = q.id + 32 /\ b = Char(q.id)
    <2>1. q.id \in Nat /\ q.id <= 223
      BY <1>2
    <2> QED
      BY <2>1, CharOfLane
  <1>4. Payload(q) \in Seq(Byte)
    <2>1. CASE q.id \in DOMAIN Table
      <3>1. Size <= Size /\ At(Size, Payload(q))
        <4>1. \A k \in 1 .. Len(Payload(q)) : ~ (Size + k <= Size)
          BY <1>1
        <4> QED
          BY <1>1, <4>1 DEF At
      <3>2. Reads(Table[q.id], q.value, Size, colors)
        BY <1>1, <2>1, <3>1, Placing
      <3> QED
        BY <2>1, <3>2 DEF Reads, Payload
    <2>2. CASE q.id \notin DOMAIN Table
      <3>1. 32 \in Byte
        BY DEF Byte
      <3>2. <<32>> \in Seq(Byte)
        BY <3>1
      <3> QED
        BY <2>2, <3>2 DEF Payload
    <2> QED
      BY <2>1, <2>2
  <1>5. Written(q) = <<b>> \o Payload(q)
    BY <1>3 DEF Written, Payload
  <1>6. PICK u \in Seq(Byte), v \in Seq(Byte) : u = <<b>> /\ v = Payload(q)
    <2>1. <<b>> \in Seq(Byte)
      OBVIOUS
    <2> QED
      BY <1>4, <2>1
  <1>7. Len(u) = 1 /\ u[1] = b
    BY <1>6
  <1>8. /\ u \o v \in Seq(Byte) /\ Len(u \o v) = Len(u) + Len(v)
        /\ \A i \in 1 .. Len(u) : (u \o v)[i] = u[i]
    BY Joined
  <1>9. (u \o v)[1] = u[1]
    BY <1>7, <1>8
  <1>10. Written(q) = u \o v
    BY <1>5, <1>6
  <1>11. /\ Written(q) \in Seq(Byte) /\ Len(Written(q)) = 1 + Len(v)
         /\ Written(q)[1] = b
    BY <1>7, <1>8, <1>9, <1>10
  <1>12. q.id \notin DOMAIN Table => Payload(q) = <<32>>
    BY DEF Payload
  <1>13. Written(q) = <<q.id + 32>> \o Payload(q) /\ q.id + 32 \in Byte
    BY <1>3, <1>5
  <1> QED
    BY <1>2, <1>3, <1>4, <1>6, <1>11, <1>12, <1>13

\* The ends are positions.
LEMMA EndType ==
    ASSUME Types
    PROVE  \A i \in 0 .. Len(props) : EndOf(i) \in Nat
  <1> TAKE i \in 0 .. Len(props)
  <1>1. CASE i = 0
    BY <1>1 DEF EndOf
  <1>2. CASE i # 0
    <2>1. ends \in Seq(Nat) /\ i \in 1 .. Len(ends)
      BY <1>2 DEF Types
    <2> QED
      BY <1>2, <2>1 DEF EndOf
  <1> QED
    BY <1>1, <1>2

-----------------------------------------------------------------------------
(* The types are an invariant by themselves: decode_value is safe on any   *)
(* data.                                                                   *)

LEMMA TypesInit == Init => Types
  <1> SUFFICES ASSUME Init PROVE Types
    OBVIOUS
  <1>1. /\ props \in Seq(Prop[table]) /\ ends \in Seq(Nat)
        /\ data \in Seq(Byte) /\ out \in Seq(Entry)
        /\ Len(ends) = Len(props)
    BY DEF Init
  <1> QED
    BY <1>1 DEF Init, Types

\* What a step writes.
LEMMA WriteIs ==
    ASSUME Types, NEW q \in Prop[table], Write(q)
    PROVE  /\ UNCHANGED <<table, colors, policy, pos, last, out, clean, phase>>
           /\ phase = "write" /\ props' = Append(props, q)
           /\ data' = data \o Written(q) /\ data' \in Seq(Byte)
           /\ Size' = Size + Len(Written(q)) /\ Size' \in Nat
           /\ \A k \in 1 .. Size : data'[k] = data[k]
           /\ \A k \in 1 .. Len(Written(q)) : data'[Size + k] = Written(q)[k]
           /\ ends' = Append(ends, Size')
  <1>1. /\ UNCHANGED <<table, colors, policy, pos, last, out, clean, phase>>
        /\ phase = "write" /\ props' = Append(props, q)
        /\ data' = data \o Written(q) /\ ends' = Append(ends, Size')
    BY DEF Write, Size
  <1>2. PICK u \in Seq(Byte), v \in Seq(Byte) : u = data /\ v = Written(q)
    BY WrittenIs DEF Types
  <1>3. /\ u \o v \in Seq(Byte) /\ Len(u \o v) = Len(u) + Len(v)
        /\ \A i \in 1 .. Len(u) : (u \o v)[i] = u[i]
        /\ \A i \in 1 .. Len(v) : (u \o v)[Len(u) + i] = v[i]
    BY Joined
  <1>4. data' = u \o v /\ Size = Len(u) /\ Size' = Len(u \o v)
    BY <1>1, <1>2 DEF Size
  <1>5. Size' = Size + Len(Written(q)) /\ Size' \in Nat
    BY <1>2, <1>3, <1>4
  <1>6. /\ \A k \in 1 .. Size : data'[k] = data[k]
        /\ \A k \in 1 .. Len(Written(q)) : data'[Size + k] = Written(q)[k]
    BY <1>2, <1>3, <1>4
  <1>7. data' \in Seq(Byte)
    BY <1>3, <1>4
  <1> QED
    BY <1>1, <1>5, <1>6, <1>7

LEMMA TypesWrite ==
    ASSUME Types, NEW q \in Prop[table], Write(q)
    PROVE  Types'
  <1>1. /\ UNCHANGED <<table, colors, policy, pos, last, out, clean, phase>>
        /\ props' = Append(props, q) /\ data' \in Seq(Byte)
        /\ ends' = Append(ends, Size') /\ Size' \in Nat
    BY WriteIs
  <1>2. props' \in Seq(Prop[table]) /\ Len(props') = Len(props) + 1
    BY <1>1 DEF Types
  <1>3. ends' \in Seq(Nat) /\ Len(ends') = Len(ends) + 1
    BY <1>1 DEF Types
  <1> QED
    BY <1>1, <1>2, <1>3 DEF Types

\* What arrives is a beginning of what was written, or goes on behind it.
LEMMA ArriveIs ==
    ASSUME Types, Arrive
    PROVE  /\ UNCHANGED <<table, colors, policy, props, pos, last, out, clean,
                          ends>>
           /\ phase = "write" /\ phase' = "walk" /\ data' \in Seq(Byte)
           /\ \A k \in 1 .. Size : k <= Size' => data'[k] = data[k]
           /\ Size' \in Nat
  <1>1. /\ UNCHANGED <<table, colors, policy, props, pos, last, out, clean, ends>>
        /\ phase = "write" /\ phase' = "walk"
    BY DEF Arrive
  <1>2. data \in Seq(Byte) /\ Size \in Nat
    BY DEF Types, Size
  <1>3. CASE \E n \in 0 .. Len(data) : data' = Bytes(0, n)
    <2>1. PICK n \in Nat : n <= Size /\ data' = Bytes(0, n)
      BY <1>3 DEF Size
    <2>2. PICK z \in Nat : z = 0 /\ z <= n
      OBVIOUS
    <2>3. /\ Bytes(z, n) \in Seq(Byte) /\ Len(Bytes(z, n)) = n - z
          /\ \A i \in 1 .. n - z : Bytes(z, n)[i] = data[z + i]
      BY <1>2, <2>1, <2>2, BytesType
    <2>4. n - z = n /\ \A i \in 1 .. n : z + i = i
      BY <2>2
    <2>5. data' \in Seq(Byte) /\ Len(data') = n
      BY <2>1, <2>2, <2>3, <2>4
    <2>6. \A i \in 1 .. n : data'[i] = data[i]
      BY <2>1, <2>2, <2>3, <2>4
    <2>7. Size' = n
      BY <2>5 DEF Size
    <2> QED
      BY <1>1, <1>2, <2>5, <2>6, <2>7
  <1>4. CASE \E junk \in Junk : data' = data \o junk
    <2>1. PICK u \in Seq(Byte), v \in Seq(Byte) : u = data /\ data' = u \o v
      BY <1>2, <1>4, PropsAssumption
    <2>2. /\ u \o v \in Seq(Byte) /\ Len(u \o v) = Len(u) + Len(v)
          /\ \A i \in 1 .. Len(u) : (u \o v)[i] = u[i]
      BY Joined
    <2>3. data' \in Seq(Byte) /\ Size' = Len(u \o v) /\ Size = Len(u)
      BY <2>1, <2>2 DEF Size
    <2> QED
      BY <1>1, <2>1, <2>2, <2>3
  <1> QED
    BY <1>3, <1>4 DEF Arrive

LEMMA TypesArrive ==
    ASSUME Types, Arrive
    PROVE  Types'
  <1>1. /\ UNCHANGED <<table, colors, policy, props, pos, last, out, clean, ends>>
        /\ phase' = "walk" /\ data' \in Seq(Byte)
    BY ArriveIs
  <1> QED
    BY <1>1 DEF Types

\* An iteration either ends the walk at an id that is out of place, or goes on
\* behind an unknown property, or behind the value of a known one.
Rejected(id) == \/ id < 0 \/ id > policy.max_prop_id
                \/ /\ policy.require_ascending /\ id <= last
                   /\ last \notin policy.ascending_exempt

Long(id, p) == /\ policy.check_alignment /\ id \in DOMAIN Table
               /\ p + PayloadLen(Table[id], p, policy.colors_len) > Size

LEMMA WalkIs ==
    ASSUME Walk, NEW id, id = Ord(pos), NEW p, p = pos + 1
    PROVE  /\ phase = "walk" /\ pos < Size
           /\ UNCHANGED <<table, colors, policy, props, data, ends>>
           /\ Rejected(id) => /\ clean' = FALSE /\ phase' = "done" /\ pos' = p
                              /\ UNCHANGED <<last, out>>
           /\ ~ Rejected(id) =>
                 /\ last' = id /\ phase' = phase
                 /\ clean' = (clean /\ ~ Long(id, p))
                 /\ id \notin DOMAIN Table =>
                       pos' = p + 1 /\ out' = Append(out, None)
                 /\ id \in DOMAIN Table =>
                       LET r == Decode(Table[id], p, policy.colors_len)
                       IN  /\ pos' = r.pos
                           /\ out' = Append(out, Call(id, r.value))
  BY Zenon DEF Walk, Rejected, Long

\* The value that is decoded, whatever the data, and what the handler gets.
LEMMA WalkReads ==
    ASSUME Types, pos < Size, NEW id \in DOMAIN Table
    PROVE  \E value \in Value \cup {None}, q \in Nat :
              /\ q >= pos + 1
              /\ Decode(Table[id], pos + 1, policy.colors_len) = Result(value, q)
  <1>1. data \in Seq(Byte) /\ pos \in Nat /\ Size \in Nat
    BY DEF Types, Size
  <1>2. PICK p \in Nat : p = pos + 1 /\ p <= Size
    BY <1>1
  <1>3. policy.colors_len \in {5, 8} /\ table \in {"player", "npc", "baddy"}
    BY PropsAssumption DEF Types
  <1>4. Descriptor(Table[id])
    BY <1>3, TableDescriptors DEF Table
  <1>5. Safe(Table[id], p, policy.colors_len)
    BY <1>1, <1>2, <1>3, <1>4, DecodeSafe
  <1> QED
    BY <1>2, <1>5 DEF Safe

LEMMA TypesWalk ==
    ASSUME Types, Walk
    PROVE  Types' /\ pos' > pos
  <1>1. PICK id : id = Ord(pos)
    OBVIOUS
  <1>2. PICK p : p = pos + 1
    OBVIOUS
  <1>0. /\ pos \in Nat /\ data \in Seq(Byte) /\ out \in Seq(Entry)
        /\ clean \in BOOLEAN
    BY DEF Types
  <1>10. p \in Nat /\ p > pos
    BY <1>0, <1>2
  <1>11. pos < Size
    BY DEF Walk
  <1>3. /\ pos < Size /\ pos \in Nat /\ p \in Nat /\ p > pos /\ data \in Seq(Byte)
        /\ out \in Seq(Entry) /\ clean \in BOOLEAN
    BY <1>0, <1>10, <1>11
  <1>4. id \in Int
    BY <1>1, <1>3, OrdAny
  <1>5. /\ UNCHANGED <<table, colors, policy, props, data, ends>>
        /\ phase = "walk"
    BY <1>1, <1>2, WalkIs
  <1>6. None \in Entry
    BY DEF Entry
  <1>7. CASE Rejected(id)
    <2>1. /\ clean' = FALSE /\ phase' = "done" /\ pos' = p
          /\ UNCHANGED <<last, out>>
      BY <1>1, <1>2, <1>7, WalkIs
    <2> QED
      BY <1>3, <1>5, <2>1 DEF Types
  <1>8. CASE ~ Rejected(id) /\ id \notin DOMAIN Table
    <2>1. /\ last' = id /\ phase' = phase /\ pos' = p + 1
          /\ clean' = (clean /\ ~ Long(id, p)) /\ out' = Append(out, None)
      BY <1>1, <1>2, <1>8, WalkIs
    <2>2. out' \in Seq(Entry)
      BY <1>3, <1>6, <2>1
    <2>3. pos' \in Nat /\ pos' > pos
      BY <1>3, <2>1
    <2>4. clean' \in BOOLEAN
      BY <2>1
    <2> QED
      BY <1>4, <1>5, <2>1, <2>2, <2>3, <2>4 DEF Types
  <1>9. CASE ~ Rejected(id) /\ id \in DOMAIN Table
    <2>1. PICK value \in Value \cup {None}, q \in Nat :
             /\ q >= p
             /\ Decode(Table[id], p, policy.colors_len) = Result(value, q)
      BY <1>2, <1>3, <1>9, WalkReads
    <2>2. /\ last' = id /\ phase' = phase
          /\ clean' = (clean /\ ~ Long(id, p))
          /\ pos' = Decode(Table[id], p, policy.colors_len).pos
          /\ out' = Append(out, Call(id, Decode(Table[id], p,
                                                policy.colors_len).value))
      BY <1>1, <1>2, <1>9, WalkIs
    <2>3. pos' = q /\ out' = Append(out, Call(id, value))
      BY <2>1, <2>2 DEF Result
    <2>4. Call(id, value) \in Entry
      BY <1>4 DEF Call, Entry
    <2>5. out' \in Seq(Entry)
      BY <1>3, <2>3, <2>4
    <2>6. pos' \in Nat /\ pos' > pos
      BY <1>3, <2>1, <2>3
    <2>7. clean' \in BOOLEAN
      BY <2>2
    <2> QED
      BY <1>4, <1>5, <2>2, <2>5, <2>6, <2>7 DEF Types
  <1> QED
    BY <1>7, <1>8, <1>9

LEMMA FinishIs ==
    ASSUME Finish
    PROVE  /\ UNCHANGED <<table, colors, policy, props, data, pos, last, out, ends>>
           /\ phase = "walk" /\ phase' = "done" /\ pos >= Size
           /\ clean' = (/\ clean /\ pos <= Size
                        /\ policy.require_full_consume => pos = Size)
  BY DEF Finish

LEMMA TypesNext ==
    ASSUME Types, [Next]_vars
    PROVE  Types'
  <1>1. ASSUME NEW q \in Prop[table], Write(q) PROVE Types'
    BY <1>1, TypesWrite
  <1>2. CASE Arrive
    BY <1>2, TypesArrive
  <1>3. CASE Walk
    BY <1>3, TypesWalk
  <1>4. CASE Finish
    <2>1. clean' \in BOOLEAN
      BY <1>4, FinishIs
    <2> QED
      BY <1>4, <2>1, FinishIs DEF Types
  <1>5. CASE UNCHANGED vars
    BY <1>5 DEF vars, Types
  <1> QED
    BY <1>1, <1>2, <1>3, <1>4, <1>5 DEF Next

\* What is walked, called and remembered is of its kind whatever the stream:
\* no entry of out is anything but None or a handler's id and value, and the
\* position never is negative.
THEOREM TypeCorrect == Spec => []Types
  <1>1. Init => Types
    BY TypesInit
  <1>2. Types /\ [Next]_vars => Types'
    BY TypesNext
  <1> QED
    BY <1>1, <1>2, PTL DEF Spec

\* Each iteration of parse_prop_stream moves forward, on any data, with any
\* table and any policy: the loop cannot stay where it is.
THEOREM Forward == Spec => WalkForward
  <1>1. ASSUME Types, [Next]_vars
        PROVE  [phase = "walk" /\ phase' = "walk" => pos' > pos]_vars
    <2>1. ASSUME NEW q \in Prop[table], Write(q)
          PROVE  ~ (phase = "walk")
      BY <2>1 DEF Write
    <2>2. CASE Arrive
      BY <2>2 DEF Arrive
    <2>3. CASE Walk
      BY <1>1, <2>3, TypesWalk
    <2>4. CASE Finish
      BY <2>4 DEF Finish
    <2>5. CASE UNCHANGED vars
      BY <2>5
    <2> QED
      BY <1>1, <2>1, <2>2, <2>3, <2>4, <2>5 DEF Next
  <1> QED
    BY <1>1, TypeCorrect, PTL DEF Spec, WalkForward

-----------------------------------------------------------------------------
(* Writing and sending keep every property in its place.                   *)

\* The first n properties end where they did, and are written as they were.
LEMMA WriteKeeps ==
    ASSUME Types, NEW q \in Prop[table], Write(q), NEW n \in Nat, n = Len(props)
    PROVE  /\ Len(props') = n + 1
           /\ \A i \in 0 .. n : EndOf(i)' = EndOf(i)
           /\ EndOf(n + 1)' = Size'
           /\ \A i \in 1 .. n : props'[i] = props[i]
           /\ props'[n + 1] = q
           /\ \A p : Written(p)' = Written(p)
  <1>1. /\ UNCHANGED <<table, colors>> /\ props' = Append(props, q)
        /\ ends' = Append(ends, Size') /\ Size' \in Nat
    BY WriteIs
  <1>2. props \in Seq(Prop[table]) /\ ends \in Seq(Nat) /\ Len(ends) = n
    BY DEF Types
  <1>3. /\ Len(props') = n + 1
        /\ \A i \in 1 .. n : props'[i] = props[i]
        /\ props'[n + 1] = q
    BY <1>1, <1>2
  <1>4. /\ \A i \in 1 .. n : ends'[i] = ends[i]
        /\ ends'[n + 1] = Size'
    BY <1>1, <1>2
  <1>5. \A i \in 0 .. n : EndOf(i)' = EndOf(i)
    BY <1>4 DEF EndOf
  <1>6. EndOf(n + 1)' = Size'
    <2>1. n + 1 # 0
      OBVIOUS
    <2> QED
      BY <1>4, <2>1 DEF EndOf
  <1>7. \A p : Written(p)' = Written(p)
    BY <1>1 DEF Written, Table
  <1> QED
    BY <1>3, <1>5, <1>6, <1>7

\* Steps that leave the table and what was written alone.
LEMMA KeepsPlaces ==
    ASSUME UNCHANGED <<table, colors, props, ends>>
    PROVE  /\ \A i : EndOf(i)' = EndOf(i)
           /\ \A p : Written(p)' = Written(p)
           /\ Len(props') = Len(props)
           /\ \A p : Payload(p)' = Payload(p)
           /\ Table' = Table
  <1>1. Table' = Table
    BY DEF Table
  <1>2. \A p : Payload(p)' = Payload(p)
    BY <1>1 DEF Payload
  <1>3. \A p : Written(p)' = Written(p)
    BY <1>1 DEF Written
  <1>4. \A i : EndOf(i)' = EndOf(i)
    BY DEF EndOf
  <1> QED
    BY <1>1, <1>2, <1>3, <1>4

\* Any step but Write and Arrive.
LEMMA StreamsKept ==
    ASSUME Streams, Types',
           UNCHANGED <<table, colors, props, data, ends>>,
           phase' # "write"
    PROVE  Streams'
  <1>1. /\ \A i : EndOf(i)' = EndOf(i)
        /\ \A p : Written(p)' = Written(p)
        /\ props' = props /\ data' = data /\ Size' = Size
    BY KeepsPlaces DEF Size
  <1>2. EndsFollow'
    BY <1>1 DEF Streams, EndsFollow
  <1>3. Monotone'
    BY <1>1 DEF Streams, Monotone
  <1>4. Laid'
    BY <1>1 DEF Streams, Laid, At
  <1>5. Unread'
    BY DEF Unread
  <1> QED
    BY <1>2, <1>3, <1>4, <1>5 DEF Streams

\* What the data holds of the properties is not touched when more is written.
LEMMA WriteLays ==
    ASSUME Streams, NEW q \in Prop[table], Write(q)
    PROVE  Streams'
  <1>0. Types /\ EndsFollow /\ Monotone /\ Laid /\ Unread
    BY DEF Streams
  <1>1. Types'
    BY <1>0, TypesWrite
  <1>2. PICK n \in Nat : n = Len(props)
    BY <1>0 DEF Types
  <1>3. /\ phase = "write" /\ data' \in Seq(Byte) /\ Size' \in Nat
        /\ Size' = Size + Len(Written(q))
        /\ \A k \in 1 .. Size : data'[k] = data[k]
        /\ \A k \in 1 .. Len(Written(q)) : data'[Size + k] = Written(q)[k]
        /\ UNCHANGED <<pos, last, out, clean, phase>>
    BY <1>0, WriteIs
  <1>4. /\ Len(props') = n + 1
        /\ \A i \in 0 .. n : EndOf(i)' = EndOf(i)
        /\ EndOf(n + 1)' = Size'
        /\ \A i \in 1 .. n : props'[i] = props[i]
        /\ props'[n + 1] = q
        /\ \A p : Written(p)' = Written(p)
    BY <1>0, <1>2, WriteKeeps
  <1>5. /\ Size = EndOf(n) /\ Size \in Nat /\ \A i \in 0 .. n : EndOf(i) \in Nat
        /\ Len(Written(q)) \in Nat /\ n \in 0 .. n
    <2>1. Size = EndOf(n)
      BY <1>0, <1>2, <1>3 DEF Unread
    <2>2. \A i \in 0 .. n : EndOf(i) \in Nat
      BY <1>0, <1>2, EndType
    <2>3. Written(q) \in Seq(Byte)
      BY <1>0, WrittenIs
    <2>4. n \in 0 .. n
      OBVIOUS
    <2>5. Len(Written(q)) \in Nat
      BY <2>3
    <2> QED
      BY <2>1, <2>2, <2>4, <2>5
  <1>6. \A i \in 1 .. n : /\ i \in 0 .. n /\ i - 1 \in 0 .. n
                          /\ EndOf(i)' = EndOf(i)
                          /\ EndOf(i - 1)' = EndOf(i - 1)
    <2> TAKE i \in 1 .. n
    <2>1. i \in 0 .. n /\ i - 1 \in 0 .. n
      OBVIOUS
    <2> QED
      BY <1>4, <2>1
  <1>7. EndsFollow'
    <2>1. ASSUME NEW i \in 1 .. n + 1
          PROVE  EndOf(i)' = EndOf(i - 1)' + Len(Written(props[i])')
      <3>1. CASE i \in 1 .. n
        <4>1. EndOf(i) = EndOf(i - 1) + Len(Written(props[i]))
          BY <1>0, <1>2, <3>1 DEF EndsFollow
        <4>2. Written(props[i])' = Written(props[i])
          BY <1>4, <3>1
        <4> QED
          BY <1>6, <3>1, <4>1, <4>2
      <3>2. CASE i = n + 1
        <4>1. i - 1 = n
          BY <3>2
        <4>2. EndOf(i - 1)' = Size
          BY <1>4, <1>5, <4>1
        <4>3. Written(props[i])' = Written(q)
          BY <1>4, <3>2
        <4> QED
          BY <1>3, <1>4, <3>2, <4>2, <4>3
      <3> QED
        BY <3>1, <3>2
    <2> QED
      BY <1>4, <2>1 DEF EndsFollow
  <1>8. Monotone'
    <2>1. \A i, j \in 0 .. n : i <= j => EndOf(i)' <= EndOf(j)'
      BY <1>0, <1>2, <1>4 DEF Monotone
    <2>2. \A i \in 0 .. n : EndOf(i)' <= Size'
      <3> TAKE i \in 0 .. n
      <3>1. EndOf(i) <= EndOf(n)
        BY <1>0, <1>2, <1>5 DEF Monotone
      <3> QED
        BY <1>3, <1>4, <1>5, <3>1
    <2>3. ASSUME NEW i \in 0 .. n + 1, NEW j \in 0 .. n + 1, i <= j
          PROVE  EndOf(i)' <= EndOf(j)'
      <3>1. CASE j \in 0 .. n
        <4>1. i \in 0 .. n
          BY <2>3, <3>1
        <4> QED
          BY <2>1, <2>3, <3>1, <4>1
      <3>2. CASE j = n + 1 /\ i \in 0 .. n
        BY <1>4, <2>2, <3>2
      <3>3. CASE j = n + 1 /\ i = n + 1
        BY <1>3, <1>4, <3>3
      <3>4. (j \in 0 .. n) \/ (j = n + 1)
        OBVIOUS
      <3>5. (i \in 0 .. n) \/ (i = n + 1)
        OBVIOUS
      <3> QED
        BY <3>1, <3>2, <3>3, <3>4, <3>5
    <2> QED
      BY <1>4, <2>3 DEF Monotone
  <1>9. Laid'
    <2>1. ASSUME NEW i \in 1 .. n + 1,
                 NEW k \in 1 .. Len(Written(props[i])'),
                 EndOf(i - 1)' + k <= Size'
          PROVE  data'[EndOf(i - 1)' + k] = Written(props[i])'[k]
      <3>1. CASE i \in 1 .. n
        <4>1. Written(props[i])' = Written(props[i])
          BY <1>4, <3>1
        <4>2. PICK e \in Nat, w \in Seq(Byte) :
                 e = EndOf(i - 1) /\ w = Written(props[i])
          <5>1. Written(props[i]) \in Seq(Byte)
            <6>1. props[i] \in Prop[table]
              BY <1>0, <1>2, <3>1 DEF Types
            <6> QED
              BY <1>0, <6>1, WrittenIs
          <5>2. EndOf(i - 1) \in Nat
            BY <1>5, <1>6, <3>1
          <5> QED
            BY <5>1, <5>2
        <4>3. EndOf(i) = e + Len(w) /\ EndOf(i) <= Size
          <5>1. EndOf(i) <= EndOf(n)
            <6>1. i \in 0 .. n /\ i <= n
              BY <3>1
            <6> QED
              BY <1>0, <1>2, <1>5, <6>1 DEF Monotone
          <5>2. EndOf(i) = e + Len(w)
            BY <1>0, <1>2, <3>1, <4>2 DEF EndsFollow
          <5> QED
            BY <1>5, <5>1, <5>2
        <4>4. k \in 1 .. Len(w)
          BY <4>1, <4>2
        <4>5. e + k <= Size /\ e + k \in 1 .. Size
          <5>1. e + Len(w) <= Size /\ Len(w) \in Nat
            BY <4>2, <4>3
          <5> QED
            BY <1>5, <4>4, <5>1
        <4>6. data[e + k] = w[k]
          BY <1>0, <1>2, <3>1, <4>2, <4>4, <4>5 DEF Laid, At
        <4>7. data'[e + k] = data[e + k]
          BY <1>3, <4>5
        <4>8. EndOf(i - 1)' = e
          BY <1>6, <3>1, <4>2
        <4> QED
          BY <4>1, <4>2, <4>6, <4>7, <4>8
      <3>2. CASE i = n + 1
        <4>1. i - 1 = n
          BY <3>2
        <4>2. EndOf(i - 1)' = Size
          BY <1>4, <1>5, <4>1
        <4>3. Written(props[i])' = Written(q)
          BY <1>4, <3>2
        <4> QED
          BY <1>3, <4>2, <4>3
      <3> QED
        BY <3>1, <3>2
    <2> QED
      BY <1>4, <2>1 DEF Laid, At
  <1>10. Unread'
    <2>1. pos = 0 /\ last = -1 /\ out = <<>> /\ clean = TRUE
      BY <1>0, <1>3 DEF Unread
    <2>2. Size' = EndOf(Len(props))'
      BY <1>4
    <2> QED
      BY <1>3, <2>1, <2>2 DEF Unread
  <1> QED
    BY <1>1, <1>7, <1>8, <1>9, <1>10 DEF Streams

\* Nor by what the channel does to it.
LEMMA ArriveLays ==
    ASSUME Streams, Arrive
    PROVE  Streams'
  <1>0. Types /\ EndsFollow /\ Monotone /\ Laid /\ Unread
    BY DEF Streams
  <1>1. Types'
    BY <1>0, TypesArrive
  <1>2. PICK n \in Nat : n = Len(props)
    BY <1>0 DEF Types
  <1>3. /\ UNCHANGED <<table, colors, props, ends>>
        /\ phase = "write" /\ phase' = "walk" /\ Size' \in Nat
        /\ \A k \in 1 .. Size : k <= Size' => data'[k] = data[k]
    BY <1>0, ArriveIs
  <1>4. /\ \A i : EndOf(i)' = EndOf(i)
        /\ \A p : Written(p)' = Written(p)
        /\ props' = props
    BY <1>3, KeepsPlaces
  <1>5. /\ Size = EndOf(n) /\ Size \in Nat
        /\ \A i \in 0 .. n : EndOf(i) \in Nat
    BY <1>0, <1>2, <1>3, EndType DEF Unread, Types, Size
  <1>6. EndsFollow'
    BY <1>0, <1>4 DEF EndsFollow
  <1>7. Monotone'
    BY <1>0, <1>4 DEF Monotone
  <1>8. Laid'
    <2>1. ASSUME NEW i \in 1 .. n, NEW k \in 1 .. Len(Written(props[i])),
                 EndOf(i - 1) + k <= Size'
          PROVE  data'[EndOf(i - 1) + k] = Written(props[i])[k]
      <3>1. PICK e \in Nat, w \in Seq(Byte) :
               e = EndOf(i - 1) /\ w = Written(props[i])
        <4>1. Written(props[i]) \in Seq(Byte)
          <5>1. props[i] \in Prop[table]
            BY <1>0, <1>2 DEF Types
          <5> QED
            BY <1>0, <5>1, WrittenIs
        <4>2. i - 1 \in 0 .. n
          OBVIOUS
        <4> QED
          BY <1>5, <4>1, <4>2
      <3>2. EndOf(i) = e + Len(w)
        BY <1>0, <1>2, <3>1 DEF EndsFollow
      <3>3. EndOf(i) <= EndOf(n)
        <4>1. i \in 0 .. n /\ n \in 0 .. n /\ i <= n
          OBVIOUS
        <4> QED
          BY <1>0, <1>2, <4>1 DEF Monotone
      <3>4. PICK m \in Nat : m = Len(w)
        OBVIOUS
      <3>5. k \in 1 .. m /\ e + m <= Size
        BY <1>5, <3>1, <3>2, <3>3, <3>4
      <3>6. e + k \in 1 .. Size
        BY <1>5, <3>5
      <3>7. e + k <= Size
        BY <1>5, <3>6
      <3>8. data[e + k] = w[k]
        BY <1>0, <1>2, <3>1, <3>7 DEF Laid, At
      <3>9. data'[e + k] = data[e + k]
        BY <1>3, <2>1, <3>1, <3>6
      <3> QED
        BY <3>1, <3>8, <3>9
    <2> QED
      BY <1>2, <1>4, <2>1 DEF Laid, At
  <1>9. Unread'
    BY <1>3 DEF Unread
  <1> QED
    BY <1>1, <1>6, <1>7, <1>8, <1>9 DEF Streams

LEMMA StreamsInit == Init => Streams
  <1> SUFFICES ASSUME Init PROVE Streams
    OBVIOUS
  <1>1. /\ Len(props) = 0 /\ Size = 0 /\ EndOf(0) = 0
        /\ pos = 0 /\ last = -1 /\ out = <<>> /\ clean = TRUE
    BY DEF Init, Size, EndOf
  <1>2. \A i : ~ (i \in 1 .. 0)
    OBVIOUS
  <1>3. EndsFollow /\ Laid
    BY <1>1, <1>2 DEF EndsFollow, Laid
  <1>4. Monotone
    <2>1. \A i, j \in 0 .. 0 : i = 0 /\ j = 0
      OBVIOUS
    <2>2. \A i, j \in 0 .. 0 : EndOf(i) <= EndOf(j)
      BY <1>1, <2>1
    <2> QED
      BY <1>1, <2>2 DEF Monotone
  <1>5. Unread
    BY <1>1 DEF Unread
  <1> QED
    BY <1>3, <1>4, <1>5, TypesInit DEF Streams

-----------------------------------------------------------------------------
(* An iteration over what was written.                                     *)

\* The call that is due for property j.
Due(j) == IF props[j].id \in DOMAIN Table
          THEN Call(props[j].id, ReadBack(Table[props[j].id], props[j].value, colors))
          ELSE None

\* One more call than before.
LEMMA WantedNext ==
    ASSUME out \in Seq(Entry), NEW n \in Nat, n = Len(out),
           \A j \in 1 .. n : out[j] = Due(j),
           NEW x \in Entry, x = Due(n + 1)
    PROVE  Append(out, x) = Wanted(n + 1)
  <1>1. PICK s \in Seq(Entry) : s = Append(out, x)
    <2>1. Append(out, x) \in Seq(Entry)
      OBVIOUS
    <2> QED
      BY <2>1
  <1>2. Len(s) = n + 1 /\ s[n + 1] = x /\ \A j \in 1 .. n : s[j] = out[j]
    BY <1>1
  <1>4. \A j \in 1 .. n + 1 : s[j] = Due(j)
    <2> TAKE j \in 1 .. n + 1
    <2>1. CASE j \in 1 .. n
      BY <1>2, <2>1
    <2>2. CASE j = n + 1
      BY <1>2, <2>2
    <2> QED
      BY <2>1, <2>2
  <1>5. s = [j \in 1 .. n + 1 |-> s[j]]
    BY <1>2
  <1>6. s = [j \in 1 .. n + 1 |-> Due(j)]
    BY <1>4, <1>5
  <1>7. Wanted(n + 1) = [j \in 1 .. n + 1 |-> Due(j)]
    BY DEF Wanted, Due
  <1> QED
    BY <1>1, <1>6, <1>7

\* What the walk does not change.
LEMMA KeepsSame ==
    ASSUME UNCHANGED <<table, colors, policy, props, data, ends>>,
           phase # "write", phase' # "write"
    PROVE  /\ Same' <=> Same
           /\ \A i : Wanted(i)' = Wanted(i)
           /\ \A i : CutAt(i)' <=> CutAt(i)
           /\ Ascending' <=> Ascending
           /\ Size' = Size
  <1>1. /\ \A i : EndOf(i)' = EndOf(i)
        /\ Len(props') = Len(props) /\ Table' = Table /\ Size' = Size
    BY KeepsPlaces DEF Size
  <1>2. Same' <=> Same
    BY <1>1 DEF Same, SameStream
  <1>3. \A i : Wanted(i)' = Wanted(i)
    BY <1>1 DEF Wanted, Call
  <1>4. \A i : CutAt(i)' <=> CutAt(i)
    BY <1>1 DEF CutAt
  <1>5. Ascending' <=> Ascending
    BY <1>1, <1>2 DEF Ascending
  <1> QED
    BY <1>1, <1>2, <1>3, <1>4, <1>5

\* The walk stands before property n + 1.
Before(n, q) ==
    /\ n \in Nat /\ n = Len(out) /\ n + 1 <= Len(props)
    /\ q = props[n + 1] /\ q \in Prop[table]
    /\ pos \in Nat /\ pos = EndOf(n) /\ EndOf(n) <= Size
    /\ Ord(pos) = q.id /\ out = Wanted(n)
    /\ At(pos + 1, Payload(q))
    /\ Payload(q) \in Seq(Byte)
    /\ EndOf(n + 1) = pos + 1 + Len(Payload(q))
    /\ policy.colors_len = colors
    /\ last = IF n = 0 THEN -1 ELSE props[n].id

LEMMA WalkStands ==
    ASSUME Streams, InPlace, Same, phase = "walk", pos < Size
    PROVE  \E n, q : Before(n, q)
  <1>0. /\ Types /\ EndsFollow /\ Monotone /\ Laid
        /\ props \in Seq(Prop[table]) /\ data \in Seq(Byte) /\ Size \in Nat
        /\ out \in Seq(Entry) /\ pos \in Nat
    BY DEF Streams, Types, Size
  <1>1. PICK n \in Nat, m \in Nat : n = Len(out) /\ m = Len(props)
    BY <1>0
  <1>2. /\ n <= m /\ last = IF out = <<>> THEN -1 ELSE props[n].id
        /\ EndOf(n) > Size => pos >= Size
        /\ EndOf(n) <= Size => out = Wanted(n) /\ pos = EndOf(n)
    BY <1>1 DEF InPlace
  <1>3. \A i \in 0 .. m : EndOf(i) \in Nat
    BY <1>0, <1>1, EndType
  <1>4. EndOf(n) \in Nat /\ EndOf(m) \in Nat
    <2>1. n \in 0 .. m /\ m \in 0 .. m
      BY <1>1, <1>2
    <2> QED
      BY <1>3, <2>1
  <1>5. EndOf(n) <= Size /\ pos = EndOf(n) /\ out = Wanted(n)
    BY <1>0, <1>2, <1>4
  <1>6. n # m
    <2>1. Size <= EndOf(m)
      BY <1>1 DEF Same, SameStream
    <2> QED
      BY <1>0, <1>4, <1>5, <2>1
  <1>7. PICK i \in 1 .. m : i = n + 1 /\ i - 1 = n
    BY <1>1, <1>2, <1>6
  <1>8. PICK q \in Prop[table] : q = props[i]
    BY <1>0, <1>1, <1>7
  <1>9. PICK w \in Seq(Byte), b \in Byte, v \in Seq(Byte) :
           /\ w = Written(q) /\ v = Payload(q) /\ b = q.id + 32
           /\ w = <<b>> \o v /\ Len(w) = 1 + Len(v) /\ w[1] = b
           /\ q.id \in 0 .. 223
    BY <1>0, WrittenIs
  <1>10. At(pos, w)
    BY <1>0, <1>1, <1>5, <1>7, <1>8, <1>9 DEF Laid
  <1>11. PICK u \in Seq(Byte) : u = <<b>> /\ Len(u) = 1
    <2>1. <<b>> \in Seq(Byte) /\ Len(<<b>>) = 1
      OBVIOUS
    <2> QED
      BY <2>1
  <1>12. At(pos + 1, v)
    <2>1. At(pos, u \o v)
      BY <1>9, <1>10, <1>11
    <2>2. At(pos + Len(u), v)
      BY <1>0, <2>1, AtJoined
    <2> QED
      BY <1>11, <2>2
  <1>13. Ord(pos) = q.id
    <2>1. 1 \in 1 .. Len(w) /\ pos + 1 <= Size
      BY <1>0, <1>9
    <2>2. data[pos + 1] = b
      BY <1>9, <1>10, <2>1 DEF At
    <2>3. b - 32 = q.id
      <3>1. PICK id \in 0 .. 223 : id = q.id
        BY <1>9
      <3>2. b = id + 32
        BY <1>9, <3>1
      <3> QED
        BY <3>1, <3>2
    <2> QED
      BY <2>2, <2>3 DEF Ord
  <1>14. EndOf(n + 1) = pos + 1 + Len(v)
    <2>1. EndOf(i) = EndOf(i - 1) + Len(w)
      BY <1>0, <1>1, <1>8, <1>9 DEF EndsFollow
    <2>2. PICK k \in Nat : k = Len(v)
      OBVIOUS
    <2>3. pos + (1 + k) = pos + 1 + k
      BY <1>0
    <2> QED
      BY <1>5, <1>7, <1>9, <2>1, <2>2, <2>3
  <1>15. policy.colors_len = colors
    BY DEF Same, SameStream
  <1>16. last = IF n = 0 THEN -1 ELSE props[n].id
    <2>1. out = <<>> <=> n = 0
      BY <1>0, <1>1
    <2> QED
      BY <1>2, <2>1
  <1>17. n + 1 <= Len(props)
    BY <1>1, <1>7
  <1>18. Before(n, q)
    BY <1>0, <1>1, <1>5, <1>7, <1>8, <1>9, <1>12, <1>13, <1>14, <1>15, <1>16,
       <1>17 DEF Before
  <1> QED
    BY <1>18

\* What holds after an iteration that goes on.
After(n, q) ==
    /\ n \in Nat /\ n + 1 <= Len(props) /\ Len(out') = n + 1
    /\ last' = props[n + 1].id /\ phase' = "walk"
    /\ EndOf(n + 1) > Size => pos' >= Size
    /\ EndOf(n + 1) <= Size => /\ out' = Wanted(n + 1) /\ pos' = EndOf(n + 1)
                               /\ clean' = clean
    /\ (policy.check_alignment /\ CutAt(n + 1)) => clean' = FALSE \/ pos' > Size

\* Over an id the table does not know.
LEMMA WalkUnknown ==
    ASSUME Streams, Walk, NEW n, NEW q, Before(n, q), ~ Rejected(q.id),
           q.id \notin DOMAIN Table
    PROVE  After(n, q)
  <1>0. Types /\ Size \in Nat /\ out \in Seq(Entry) /\ Monotone
    BY DEF Streams, Types, Size
  <1>1. /\ n \in Nat /\ n = Len(out) /\ n + 1 <= Len(props)
        /\ q = props[n + 1] /\ q \in Prop[table] /\ pos \in Nat
        /\ pos = EndOf(n) /\ Ord(pos) = q.id /\ out = Wanted(n)
        /\ EndOf(n + 1) = pos + 1 + Len(Payload(q))
    BY DEF Before
  <1>2. PICK p \in Nat : p = pos + 1
    BY <1>1
  <1>3. /\ last' = q.id /\ phase' = "walk" /\ clean' = (clean /\ ~ Long(q.id, p))
        /\ pos' = p + 1 /\ out' = Append(out, None) /\ pos < Size
    BY <1>1, <1>2, WalkIs
  <1>4. EndOf(n + 1) = p + 1
    <2>1. Payload(q) = <<32>>
      BY <1>0, <1>1, WrittenIs
    <2>2. Len(<<32>>) = 1
      OBVIOUS
    <2> QED
      BY <1>1, <1>2, <2>1, <2>2
  <1>5. Len(out') = n + 1
    BY <1>0, <1>1, <1>3 DEF Entry
  <1>6. out' = Wanted(n + 1)
    <2>1. \A j \in 1 .. n : out[j] = Due(j)
      BY <1>1 DEF Wanted, Due
    <2>2. PICK x \in Entry : x = None /\ x = Due(n + 1)
      BY <1>1 DEF Due, Entry
    <2>3. Append(out, x) = Wanted(n + 1)
      BY <1>0, <1>1, <2>1, <2>2, WantedNext
    <2> QED
      BY <1>3, <2>2, <2>3
  <1>7. clean' = clean
    BY <1>0, <1>3 DEF Long, Types
  <1>8. EndOf(n + 1) > Size => pos' >= Size
    BY <1>0, <1>2, <1>3, <1>4
  <1>9. CutAt(n + 1) => pos' > Size
    BY <1>0, <1>2, <1>3, <1>4 DEF CutAt
  <1> QED
    BY <1>1, <1>3, <1>4, <1>5, <1>6, <1>7, <1>8, <1>9 DEF After

\* Over an id that it knows.
LEMMA WalkKnown ==
    ASSUME Streams, Walk, NEW n, NEW q, Before(n, q), ~ Rejected(q.id),
           q.id \in DOMAIN Table
    PROVE  After(n, q)
  <1>0. Types /\ Size \in Nat /\ out \in Seq(Entry) /\ clean \in BOOLEAN
    BY DEF Streams, Types, Size
  <1>1. /\ n \in Nat /\ n = Len(out) /\ n + 1 <= Len(props)
        /\ q = props[n + 1] /\ q \in Prop[table] /\ pos \in Nat
        /\ pos = EndOf(n) /\ Ord(pos) = q.id /\ out = Wanted(n)
        /\ EndOf(n + 1) = pos + 1 + Len(Payload(q))
        /\ At(pos + 1, Payload(q)) /\ policy.colors_len = colors
        /\ Payload(q) \in Seq(Byte)
    BY DEF Before
  <1>2. pos < Size
    BY DEF Walk
  <1>3. PICK p \in Nat : p = pos + 1 /\ p <= Size
    BY <1>0, <1>1, <1>2
  <1>4. PICK d : d = Table[q.id]
    OBVIOUS
  <1>5. PICK len \in Nat : len = Len(Payload(q))
    BY <1>1
  <1>6. PICK r : r = Decode(d, p, colors)
    OBVIOUS
  <1>7. /\ last' = q.id /\ phase' = "walk"
        /\ clean' = (clean /\ ~ Long(q.id, p))
        /\ pos' = r.pos /\ out' = Append(out, Call(q.id, r.value))
    BY <1>1, <1>3, <1>4, <1>6, WalkIs
  <1>8. EndOf(n + 1) = p + len
    BY <1>1, <1>3, <1>5
  <1>9. Reads(d, q.value, p, colors)
    BY <1>0, <1>1, <1>3, <1>4, Placing
  <1>10. Encode(d, q.value, colors) = Payload(q)
    BY <1>4 DEF Payload
  <1>11. Long(q.id, p) <=>
            policy.check_alignment /\ p + PayloadLen(d, p, colors) > Size
    BY <1>1, <1>4 DEF Long
  <1>12. /\ p + len <= Size => /\ r = Result(ReadBack(d, q.value, colors), p + len)
                               /\ p + PayloadLen(d, p, colors) <= Size
         /\ p + len > Size => /\ r.pos >= Size
                              /\ \/ p + PayloadLen(d, p, colors) > Size
                                 \/ d.wire \in ImageForm /\ Size = p + 1
    BY <1>5, <1>6, <1>9, <1>10 DEF Reads
  <1>13. Call(q.id, r.value) \in Entry /\ Len(out') = n + 1
    <2>1. PICK value \in Value \cup {None}, e \in Nat : r = Result(value, e)
      BY <1>0, <1>1, <1>2, <1>3, <1>4, <1>6, WalkReads
    <2>2. q.id \in Int
      <3>1. q.id \in 0 .. 223
        BY <1>0, <1>1, WrittenIs
      <3> QED
        BY <3>1
    <2>3. Call(q.id, r.value) \in Entry
      BY <2>1, <2>2 DEF Result, Call, Entry
    <2> QED
      BY <1>0, <1>1, <1>7, <2>3
  <1>14. EndOf(n + 1) > Size => pos' >= Size
    BY <1>7, <1>8, <1>12
  <1>15. ASSUME EndOf(n + 1) <= Size
         PROVE  out' = Wanted(n + 1) /\ pos' = EndOf(n + 1) /\ clean' = clean
    <2>1. /\ r = Result(ReadBack(d, q.value, colors), p + len)
          /\ p + PayloadLen(d, p, colors) <= Size
      BY <1>8, <1>12, <1>15
    <2>2. pos' = EndOf(n + 1)
      BY <1>7, <1>8, <2>1 DEF Result
    <2>3. ~ (p + PayloadLen(d, p, colors) > Size)
      <3>1. PICK x \in Nat : x = PayloadLen(d, p, colors)
        BY <1>9 DEF Reads
      <3>2. p + x <= Size
        BY <2>1, <3>1
      <3>3. ~ (p + x > Size)
        BY <1>0, <3>2
      <3> QED
        BY <3>1, <3>3
    <2>4. clean' = clean
      BY <1>0, <1>7, <1>11, <2>3
    <2>5. \A j \in 1 .. n : out[j] = Due(j)
      BY <1>1 DEF Wanted, Due
    <2>6. Call(q.id, r.value) = Due(n + 1)
      BY <1>1, <1>4, <2>1 DEF Due, Result
    <2>7. PICK x \in Entry : x = Call(q.id, r.value) /\ x = Due(n + 1)
      BY <1>13, <2>6
    <2>8. Append(out, x) = Wanted(n + 1)
      BY <1>0, <1>1, <2>5, <2>7, WantedNext
    <2> QED
      BY <1>7, <2>2, <2>4, <2>7, <2>8
  <1>16. ASSUME policy.check_alignment, CutAt(n + 1)
         PROVE  clean' = FALSE
    <2>5. PICK i \in Nat : i = n + 1 /\ i - 1 = n
      BY <1>1
    <2>1. /\ Size < p + len
          /\ ~ (d.wire \in ImageForm /\ Size = EndOf(n) + 2)
      <3>1. CutAt(i) /\ EndOf(i) = p + len /\ q = props[i]
        BY <1>1, <1>8, <1>16, <2>5
      <3> QED
        BY <1>4, <2>5, <3>1 DEF CutAt
    <2>2. EndOf(n) + 2 = p + 1
      <3>2. pos \in Nat /\ p = pos + 1
        BY <1>1, <1>3
      <3>1. pos + 2 = p + 1
        BY <3>2
      <3> QED
        BY <1>1, <3>1
    <2>3. p + len > Size
      BY <1>0, <2>1
    <2>4. p + PayloadLen(d, p, colors) > Size
      BY <1>12, <2>1, <2>2, <2>3
    <2> QED
      BY <1>7, <1>11, <1>16, <2>4
  <1> QED
    BY <1>1, <1>7, <1>13, <1>14, <1>15, <1>16 DEF After

-----------------------------------------------------------------------------
(* The steps of the invariant.                                             *)

\* A rejection ends the walk where it stands.  Of a whole, ascending stream
\* nothing is rejected.
LEMMA WalkRejects ==
    ASSUME PropInv, Walk, Same, NEW n, NEW q, Before(n, q), Rejected(q.id)
    PROVE  InPlace' /\ Noticed' /\ Ended' /\ WholeClean'
  <1>0. Types /\ Size \in Nat /\ out \in Seq(Entry) /\ InPlace /\ WholeClean
    BY DEF PropInv, Streams, Types, Size
  <1>1. /\ n \in Nat /\ n = Len(out) /\ n + 1 <= Len(props)
        /\ q = props[n + 1] /\ q \in Prop[table] /\ Ord(pos) = q.id
        /\ EndOf(n) <= Size /\ out = Wanted(n)
        /\ last = IF n = 0 THEN -1 ELSE props[n].id
    BY DEF Before
  <1>2. /\ clean' = FALSE /\ phase' = "done" /\ UNCHANGED <<last, out>>
        /\ UNCHANGED <<table, colors, policy, props, data, ends>>
        /\ phase = "walk"
    BY <1>1, WalkIs
  <1>3. /\ \A i : Wanted(i)' = Wanted(i)
        /\ \A i : EndOf(i)' = EndOf(i)
        /\ Ascending' <=> Ascending
        /\ Size' = Size
    BY <1>2, KeepsSame, KeepsPlaces
  <1>4. last = IF out = <<>> THEN -1 ELSE props[Len(out)].id
    BY <1>0 DEF InPlace
  <1>5. EndOf(n) \in Nat
    <2>1. n \in 0 .. Len(props)
      BY <1>0, <1>1 DEF Types
    <2> QED
      BY <1>0, <2>1, EndType
  <1>6. Len(out) <= Len(props)
    BY <1>0 DEF InPlace
  <1>7. InPlace'
    <2>1. Len(out') = n /\ EndOf(n)' = EndOf(n) /\ Wanted(n)' = Wanted(n)
      BY <1>1, <1>2, <1>3
    <2>2. ~ (EndOf(n) > Size)
      BY <1>0, <1>1, <1>5
    <2>3. Len(out') <= Len(props')
      BY <1>2, <1>6
    <2>4. last' = IF out' = <<>> THEN -1 ELSE props'[Len(out')].id
      BY <1>2, <1>4
    <2>5. ~ (EndOf(Len(out))' > Size')
      BY <1>3, <2>1, <2>2
    <2>6. out' = Wanted(Len(out))'
      BY <1>1, <1>2, <2>1
    <2> QED
      BY <1>2, <2>3, <2>4, <2>5, <2>6 DEF InPlace
  <1>8. Noticed' /\ Ended'
    BY <1>2 DEF Noticed, Ended
  <1>9. ~ Ascending
    <2> SUFFICES ASSUME Ascending PROVE FALSE
      OBVIOUS
    <2>1. q.id \in 0 .. 223
      BY <1>0, <1>1, WrittenIs
    <2>2. PICK i \in 1 .. Len(props) : i = n + 1 /\ i - 1 = n
      BY <1>0, <1>1 DEF Types
    <2>3. q.id <= policy.max_prop_id
      BY <1>1, <2>2 DEF Ascending
    <2>4. policy.max_prop_id \in Int
      BY <1>0, PropsAssumption DEF Types
    <2>5. PICK x \in 0 .. 223, max \in Int, l \in Int :
             x = q.id /\ max = policy.max_prop_id /\ l = last
      BY <1>0, <2>1, <2>4 DEF Types
    <2>11. ~ (x < 0 \/ x > max)
      <3>1. x <= max
        BY <2>3, <2>5
      <3> QED
        BY <3>1
    <2>6. policy.require_ascending /\ x <= l /\ last \notin policy.ascending_exempt
      BY <2>5, <2>11 DEF Rejected
    <2>13. x <= l
      BY <2>6
    <2>7. n # 0
      <3>1. l # -1
        BY <2>13
      <3> QED
        BY <1>1, <2>5, <3>1
    <2>12. last = props[n].id
      BY <1>1, <2>7
    <2>8. i \in 2 .. Len(props)
      BY <1>0, <1>1, <2>2, <2>7 DEF Types
    <2>9. props[i - 1].id < props[i].id \/ props[i - 1].id \in policy.ascending_exempt
      BY <2>6, <2>8 DEF Ascending
    <2>10. l < x
      BY <1>1, <2>2, <2>5, <2>6, <2>9, <2>12
    <2> QED
      BY <2>10, <2>13
  <1> QED
    BY <1>3, <1>7, <1>8, <1>9 DEF WholeClean

\* An iteration that goes on.
LEMMA WalkGoesOn ==
    ASSUME PropInv, Walk, Same, NEW n, NEW q, Before(n, q), After(n, q)
    PROVE  InPlace' /\ Noticed' /\ Ended' /\ WholeClean'
  <1>0. /\ Types /\ Size \in Nat /\ out \in Seq(Entry) /\ InPlace /\ WholeClean
        /\ Monotone /\ props \in Seq(Prop[table]) /\ Types'
    BY TypesWalk DEF PropInv, Streams, Types, Size
  <1>10. PICK m \in Nat : m = Len(props)
    BY <1>0
  <1>1. PICK i \in 1 .. m : m = Len(props) /\ i = n + 1 /\ n \in Nat
    BY <1>10 DEF After
  <1>2. /\ UNCHANGED <<table, colors, policy, props, data, ends>>
        /\ phase = "walk" /\ phase' = "walk"
    BY WalkIs DEF After
  <1>3. /\ \A j : Wanted(j)' = Wanted(j)
        /\ \A j : EndOf(j)' = EndOf(j)
        /\ \A j : CutAt(j)' <=> CutAt(j)
        /\ Ascending' <=> Ascending
        /\ Size' = Size
    BY <1>2, KeepsSame, KeepsPlaces
  <1>4. /\ Len(out') = i /\ last' = props[i].id
        /\ EndOf(i) > Size => pos' >= Size
        /\ EndOf(i) <= Size => out' = Wanted(i) /\ pos' = EndOf(i)
                               /\ clean' = clean
        /\ (policy.check_alignment /\ CutAt(i)) => clean' = FALSE \/ pos' > Size
    BY <1>1 DEF After
  <1>5. \A j \in 0 .. m : EndOf(j) \in Nat
    BY <1>0, <1>1, EndType
  <1>6. InPlace'
    <2>1. /\ EndOf(Len(out))' = EndOf(i) /\ Wanted(Len(out))' = Wanted(i)
          /\ props'[Len(out')] = props[i]
      BY <1>2, <1>3, <1>4
    <2>2. out' # <<>>
      <3>1. out' \in Seq(Entry) /\ Len(out') # 0
        BY <1>0, <1>1, <1>4 DEF Types
      <3> QED
        BY <3>1
    <2>3. Len(out') <= Len(props')
      BY <1>1, <1>2, <1>4
    <2>4. last' = IF out' = <<>> THEN -1 ELSE props'[Len(out')].id
      BY <1>4, <2>1, <2>2
    <2>5. EndOf(Len(out))' > Size' => pos' >= Size'
      BY <1>3, <1>4, <2>1
    <2>6. EndOf(Len(out))' <= Size' => /\ out' = Wanted(Len(out))'
                                       /\ pos' = EndOf(Len(out))'
      BY <1>3, <1>4, <2>1
    <2> QED
      BY <2>3, <2>4, <2>5, <2>6 DEF InPlace
  <1>7. Noticed'
    <2>1. ASSUME policy.check_alignment, NEW j \in 1 .. m, CutAt(j), j <= i
          PROVE  ~ clean' \/ pos' > Size
      <3>1. CASE j = i
        BY <1>4, <2>1, <3>1
      <3>2. CASE j # i
        <4>1. j \in 0 .. m /\ n \in 0 .. m /\ j <= n
          BY <1>1, <2>1, <3>2
        <4>2. EndOf(j) <= EndOf(n)
          BY <1>0, <1>1, <4>1 DEF Monotone
        <4>3. EndOf(n) <= Size /\ Size < EndOf(j)
          BY <2>1 DEF Before, CutAt
        <4>4. EndOf(j) \in Nat /\ EndOf(n) \in Nat
          BY <1>5, <4>1
        <4> QED
          BY <1>0, <4>2, <4>3, <4>4
      <3> QED
        BY <3>1, <3>2
    <2>2. ASSUME policy'.check_alignment, NEW j \in 1 .. Len(props'), CutAt(j)',
                 j <= Len(out')
          PROVE  ~ clean' \/ (phase' = "walk" /\ pos' > Size')
      <3>1. policy.check_alignment /\ j \in 1 .. m /\ CutAt(j) /\ j <= i
        BY <1>1, <1>2, <1>3, <1>4, <2>2
      <3> QED
        BY <1>2, <1>3, <2>1, <3>1
    <2> QED
      BY <2>2 DEF Noticed
  <1>8. Ended'
    BY <1>2 DEF Ended
  <1>9. WholeClean'
    <2> SUFFICES ASSUME Ascending PROVE clean'
      BY <1>3 DEF WholeClean
    <2>1. clean
      BY <1>0 DEF WholeClean
    <2>2. i \in 0 .. m /\ m \in 0 .. m /\ i <= m
      BY <1>1
    <2>3. EndOf(i) <= EndOf(m)
      BY <1>0, <1>1, <2>2 DEF Monotone
    <2>4. Size = EndOf(m)
      BY <1>1 DEF Ascending
    <2> QED
      BY <1>4, <2>1, <2>3, <2>4
  <1> QED
    BY <1>6, <1>7, <1>8, <1>9

LEMMA WalkInv ==
    ASSUME PropInv, Walk
    PROVE  PropInv'
  <1>0. Streams /\ Types /\ InPlace
    BY DEF PropInv, Streams
  <1>1. PICK id : id = Ord(pos)
    OBVIOUS
  <1>2. PICK p : p = pos + 1
    OBVIOUS
  <1>3. /\ UNCHANGED <<table, colors, policy, props, data, ends>>
        /\ phase = "walk" /\ pos < Size
        /\ Rejected(id) => clean' = FALSE /\ phase' = "done"
        /\ ~ Rejected(id) => phase' = phase
    BY <1>1, <1>2, WalkIs
  <1>4. phase # "write" /\ phase' # "write"
    BY <1>3
  <1>5. Streams'
    BY <1>0, <1>3, <1>4, TypesWalk, StreamsKept
  <1>6. CASE ~ Same
    <2>1. ~ Same'
      BY <1>3, <1>4, <1>6, KeepsSame
    <2>2. InPlace' /\ Noticed' /\ WholeClean'
      BY <2>1 DEF InPlace, Noticed, WholeClean, Ascending
    <2>3. Ended'
      BY <1>3 DEF Ended
    <2> QED
      BY <1>5, <2>2, <2>3 DEF PropInv
  <1>7. CASE Same
    <2>1. PICK n, q : Before(n, q)
      BY <1>0, <1>3, <1>7, WalkStands
    <2>2. CASE Rejected(q.id)
      BY <1>5, <1>7, <2>1, <2>2, WalkRejects DEF PropInv
    <2>3. CASE ~ Rejected(q.id)
      <3>1. After(n, q)
        BY <1>0, <2>1, <2>3, WalkKnown, WalkUnknown
      <3> QED
        BY <1>5, <1>7, <2>1, <3>1, WalkGoesOn DEF PropInv
    <2> QED
      BY <2>2, <2>3
  <1> QED
    BY <1>6, <1>7

LEMMA InvInit == Init => PropInv
  <1> SUFFICES ASSUME Init PROVE PropInv
    OBVIOUS
  <1>1. phase = "write" /\ clean = TRUE
    BY DEF Init
  <1>2. ~ Same
    BY <1>1 DEF Same
  <1>3. InPlace /\ Noticed /\ WholeClean /\ Ended
    BY <1>1, <1>2 DEF InPlace, Noticed, WholeClean, Ended
  <1> QED
    BY <1>3, StreamsInit DEF PropInv

LEMMA InvWrite ==
    ASSUME PropInv, NEW q \in Prop[table], Write(q)
    PROVE  PropInv'
  <1>1. Streams /\ Types
    BY DEF PropInv, Streams
  <1>2. Streams'
    BY <1>1, WriteLays
  <1>3. phase' = "write"
    BY <1>1, WriteIs
  <1>4. ~ Same'
    BY <1>3 DEF Same
  <1>5. InPlace' /\ Noticed' /\ WholeClean' /\ Ended'
    BY <1>3, <1>4 DEF InPlace, Noticed, WholeClean, Ascending, Ended
  <1> QED
    BY <1>2, <1>5 DEF PropInv

\* Nothing has been read when the stream arrives.
LEMMA NothingWanted == Wanted(0) = <<>>
  <1>1. PICK n \in Nat : n = 0
    OBVIOUS
  <1>2. PICK f \in [1 .. n -> Int] : f = [j \in 1 .. n |-> 0]
    <2>1. [j \in 1 .. n |-> 0] \in [1 .. n -> Int]
      OBVIOUS
    <2> QED
      BY <2>1
  <1>3. f \in Seq(Int) /\ Len(f) = n
    BY FunctionSeq
  <1>4. f = <<>>
    BY <1>1, <1>3
  <1>5. [j \in 1 .. n |-> 0] = [j \in 1 .. n |-> Due(j)]
    <2>1. \A j : ~ (j \in 1 .. n)
      BY <1>1
    <2> QED
      BY <2>1, Zenon
  <1>6. Wanted(n) = [j \in 1 .. n |-> Due(j)]
    BY DEF Wanted, Due
  <1> QED
    BY <1>1, <1>2, <1>4, <1>5, <1>6

LEMMA NothingWantedNext == (Wanted(0) = <<>>)'
  BY NothingWanted, PTL

LEMMA InvArrive ==
    ASSUME PropInv, Arrive
    PROVE  PropInv'
  <1>1. Streams /\ Types /\ Unread
    BY DEF PropInv, Streams
  <1>2. Streams'
    BY <1>1, ArriveLays
  <1>3. /\ phase = "write" /\ phase' = "walk" /\ Size' \in Nat
        /\ UNCHANGED <<table, colors, policy, props, pos, last, out, clean, ends>>
    BY <1>1, ArriveIs
  <1>4. /\ pos' = 0 /\ last' = -1 /\ out' = <<>> /\ clean' = TRUE
    BY <1>1, <1>3 DEF Unread
  <1>5. Len(out') = 0 /\ Len(props') \in Nat
    <2>1. props' \in Seq(Prop[table])
      BY <1>1, <1>3 DEF Types
    <2> QED
      BY <1>4, <2>1
  <1>6. EndOf(Len(out))' = 0
    BY <1>5 DEF EndOf
  <1>7. Wanted(Len(out))' = <<>>
    <2>1. Wanted(0)' = <<>>
      BY NothingWantedNext
    <2> QED
      BY <1>5, <2>1
  <1>8. InPlace'
    <2>1. Len(out') <= Len(props')
      BY <1>5
    <2>2. ~ (EndOf(Len(out))' > Size')
      BY <1>3, <1>6
    <2> QED
      BY <1>4, <1>6, <1>7, <2>1, <2>2 DEF InPlace
  <1>9. Noticed'
    <2>1. \A i \in 1 .. Len(props') : ~ (i <= Len(out'))
      BY <1>5
    <2> QED
      BY <2>1 DEF Noticed
  <1>10. Ended' /\ WholeClean'
    BY <1>3, <1>4 DEF Ended, WholeClean
  <1> QED
    BY <1>2, <1>8, <1>9, <1>10 DEF PropInv

LEMMA InvFinish ==
    ASSUME PropInv, Finish
    PROVE  PropInv'
  <1>0. /\ Streams /\ Types /\ InPlace /\ Noticed /\ WholeClean /\ Monotone
        /\ Size \in Nat /\ pos \in Nat /\ out \in Seq(Entry)
        /\ props \in Seq(Prop[table])
    BY DEF PropInv, Streams, Types, Size
  <1>1. /\ UNCHANGED <<table, colors, policy, props, data, pos, last, out, ends>>
        /\ phase = "walk" /\ phase' = "done" /\ pos >= Size
        /\ clean' = (/\ clean /\ pos <= Size
                     /\ policy.require_full_consume => pos = Size)
    BY FinishIs
  <1>2. phase # "write" /\ phase' # "write"
    BY <1>1
  <1>3. Types'
    <2>1. clean' \in BOOLEAN
      BY <1>1
    <2> QED
      BY <1>0, <1>1, <2>1 DEF Types
  <1>4. Streams'
    BY <1>0, <1>1, <1>2, <1>3, StreamsKept
  <1>5. /\ Same' <=> Same
        /\ \A i : Wanted(i)' = Wanted(i)
        /\ \A i : EndOf(i)' = EndOf(i)
        /\ \A i : CutAt(i)' <=> CutAt(i)
        /\ Ascending' <=> Ascending
        /\ Size' = Size
    BY <1>1, <1>2, KeepsSame, KeepsPlaces
  <1>6. InPlace'
    <2> SUFFICES ASSUME Same PROVE InPlace'
      BY <1>5 DEF InPlace
    <2>1. /\ Len(out) <= Len(props)
          /\ last = IF out = <<>> THEN -1 ELSE props[Len(out)].id
          /\ EndOf(Len(out)) > Size => pos >= Size
          /\ EndOf(Len(out)) <= Size => out = Wanted(Len(out))
          /\ EndOf(Len(out)) <= Size => pos = EndOf(Len(out))
      BY <1>0, <1>1 DEF InPlace
    <2>2. EndOf(Len(out))' = EndOf(Len(out)) /\ Wanted(Len(out))' = Wanted(Len(out))
      BY <1>1, <1>5
    <2> QED
      BY <1>1, <1>5, <2>1, <2>2 DEF InPlace
  <1>7. Noticed'
    <2>1. ASSUME Same, policy.check_alignment, NEW i \in 1 .. Len(props), CutAt(i),
                 i <= Len(out)
          PROVE  ~ clean'
      <3>1. ~ clean \/ pos > Size
        BY <1>0, <2>1 DEF Noticed
      <3>2. CASE ~ clean
        BY <1>1, <3>2
      <3>3. CASE pos > Size
        <4>1. ~ (pos <= Size)
          BY <1>0, <3>3
        <4> QED
          BY <1>1, <4>1
      <3> QED
        BY <3>1, <3>2, <3>3
    <2> QED
      BY <1>1, <1>5, <2>1 DEF Noticed
  <1>8. Ended'
    BY <1>1, <1>5 DEF Ended
  <1>9. WholeClean'
    <2> SUFFICES ASSUME Ascending PROVE clean'
      BY <1>5 DEF WholeClean
    <2>1. clean /\ Same /\ Size = EndOf(Len(props))
      BY <1>0 DEF WholeClean, Ascending
    <2>2. PICK n \in Nat, m \in Nat : n = Len(out) /\ m = Len(props) /\ n <= m
      BY <1>0, <2>1 DEF InPlace
    <2>3. n \in 0 .. m /\ m \in 0 .. m
      BY <2>2
    <2>4. EndOf(n) <= EndOf(m)
      BY <1>0, <2>2, <2>3 DEF Monotone
    <2>5. pos = EndOf(n)
      BY <1>0, <1>1, <2>1, <2>2, <2>4 DEF InPlace
    <2>6. pos = Size /\ pos <= Size
      BY <1>0, <1>1, <2>1, <2>2, <2>4, <2>5
    <2> QED
      BY <1>1, <2>1, <2>6
  <1> QED
    BY <1>4, <1>6, <1>7, <1>8, <1>9 DEF PropInv

LEMMA InvNext ==
    ASSUME PropInv, [Next]_vars
    PROVE  PropInv'
  <1>1. ASSUME NEW q \in Prop[table], Write(q) PROVE PropInv'
    BY <1>1, InvWrite
  <1>2. CASE Arrive
    BY <1>2, InvArrive
  <1>3. CASE Walk
    BY <1>3, WalkInv
  <1>4. CASE Finish
    BY <1>4, InvFinish
  <1>5. CASE UNCHANGED vars
    <2>1. /\ UNCHANGED <<table, colors, policy, props, data, ends, pos, last, out,
                         clean, phase>>
      BY <1>5 DEF vars
    <2>2. Size' = Size /\ Table' = Table
      BY <2>1 DEF Size, Table
    <2>3. /\ \A i : EndOf(i)' = EndOf(i)
          /\ \A p : Written(p)' = Written(p)
      BY <2>1, KeepsPlaces
    <2>4. Streams'
      <3>1. Types'
        BY <2>1 DEF PropInv, Streams, Types
      <3>2. EndsFollow' /\ Monotone' /\ Unread'
        BY <2>1, <2>2, <2>3 DEF PropInv, Streams, EndsFollow, Monotone, Unread
      <3>3. Laid'
        BY <2>1, <2>2, <2>3 DEF PropInv, Streams, Laid, At
      <3> QED
        BY <3>1, <3>2, <3>3 DEF Streams
    <2>5. Same' <=> Same
      BY <2>1, <2>2, <2>3 DEF Same, SameStream
    <2>6. \A i : Wanted(i)' = Wanted(i)
      BY <2>1, <2>2 DEF Wanted, Call
    <2>7. \A i : CutAt(i)' <=> CutAt(i)
      BY <2>1, <2>2, <2>3 DEF CutAt
    <2>8. Ascending' <=> Ascending
      BY <2>1, <2>2, <2>3, <2>5 DEF Ascending
    <2>9. EndOf(Len(out))' = EndOf(Len(out)) /\ Wanted(Len(out))' = Wanted(Len(out))
      BY <2>1, <2>3, <2>6
    <2>10. InPlace'
      BY <2>1, <2>2, <2>5, <2>9 DEF PropInv, InPlace
    <2>11. Noticed' /\ Ended' /\ WholeClean'
      BY <2>1, <2>2, <2>5, <2>7, <2>8 DEF PropInv, Noticed, Ended, WholeClean
    <2> QED
      BY <2>4, <2>10, <2>11 DEF PropInv
  <1> QED
    BY <1>1, <1>2, <1>3, <1>4, <1>5 DEF Next

\* Every reachable state keeps the invariant.
THEOREM Invariant == Spec => []PropInv
  <1> QED
    BY InvInit, InvNext, PTL DEF Spec

-----------------------------------------------------------------------------
(* What the invariant says of the reader.                                  *)

LEMMA EndOfOut ==
    ASSUME Types, Len(out) <= Len(props)
    PROVE  EndOf(Len(out)) \in Nat
  <1>1. PICK n \in Nat, m \in Nat : n = Len(out) /\ m = Len(props)
    BY DEF Types
  <1>2. n \in 0 .. m
    BY <1>1
  <1> QED
    BY <1>1, <1>2, EndType

LEMMA AlignedState == PropInv => Aligned
  <1> SUFFICES ASSUME PropInv, phase # "write", SameStream, pos <= Size,
                      phase = "walk" \/ clean
               PROVE  pos = EndOf(Len(out)) \/ EndOf(Len(out)) > Size
    BY DEF Aligned
  <1>1. Same /\ InPlace /\ Types /\ Size \in Nat
    BY DEF Same, PropInv, Streams, Types, Size
  <1>2. EndOf(Len(out)) \in Nat
    BY <1>1, EndOfOut DEF InPlace
  <1>3. CASE EndOf(Len(out)) <= Size
    BY <1>1, <1>3 DEF InPlace
  <1>4. CASE EndOf(Len(out)) > Size
    BY <1>4
  <1> QED
    BY <1>1, <1>2, <1>3, <1>4

\* The walk of a reader that gives COLORS the writer's width stands between
\* two properties after every iteration, whatever their descriptors and their
\* values, up to one that was cut short.
THEOREM StaysAligned == Spec => []Aligned
  BY Invariant, AlignedState, PTL

LEMMA ValuesState == PropInv => ValuesArrive
  <1> SUFFICES ASSUME PropInv, SameStream, EndOf(Len(out)) <= Size
               PROVE  out = Wanted(Len(out))
    BY DEF ValuesArrive
  <1>1. InPlace /\ Unread
    BY DEF PropInv, Streams
  <1>2. CASE phase = "write"
    <2>1. out = <<>>
      BY <1>1, <1>2 DEF Unread
    <2>2. Len(out) = 0
      BY <2>1
    <2> QED
      BY <2>1, <2>2, NothingWanted
  <1>3. CASE phase # "write"
    BY <1>1, <1>3 DEF InPlace, Same
  <1> QED
    BY <1>2, <1>3

\* And its handlers are called with what was written, in that order.
THEOREM EveryValueArrives == Spec => []ValuesArrive
  BY Invariant, ValuesState, PTL

LEMMA TruncationState == PropInv => TruncationSeen
  <1> SUFFICES ASSUME PropInv, phase = "done", policy.check_alignment, SameStream,
                      CutInside, clean
               PROVE  FALSE
    BY DEF TruncationSeen
  <1>1. /\ Same /\ InPlace /\ Noticed /\ Ended /\ Monotone /\ Types
        /\ Size \in Nat /\ pos \in Nat
    BY DEF Same, PropInv, Streams, Types, Size
  <1>2. PICK n \in Nat, m \in Nat : n = Len(out) /\ m = Len(props)
    BY <1>1 DEF Types
  <1>3. PICK i \in 1 .. m : CutAt(i)
    BY <1>2 DEF CutInside, CutAt
  <1>4. EndOf(i - 1) < Size /\ Size < EndOf(i) /\ i - 1 \in 0 .. m /\ i \in 0 .. m
    BY <1>2, <1>3 DEF CutAt
  <1>5. n \in 0 .. m
    BY <1>1, <1>2 DEF InPlace
  <1>6. PICK e \in Nat, b \in Nat, a \in Nat :
           e = EndOf(n) /\ b = EndOf(i - 1) /\ a = EndOf(i)
    BY <1>1, <1>2, <1>4, <1>5, EndType
  <1>7. ~ (i <= n)
    BY <1>1, <1>2, <1>3 DEF Noticed
  <1>8. n <= i - 1
    BY <1>7
  <1>9. e <= b
    BY <1>1, <1>2, <1>4, <1>5, <1>6, <1>8 DEF Monotone
  <1>10. e < Size
    BY <1>1, <1>4, <1>6, <1>9
  <1>11. pos = e
    <2>1. EndOf(Len(out)) <= Size => pos = EndOf(Len(out))
      BY <1>1 DEF InPlace
    <2>2. e <= Size
      BY <1>1, <1>10
    <2> QED
      BY <1>2, <1>6, <2>1, <2>2
  <1>12. pos >= Size
    BY <1>1 DEF Ended
  <1> QED
    BY <1>1, <1>10, <1>11, <1>12

\* A walk that checks the alignment does not call a stream clean that was cut
\* inside a property: wherever the cut is and whatever the property carries, but
\* for the image forms that may end at their power byte.
THEOREM TruncationIsSeen == Spec => []TruncationSeen
  BY Invariant, TruncationState, PTL

LEMMA WholeState == PropInv => CleanWhenWhole
  <1> SUFFICES ASSUME PropInv, phase = "done", SameStream,
                      Size = EndOf(Len(props)),
                      \A i \in 1 .. Len(props) : props[i].id <= policy.max_prop_id,
                      policy.require_ascending =>
                         \A i \in 2 .. Len(props) :
                            \/ props[i - 1].id < props[i].id
                            \/ props[i - 1].id \in policy.ascending_exempt
               PROVE  clean
    BY DEF CleanWhenWhole
  <1>1. Ascending
    BY DEF Ascending, Same
  <1> QED
    BY <1>1 DEF PropInv, WholeClean

\* Nor does any walk complain of a whole stream of ids in range that ascend where
\* its policy asks for it.
THEOREM WholeIsClean == Spec => []CleanWhenWhole
  BY Invariant, WholeState, PTL

\* What follows the id of a property.
LEMMA Behind ==
    ASSUME Types, NEW q \in Prop[table]
    PROVE  /\ Tail(Written(q)) = Payload(q)
           /\ Len(Payload(q)) > 0 => Written(q)[2] = Payload(q)[1]
  <1>1. PICK b \in Byte, v \in Seq(Byte) :
           Written(q) = <<b>> \o v /\ v = Payload(q)
    BY WrittenIs
  <1>2. PICK u \in Seq(Byte) : u = <<b>> /\ Len(u) = 1
    <2>1. <<b>> \in Seq(Byte) /\ Len(<<b>>) = 1
      OBVIOUS
    <2> QED
      BY <2>1
  <1>3. PICK w : w = u \o v
    OBVIOUS
  <1>4. /\ w \in Seq(Byte) /\ Len(w) = 1 + Len(v)
        /\ \A i \in 1 .. Len(v) : w[1 + i] = v[i]
    BY <1>2, <1>3, Joined
  <1>5. Tail(w) \in Seq(Byte) /\ Len(Tail(w)) = Len(v)
        /\ \A i \in 1 .. Len(v) : Tail(w)[i] = w[1 + i]
    <2>1. w # <<>>
      BY <1>4
    <2>2. \A i \in 1 .. Len(v) : i + 1 = 1 + i
      OBVIOUS
    <2> QED
      BY <1>4, <2>1, <2>2
  <1>6. Tail(w) = v
    BY <1>4, <1>5, SeqEqual
  <1>7. Len(v) > 0 => w[2] = v[1]
    <2> SUFFICES ASSUME Len(v) > 0 PROVE w[2] = v[1]
      OBVIOUS
    <2>1. 1 \in 1 .. Len(v) /\ 1 + 1 = 2
      OBVIOUS
    <2> QED
      BY <1>4, <2>1
  <1> QED
    BY <1>1, <1>2, <1>3, <1>6, <1>7

LEMMA WriterState == Types => WriterAgrees
  <1> SUFFICES ASSUME Types, NEW i \in 1 .. Len(props),
                      props[i].id \in DOMAIN Table,
                      Table[props[i].id].wire = "GBYTE",
                      Table[props[i].id].width < 4
               PROVE  Tail(Written(props[i])) =
                         CASE Table[props[i].id].width = 1 -> GChar(props[i].value[1])
                           [] Table[props[i].id].width = 2 -> GShort(props[i].value[1])
                           [] Table[props[i].id].width = 3 -> GInt3(props[i].value[1])
    BY DEF WriterAgrees
  <1>1. table \in Tables /\ props \in Seq(Prop[table])
    BY DEF Types
  <1>2. PICK q \in Prop[table] : q = props[i]
    BY <1>1
  <1>3. PICK d : d = Table[q.id]
    OBVIOUS
  <1>4. /\ Legal(d, q.value) /\ d.wire = "GBYTE" /\ d.width \in {1, 2, 3, 5}
        /\ d.width < 4
    BY <1>1, <1>2, <1>3, PropLegal DEF Descriptor
  <1>5. PICK n \in {1, 2, 3} : n = d.width
    BY <1>4
  <1>6. PICK x \in Int : x = q.value[1]
    BY <1>4, <1>5 DEF Legal, Numbers
  <1>7. Tail(Written(q)) = GByte(x, n)
    <2>1. Tail(Written(q)) = Payload(q)
      BY Behind
    <2>2. Payload(q) = Encode(d, q.value, colors)
      BY <1>2, <1>3 DEF Payload
    <2>3. n # 5
      OBVIOUS
    <2>4. Encode(d, q.value, colors) = GByte(x, n)
      BY <1>4, <1>5, <1>6, <2>3 DEF Encode
    <2> QED
      BY <2>1, <2>2, <2>4
  <1>8. GByte(x, n) = CASE n = 1 -> GChar(x) [] n = 2 -> GShort(x) [] n = 3 -> GInt3(x)
    BY GByte1, GShortLanes, GInt3Lanes
  <1> QED
    BY <1>2, <1>3, <1>5, <1>6, <1>7, <1>8

\* _gbyte writes the lanes of PacketBuilder's write_gchar, write_gshort and
\* write_gint3, for every number.
THEOREM WritersAgree == Spec => []WriterAgrees
  BY TypeCorrect, WriterState, PTL

\* The low byte of a number, and which one the offset makes a newline.
LEMMA LowByte == \A x \in Int : x % 256 \in 0 .. 255
  OBVIOUS

LEMMA NewlineByte == \A h \in 0 .. 255 : (h + 32) % 256 = 10 => h = 234
  OBVIOUS

LEMMA NewlineState == Types => NoNewline
  <1> SUFFICES ASSUME Types, NEW i \in 1 .. Len(props),
                      props[i].id \in DOMAIN Table,
                      Table[props[i].id].wire \in {"TILE", "HALFTILE", "TILEZ"},
                      Written(props[i])[2] = 10
               PROVE  Table[props[i].id].wire = "TILE"
                         /\ props[i].value[1] % 256 = 234
    BY DEF NoNewline
  <1>1. table \in Tables /\ props \in Seq(Prop[table])
    BY DEF Types
  <1>2. PICK q \in Prop[table] : q = props[i]
    BY <1>1
  <1>3. PICK d : d = Table[q.id]
    OBVIOUS
  <1>4. /\ Legal(d, q.value) /\ d.wire \in {"TILE", "HALFTILE", "TILEZ"}
        /\ Payload(q) = Encode(d, q.value, colors)
    BY <1>1, <1>2, <1>3, PropLegal DEF Payload
  <1>5. PICK x \in Int : x = q.value[1]
    <2>1. d.wire = "TILE" => q.value \in Numbers(1)
      BY <1>4 DEF Legal
    <2>2. d.wire = "HALFTILE" => q.value \in Numbers(1)
      BY <1>4 DEF Legal
    <2>3. d.wire = "TILEZ" => q.value \in Numbers(1)
      BY <1>4 DEF Legal
    <2>4. q.value \in Numbers(1)
      BY <1>4, <2>1, <2>2, <2>3
    <2> QED
      BY <2>4, NumbersType
  <1>6. Len(Payload(q)) > 0 => Payload(q)[1] = 10
    BY <1>2, Behind
  <1>7. \A y \in Int : GByte(y, 1) = <<Clamp(y, 223) + 32>>
    BY GByte1
  <1>8. \A y \in Int : GByte(y, 1)[1] # 10 /\ Len(GByte(y, 1)) > 0
    <2> TAKE y \in Int
    <2>1. PICK a \in Nat : a = Clamp(y, 223)
      BY ClampRange
    <2>2. GByte(y, 1) = <<a + 32>>
      BY <1>7, <2>1
    <2> QED
      BY <2>2
  <1>9. d.wire # "HALFTILE"
    <2> SUFFICES ASSUME d.wire = "HALFTILE" PROVE FALSE
      OBVIOUS
    <2>1. Payload(q) = GByte(x, 1)
      BY <1>4, <1>5 DEF Encode
    <2> QED
      BY <1>6, <1>8, <2>1
  <1>10. d.wire # "TILEZ"
    <2> SUFFICES ASSUME d.wire = "TILEZ" PROVE FALSE
      OBVIOUS
    <2>1. PICK y \in Int : y = Clamp(x + 50, 220)
      BY DEF Clamp
    <2>2. Payload(q) = GByte(y, 1)
      BY <1>4, <1>5, <2>1 DEF Encode
    <2> QED
      BY <1>6, <1>8, <2>2
  <1>11. d.wire = "TILE"
    BY <1>4, <1>9, <1>10
  <1>12. PICK h \in 0 .. 255 : h = x % 256
    <2>1. x % 256 \in 0 .. 255
      BY LowByte
    <2> QED
      BY <2>1
  <1>13. Payload(q) = <<Char(IF h = 223 THEN 224 ELSE h)>>
    BY <1>4, <1>5, <1>11, <1>12 DEF Encode, Tile
  <1>14. Char(IF h = 223 THEN 224 ELSE h) = 10
    BY <1>6, <1>13
  <1>15. h = 234
    <2>1. \A g \in 0 .. 255 : (g + 32) % 256 = 10 => g = 234
      BY NewlineByte
    <2>2. CASE h = 223
      <3>1. (224 + 32) % 256 = 10
        BY <1>14, <2>2 DEF Char
      <3> QED
        BY <2>1, <3>1
    <2>3. CASE h # 223
      <3>1. (h + 32) % 256 = 10
        BY <1>14, <2>3 DEF Char
      <3> QED
        BY <2>1, <3>1
    <2> QED
      BY <2>2, <2>3
  <1> QED
    BY <1>2, <1>3, <1>5, <1>11, <1>12, <1>15

\* Of all coordinates that go into one byte only a tile at -11, modulo 128,
\* gives the newline of a bundle.
THEOREM NewlineOnlyThere == Spec => []NoNewline
  BY TypeCorrect, NewlineState, PTL
=============================================================================
