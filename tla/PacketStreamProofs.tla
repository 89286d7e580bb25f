------------------------- MODULE PacketStreamProofs -------------------------
(***************************************************************************)
(* The packet buffer cuts the stream where the sender framed it, for every *)
(* number of byte values, every payload and every segmentation: type       *)
(* correctness, NoHeldPacket, and the refinement of a bundle channel.      *)
(***************************************************************************)
EXTENDS PacketStream, SequenceTheorems, WellFoundedInduction, TLAPS

-----------------------------------------------------------------------------
(* Induction without an operator parameter.                                *)

\* Induction over a set: a set of naturals that holds 0 and is closed under
\* the successor is all of Nat.
LEMMA NatSet ==
    ASSUME NEW S, 0 \in S, \A n \in Nat : n \in S => n + 1 \in S
    PROVE  Nat \subseteq S
<1> DEFINE R == {ss \in Nat \X Nat : ss[1] < ss[2]}
           T == Nat \ S
<1>1. SUFFICES ASSUME T # {} PROVE FALSE
  BY DEF T
<1>2. IsWellFoundedOn(R, Nat)
  BY NatLessThanWellFounded, Zenon DEF OpToRel
<1>3. T \subseteq Nat
  BY DEF T
<1> HIDE DEF T, R
<1>4. PICK x \in T : \A y \in T : ~ (<<y, x>> \in R)
  BY <1>1, <1>2, <1>3, WFMin
<1>5. x \in Nat /\ x # 0 /\ x - 1 \in Nat
  BY <1>3 DEF T
<1>6. x - 1 \in S => FALSE
  BY <1>5 DEF T
<1>7. x - 1 \in T
  BY <1>5, <1>6 DEF T
<1>8. <<x - 1, x>> \in R
  BY <1>5 DEF R
<1> QED
  BY <1>4, <1>7, <1>8

-----------------------------------------------------------------------------
(* The length prefix. *)

\* A length that fits is two digits, and reads back from them.
LEMMA PrefixDigits ==
    ASSUME NEW n \in Nat, n <= MaxPacketLen
    PROVE  /\ n \div Base \in Byte /\ n % Base \in Byte
           /\ ((n \div Base) * Base) + (n % Base) = n
<1>1. Base \in Nat /\ Base >= 2 /\ n <= Base * Base - 1
  BY StreamAssumption DEF MaxPacketLen
<1>2. PICK q : q = n \div Base
  OBVIOUS
<1>3. PICK r : r = n % Base
  OBVIOUS
<1>4. q \in Nat /\ r \in 0 .. Base - 1 /\ n = Base * q + r
  BY <1>1, <1>2, <1>3
<1>5. q <= Base - 1
  <2>1. SUFFICES ASSUME q >= Base PROVE FALSE
    BY <1>1, <1>4
  <2>2. PICK d \in Nat : q = Base + d
    BY <1>1, <1>4, <2>1
  <2>3. Base * q = Base * Base + Base * d
    BY <1>1, <2>2
  <2>4. Base * d \in Nat /\ Base * Base \in Nat
    BY <1>1
  <2> QED
    BY <1>1, <1>4, <2>3, <2>4
<1>6. q * Base = Base * q
  BY <1>1, <1>4
<1> QED
  BY <1>1, <1>2, <1>3, <1>4, <1>5, <1>6 DEF Byte

\* A frame is two digits and the payload, and its prefix tells its length.
LEMMA FrameType ==
    ASSUME NEW p \in Seq(Byte), Fits(p)
    PROVE  /\ Frame(p) \in Seq(Byte)
           /\ Len(Frame(p)) = 2 + Len(p)
           /\ Frame(p)[1] * Base + Frame(p)[2] = Len(p)
           /\ \A j \in 1 .. Len(p) : Frame(p)[2 + j] = p[j]
<1>1. Len(p) \in Nat /\ Len(p) <= MaxPacketLen
  BY DEF Fits
<1> DEFINE b1 == Len(p) \div Base
           b2 == Len(p) % Base
<1>2. b1 \in Byte /\ b2 \in Byte /\ b1 * Base + b2 = Len(p)
  BY <1>1, PrefixDigits
<1>3. Frame(p) = <<b1, b2>> \o p
  BY DEF Frame, Prefix
<1> HIDE DEF b1, b2
<1>4. <<b1, b2>> \in Seq(Byte)
  BY <1>2
<1>5. /\ Frame(p) \in Seq(Byte) /\ Len(Frame(p)) = 2 + Len(p)
      /\ Frame(p)[1] = b1 /\ Frame(p)[2] = b2
      /\ \A j \in 1 .. Len(p) : Frame(p)[2 + j] = p[j]
  BY <1>3, <1>4
<1> QED
  BY <1>2, <1>5

\* struct.unpack of the first two bytes.
LEMMA PacketLenType ==
    ASSUME NEW b \in Seq(Byte), Len(b) >= 2
    PROVE  PacketLen(b) \in Nat
<1>1. b[1] \in Nat /\ b[2] \in Nat
  <2>1. b[1] \in Byte /\ b[2] \in Byte
    OBVIOUS
  <2> QED
    BY <2>1, StreamAssumption DEF Byte
<1>2. Base \in Nat
  BY StreamAssumption
<1>3. b[1] * Base \in Nat
  BY <1>1, <1>2
<1> QED
  BY <1>1, <1>3 DEF PacketLen

-----------------------------------------------------------------------------
(* get_packets. *)

Cut(bytes) == SubSeq(bytes, 2 + PacketLen(bytes) + 1, Len(bytes))

\* One round of the loop of get_packets: tail is what the rounds to come give.
Round(bytes, tail) ==
    IF ~ HasPacket(bytes) THEN [packets |-> <<>>, rest |-> bytes]
    ELSE [packets |-> <<SubSeq(bytes, 3, 2 + PacketLen(bytes))>> \o tail.packets,
          rest    |-> tail.rest]

\* A packet taken out leaves fewer bytes.
LEMMA CutShorter ==
    ASSUME NEW b \in Seq(Byte), HasPacket(b)
    PROVE  /\ Cut(b) \in Seq(Byte)
           /\ Len(Cut(b)) = Len(b) - (2 + PacketLen(b))
           /\ Len(Cut(b)) < Len(b)
           /\ PacketLen(b) \in Nat
           /\ \A j \in 1 .. Len(Cut(b)) : Cut(b)[j] = b[2 + PacketLen(b) + j]
<1>1. Len(b) \in Nat /\ Len(b) >= 2 + PacketLen(b) /\ PacketLen(b) \in Nat
  BY PacketLenType DEF HasPacket
<1>2. PICK n \in Nat : n = 2 + PacketLen(b)
  BY <1>1
<1>3. Cut(b) = SubSeq(b, n + 1, Len(b))
  BY <1>2 DEF Cut
<1>4. /\ Cut(b) \in Seq(Byte) /\ Len(Cut(b)) = Len(b) - n
      /\ \A j \in 1 .. Len(b) - n : Cut(b)[j] = b[n + j]
  <2>1. PICK m : m = n + 1
    OBVIOUS
  <2>2. m \in 1 .. Len(b) + 1 /\ m - 1 = n
    BY <1>1, <1>2, <2>1
  <2>3. /\ SubSeq(b, m, Len(b)) \in Seq(Byte)
        /\ Len(SubSeq(b, m, Len(b))) = Len(b) - m + 1
    BY <2>2
  <2>4. \A j \in 1 .. Len(b) - m + 1 : SubSeq(b, m, Len(b))[j] = b[m - 1 + j]
    BY <2>2
  <2>5. Len(b) - m + 1 = Len(b) - n
    BY <2>1, <1>1, <1>2
  <2> QED
    BY <1>3, <2>1, <2>2, <2>3, <2>4, <2>5
<1> QED
  BY <1>1, <1>2, <1>4

Short(n) == {b \in Seq(Byte) : Len(b) <= n}

\* g is get_packets on the buffers of at most n bytes.
Table(g, n) == /\ DOMAIN g = Short(n)
               /\ \A b \in Short(n) : g[b] = Round(b, g[Cut(b)])

\* Cutting a packet off leaves a shorter buffer.
LEMMA ShortCut ==
    ASSUME NEW n \in Nat, NEW b \in Short(n + 1), HasPacket(b)
    PROVE  Cut(b) \in Short(n)
<1>1. b \in Seq(Byte) /\ Len(b) \in Nat /\ Len(b) <= n + 1
  BY DEF Short
<1>2. Cut(b) \in Seq(Byte) /\ Len(Cut(b)) < Len(b)
  BY <1>1, CutShorter
<1>3. Len(Cut(b)) \in Nat
  BY <1>2
<1> QED
  BY <1>1, <1>2, <1>3 DEF Short

\* There a round is the same, whatever the table of the shorter buffers says.
LEMMA RoundEmpty ==
    ASSUME NEW b, ~ HasPacket(b), NEW t1, NEW t2
    PROVE  Round(b, t1) = Round(b, t2)
BY DEF Round

\* There is a table of every length.
LEMMA TableExists == \A n \in Nat : \E g : Table(g, n)
<1> DEFINE S == {n \in Nat : \E g : Table(g, n)}
<1>1. 0 \in S
  <2> DEFINE g == [b \in Short(0) |-> [packets |-> <<>>, rest |-> b]]
  <2>1. ASSUME NEW b \in Short(0) PROVE g[b] = Round(b, g[Cut(b)])
    <3>1. ~ HasPacket(b)
      BY DEF Short, HasPacket
    <3> QED
      BY <3>1 DEF Round
  <2>2. DOMAIN g = Short(0)
    OBVIOUS
  <2> HIDE DEF g
  <2>3. Table(g, 0)
    BY <2>1, <2>2 DEF Table
  <2> QED
    BY <2>3
<1>2. ASSUME NEW n \in Nat, n \in S PROVE n + 1 \in S
  <2>1. PICK g : Table(g, n)
    BY <1>2
  <2> DEFINE h == [b \in Short(n + 1) |-> Round(b, g[Cut(b)])]
  <2>2. ASSUME NEW b \in Short(n + 1) PROVE h[b] = Round(b, h[Cut(b)])
    <3>1. CASE HasPacket(b)
      <4>1. Cut(b) \in Short(n)
        BY <3>1, ShortCut
      <4>2. Cut(b) \in Short(n + 1)
        BY <4>1 DEF Short
      <4>3. h[Cut(b)] = Round(Cut(b), g[Cut(Cut(b))])
        BY <4>2
      <4>4. g[Cut(b)] = Round(Cut(b), g[Cut(Cut(b))])
        BY <2>1, <4>1 DEF Table
      <4> QED
        BY <4>3, <4>4
    <3>2. CASE ~ HasPacket(b)
      BY <3>2, RoundEmpty
    <3> QED
      BY <3>1, <3>2
  <2>3. DOMAIN h = Short(n + 1)
    OBVIOUS
  <2> HIDE DEF h
  <2>4. Table(h, n + 1)
    BY <2>2, <2>3 DEF Table
  <2> QED
    BY <2>4
<1> HIDE DEF S
<1>3. Nat \subseteq S
  BY <1>1, <1>2, NatSet
<1> QED
  BY <1>3 DEF S

\* Two tables agree wherever both are defined.
LEMMA TableUnique ==
    ASSUME NEW n \in Nat, NEW m \in Nat, NEW g, Table(g, n), NEW h, Table(h, m)
    PROVE  \A b \in Short(n) \cap Short(m) : g[b] = h[b]
<1> DEFINE Both(k) == Short(n) \cap Short(m) \cap Short(k)
           S == {k \in Nat : \A b \in Both(k) : g[b] = h[b]}
<1>1. 0 \in S
  <2>1. ASSUME NEW b \in Both(0) PROVE g[b] = h[b]
    <3>1. ~ HasPacket(b)
      BY DEF Short, HasPacket
    <3>2. g[b] = Round(b, g[Cut(b)]) /\ h[b] = Round(b, h[Cut(b)])
      BY DEF Table
    <3> QED
      BY <3>1, <3>2, RoundEmpty
  <2> QED
    BY <2>1
<1>2. ASSUME NEW k \in Nat, k \in S PROVE k + 1 \in S
  <2>1. ASSUME NEW b \in Both(k + 1) PROVE g[b] = h[b]
    <3>1. g[b] = Round(b, g[Cut(b)]) /\ h[b] = Round(b, h[Cut(b)])
      BY DEF Table
    <3>2. CASE HasPacket(b)
      <4>1. Cut(b) \in Seq(Byte) /\ Len(Cut(b)) < Len(b) /\ Len(b) \in Nat
        BY <3>2, CutShorter DEF Short
      <4>2. Cut(b) \in Short(k)
        BY <3>2, ShortCut
      <4>3. Len(Cut(b)) \in Nat
        BY <4>1
      <4>4. Cut(b) \in Both(k)
        BY <4>1, <4>2, <4>3 DEF Short
      <4>5. g[Cut(b)] = h[Cut(b)]
        BY <1>2, <4>4
      <4> QED
        BY <3>1, <4>5
    <3>3. CASE ~ HasPacket(b)
      BY <3>1, <3>3, RoundEmpty
    <3> QED
      BY <3>2, <3>3
  <2> QED
    BY <2>1
<1> HIDE DEF S
<1>3. Nat \subseteq S
  BY <1>1, <1>2, NatSet
<1>4. ASSUME NEW b \in Short(n) \cap Short(m) PROVE g[b] = h[b]
  <2>1. b \in Both(n) /\ n \in S
    BY <1>3
  <2> QED
    BY <2>1 DEF S
<1> QED
  BY <1>4

\* The recursive definition of get_packets defines a function.
LEMMA GetPacketsDef ==
    \A b \in Seq(Byte) : GetPackets[b] = Round(b, GetPackets[Cut(b)])
<1> DEFINE T(n) == CHOOSE g : Table(g, n)
           f == [b \in Seq(Byte) |-> T(Len(b))[b]]
           Rec(F) == [bytes \in Seq(Byte) |->
                        IF ~ HasPacket(bytes) THEN [packets |-> <<>>, rest |-> bytes]
                        ELSE LET end  == 2 + PacketLen(bytes)
                                 tail == F[SubSeq(bytes, end + 1, Len(bytes))]
                             IN  [packets |-> <<SubSeq(bytes, 3, end)>> \o tail.packets,
                                  rest    |-> tail.rest]]
<1>1. \A n \in Nat : Table(T(n), n)
  BY TableExists
<1> HIDE DEF T
<1>2. ASSUME NEW F, NEW b \in Seq(Byte) PROVE Rec(F)[b] = Round(b, F[Cut(b)])
  BY DEF Round, Cut
<1>3. ASSUME NEW b \in Seq(Byte) PROVE f[b] = Round(b, f[Cut(b)])
  <2>1. Len(b) \in Nat /\ b \in Short(Len(b)) /\ Table(T(Len(b)), Len(b))
    BY <1>1 DEF Short
  <2>2. f[b] = Round(b, T(Len(b))[Cut(b)])
    BY <2>1 DEF Table
  <2>3. CASE HasPacket(b)
    <3>1. Cut(b) \in Seq(Byte) /\ Len(Cut(b)) < Len(b)
      BY <2>3, CutShorter
    <3>2. Len(Cut(b)) \in Nat
      BY <3>1
    <3>3. /\ Cut(b) \in Short(Len(b)) \cap Short(Len(Cut(b)))
          /\ Table(T(Len(Cut(b))), Len(Cut(b)))
      BY <1>1, <2>1, <3>1, <3>2 DEF Short
    <3>4. T(Len(b))[Cut(b)] = T(Len(Cut(b)))[Cut(b)]
      BY <2>1, <3>2, <3>3, TableUnique
    <3>5. f[Cut(b)] = T(Len(Cut(b)))[Cut(b)]
      BY <3>1
    <3> QED
      BY <2>2, <3>4, <3>5
  <2>4. CASE ~ HasPacket(b)
    BY <2>2, <2>4, RoundEmpty
  <2> QED
    BY <2>3, <2>4
<1>4. f = Rec(f)
  <2>1. f = [b \in Seq(Byte) |-> f[b]]
    OBVIOUS
  <2>2. Rec(f) = [b \in Seq(Byte) |-> Rec(f)[b]]
    OBVIOUS
  <2>3. \A b \in Seq(Byte) : f[b] = Rec(f)[b]
    BY <1>2, <1>3
  <2> HIDE DEF f, Rec
  <2> QED
    BY <2>1, <2>2, <2>3
<1> DEFINE L == CHOOSE F : F = Rec(F)
<1> HIDE DEF f
<1>5. L = Rec(L)
  <2> HIDE DEF Rec
  <2> QED
    BY <1>4
<1>6. GetPackets = L
  BY DEF GetPackets
<1> HIDE DEF L, Rec
<1> QED
  BY <1>2, <1>5, <1>6

-----------------------------------------------------------------------------
(* The stream. *)

\* Payloads that were framed.
Sendable == {p \in Payload : Fits(p)}

\* A payload that can be sent is a sequence of bytes that fits its prefix.
LEMMA SendableType ==
    ASSUME NEW p \in Sendable
    PROVE  p \in Payload /\ p \in Seq(Byte) /\ Fits(p) /\ Len(p) \in Nat
BY StreamAssumption DEF Sendable

\* Nothing in the stream: nothing was framed.
LEMMA FramedNothing == Framed(<<>>, <<>>)
<1> DEFINE at == [i \in 1 .. Len(<<>>) + 1 |-> 0]
<1>1. Len(<<>>) = 0 /\ 1 .. 0 + 1 = {1} /\ 1 .. 0 = {}
  OBVIOUS
<1>2. at \in [1 .. Len(<<>>) + 1 -> 0 .. Len(<<>>)]
  BY <1>1
<1>3. at[1] = 0 /\ at[Len(<<>>) + 1] = Len(<<>>)
  BY <1>1
<1> HIDE DEF at
<1> QED
  BY <1>1, <1>2, <1>3 DEF Framed

\* Without a payload there is no byte.
LEMMA FramedEmpty ==
    ASSUME NEW s \in Seq(Byte), NEW ms, Len(ms) = 0, Framed(s, ms)
    PROVE  Len(s) = 0
BY DEF Framed

\* The stream starts with the first frame.
LEMMA FramedHead ==
    ASSUME NEW s \in Seq(Byte), NEW ms \in Seq(Sendable), Len(ms) >= 1,
           Framed(s, ms)
    PROVE  /\ Len(s) >= 2 + Len(ms[1])
           /\ \A j \in 1 .. 2 + Len(ms[1]) : s[j] = Frame(ms[1])[j]
<1>1. PICK at \in [1 .. Len(ms) + 1 -> 0 .. Len(s)] :
        /\ at[1] = 0
        /\ at[Len(ms) + 1] = Len(s)
        /\ \A i \in 1 .. Len(ms) :
              /\ at[i + 1] = at[i] + Len(Frame(ms[i]))
              /\ \A j \in 1 .. Len(Frame(ms[i])) : s[at[i] + j] = Frame(ms[i])[j]
  BY DEF Framed
<1>2. Len(ms) \in Nat /\ Len(s) \in Nat /\ 1 \in 1 .. Len(ms) /\ 1 + 1 = 2
      /\ 2 \in 1 .. Len(ms) + 1
  OBVIOUS
<1>3. ms[1] \in Sendable
  BY <1>2
<1>4. Len(Frame(ms[1])) = 2 + Len(ms[1]) /\ Len(ms[1]) \in Nat
  BY <1>3, SendableType, FrameType
<1>5. /\ at[2] = at[1] + Len(Frame(ms[1]))
      /\ \A j \in 1 .. Len(Frame(ms[1])) : s[at[1] + j] = Frame(ms[1])[j]
  BY <1>1, <1>2
<1>6. at[2] \in 0 .. Len(s)
  BY <1>2
<1> QED
  BY <1>1, <1>2, <1>4, <1>5, <1>6

\* s2 is s without its first n bytes.
Behind(s2, s, n) == /\ Len(s2) = Len(s) - n
                    /\ \A j \in 1 .. Len(s2) : s2[j] = s[n + j]

\* Behind the first frame come the other frames.
LEMMA FramedTail ==
    ASSUME NEW s \in Seq(Byte), NEW ms \in Seq(Sendable), Len(ms) >= 1,
           Framed(s, ms),
           NEW s2 \in Seq(Byte), Behind(s2, s, 2 + Len(ms[1]))
    PROVE  Framed(s2, Tail(ms))
<1> DEFINE ls == Tail(ms)
<1>1. PICK at \in [1 .. Len(ms) + 1 -> 0 .. Len(s)] :
        /\ at[1] = 0
        /\ at[Len(ms) + 1] = Len(s)
        /\ \A i \in 1 .. Len(ms) :
              /\ at[i + 1] = at[i] + Len(Frame(ms[i]))
              /\ \A j \in 1 .. Len(Frame(ms[i])) : s[at[i] + j] = Frame(ms[i])[j]
  BY DEF Framed
<1>2. /\ Len(ms) \in Nat /\ Len(s) \in Nat /\ Len(ls) = Len(ms) - 1
      /\ \A i \in 1 .. Len(ms) - 1 : ls[i] = ms[i + 1]
  OBVIOUS
<1>3. ms[1] \in Sendable
  BY <1>2
<1>4. PICK n \in Nat : /\ n = 2 + Len(ms[1]) /\ n = Len(Frame(ms[1]))
                      /\ Len(s2) = Len(s) - n /\ Len(s2) \in Nat
                      /\ Len(ms[1]) \in Nat
  <2>1. Len(ms[1]) \in Nat /\ Len(Frame(ms[1])) = 2 + Len(ms[1])
    BY <1>3, SendableType, FrameType
  <2> QED
    BY <2>1 DEF Behind
<1>5. at[2] = n
  <2>1. 1 \in 1 .. Len(ms) /\ 1 + 1 = 2
    BY <1>2
  <2>2. at[2] = at[1] + Len(Frame(ms[1]))
    BY <1>1, <2>1
  <2> QED
    BY <1>1, <1>4, <2>2
<1> HIDE DEF ls
\* A frame begins no earlier than the frame before it.
<1>6. \A k \in Nat : k + 2 <= Len(ms) + 1 => at[k + 2] >= n
  <2> DEFINE S == {k \in Nat : k + 2 <= Len(ms) + 1 => at[k + 2] >= n}
  <2>1. 0 \in S
    BY <1>4, <1>5
  <2>2. ASSUME NEW k \in Nat, k \in S PROVE k + 1 \in S
    <3>1. SUFFICES ASSUME (k + 1) + 2 <= Len(ms) + 1 PROVE at[(k + 1) + 2] >= n
      BY DEF S
    <3>2. k + 2 \in 1 .. Len(ms) /\ (k + 2) + 1 = (k + 1) + 2
      BY <1>2, <3>1
    <3>3. ms[k + 2] \in Sendable
      BY <3>2
    <3>4. Len(Frame(ms[k + 2])) \in Nat
      <4>1. Len(Frame(ms[k + 2])) = 2 + Len(ms[k + 2]) /\ Len(ms[k + 2]) \in Nat
        BY <3>3, SendableType, FrameType
      <4> QED
        BY <4>1
    <3>5. at[(k + 2) + 1] = at[k + 2] + Len(Frame(ms[k + 2]))
      BY <1>1, <3>2
    <3>6. at[k + 2] >= n
      BY <1>2, <2>2, <3>2
    <3>7. at[k + 2] \in Nat
      BY <1>2, <3>2
    <3> QED
      BY <1>4, <3>2, <3>4, <3>5, <3>6, <3>7
  <2> HIDE DEF S
  <2>3. Nat \subseteq S
    BY <2>1, <2>2, NatSet
  <2> QED
    BY <2>3 DEF S
<1> DEFINE bt == [i \in 1 .. Len(ls) + 1 |-> at[i + 1] - n]
<1>7. bt \in [1 .. Len(ls) + 1 -> 0 .. Len(s2)]
  <2>1. ASSUME NEW i \in 1 .. Len(ls) + 1 PROVE at[i + 1] - n \in 0 .. Len(s2)
    <3>1. i + 1 \in 1 .. Len(ms) + 1 /\ i - 1 \in Nat /\ (i - 1) + 2 = i + 1
          /\ (i - 1) + 2 <= Len(ms) + 1
      BY <1>2
    <3>2. at[i + 1] >= n
      <4>1. at[(i - 1) + 2] >= n
        BY <1>6, <3>1
      <4> QED
        BY <3>1, <4>1
    <3>3. at[i + 1] \in 0 .. Len(s)
      BY <3>1
    <3> QED
      BY <1>2, <1>4, <3>2, <3>3
  <2> QED
    BY <2>1
<1>8. bt[1] = 0 /\ bt[Len(ls) + 1] = Len(s2)
  BY <1>1, <1>2, <1>4, <1>5
<1>9. ASSUME NEW i \in 1 .. Len(ls)
      PROVE  /\ bt[i + 1] = bt[i] + Len(Frame(ls[i]))
             /\ \A j \in 1 .. Len(Frame(ls[i])) : s2[bt[i] + j] = Frame(ls[i])[j]
  <2>1. /\ i + 1 \in 1 .. Len(ms) /\ ls[i] = ms[i + 1]
        /\ i \in 1 .. Len(ls) + 1 /\ i + 1 \in 1 .. Len(ls) + 1
    BY <1>2
  <2>2. bt[i] = at[i + 1] - n /\ bt[i + 1] = at[(i + 1) + 1] - n
    BY <2>1
  <2>3. ls[i] \in Sendable
    BY <2>1
  <2>4. Len(Frame(ls[i])) \in Nat
    <3>1. Len(Frame(ls[i])) = 2 + Len(ls[i]) /\ Len(ls[i]) \in Nat
      BY <2>3, SendableType, FrameType
    <3> QED
      BY <3>1
  <2>5. /\ at[(i + 1) + 1] = at[i + 1] + Len(Frame(ls[i]))
        /\ \A j \in 1 .. Len(Frame(ls[i])) : s[at[i + 1] + j] = Frame(ls[i])[j]
    BY <1>1, <2>1
  <2>6. at[i + 1] \in Nat /\ bt[i] \in 0 .. Len(s2) /\ bt[i + 1] \in 0 .. Len(s2)
    <3>1. i + 1 \in 1 .. Len(ms) + 1
      BY <1>2, <2>1
    <3>2. at[i + 1] \in 0 .. Len(s)
      BY <3>1
    <3> HIDE DEF bt
    <3> QED
      BY <1>2, <1>7, <2>1, <3>2
  <2> HIDE DEF bt
  <2>7. PICK l \in Nat : l = Len(Frame(ls[i]))
    BY <2>4
  <2>8. PICK a \in Nat : a = at[i + 1]
    BY <2>6
  <2>9. PICK x \in 0 .. Len(s2) : x = bt[i]
    BY <2>6
  <2>10. bt[i + 1] = x + l /\ x = a - n
    <3>1. at[(i + 1) + 1] = a + l
      BY <2>5, <2>7, <2>8
    <3>2. bt[i + 1] = (a + l) - n /\ x = a - n
      BY <2>2, <2>8, <2>9, <3>1
    <3> QED
      BY <3>2
  <2>11. ASSUME NEW j \in 1 .. l
         PROVE  s2[bt[i] + j] = Frame(ls[i])[j]
    <3>1. x + j \in 1 .. Len(s2) /\ n + (x + j) = a + j
      <4>1. x + l \in 0 .. Len(s2)
        BY <2>6, <2>10
      <4>2. j \in Nat /\ 1 <= j /\ j <= l /\ x \in Nat
        OBVIOUS
      <4>3. n + (x + j) = a + j
        BY <2>10, <4>2
      <4>4. x + j <= x + l /\ 1 <= x + j /\ x + j \in Nat
        BY <4>2
      <4>5. x + j <= Len(s2)
        <5>1. PICK z \in Nat : z = Len(s2)
          BY <1>4
        <5>2. x + l <= z
          BY <4>1, <5>1
        <5> QED
          BY <4>2, <4>4, <5>1, <5>2
      <4>6. x + j \in 1 .. Len(s2)
        BY <1>4, <4>4, <4>5
      <4> QED
        BY <4>3, <4>6
    <3>2. s2[x + j] = s[n + (x + j)]
      BY <1>4, <3>1 DEF Behind
    <3>3. s[a + j] = Frame(ls[i])[j]
      BY <2>5, <2>7, <2>8
    <3> QED
      BY <2>9, <3>1, <3>2, <3>3
  <2> QED
    BY <2>7, <2>9, <2>10, <2>11
<1> HIDE DEF bt
<1>10. Framed(s2, ls)
  BY <1>7, <1>8, <1>9 DEF Framed
<1> QED
  BY <1>10 DEF ls

\* A frame written behind the others extends the stream.
LEMMA FramedAppend ==
    ASSUME NEW s \in Seq(Byte), NEW ms \in Seq(Sendable), Framed(s, ms),
           NEW p \in Sendable
    PROVE  Framed(s \o Frame(p), Append(ms, p))
<1> DEFINE ls == Append(ms, p)
           t == s \o Frame(p)
           n == Len(ms)
<1>1. PICK at \in [1 .. Len(ms) + 1 -> 0 .. Len(s)] :
        /\ at[1] = 0
        /\ at[Len(ms) + 1] = Len(s)
        /\ \A i \in 1 .. Len(ms) :
              /\ at[i + 1] = at[i] + Len(Frame(ms[i]))
              /\ \A j \in 1 .. Len(Frame(ms[i])) : s[at[i] + j] = Frame(ms[i])[j]
  BY DEF Framed
<1>2. Frame(p) \in Seq(Byte)
  BY SendableType, FrameType
<1>3. /\ n \in Nat /\ Len(s) \in Nat /\ Len(Frame(p)) \in Nat
      /\ Len(ls) = n + 1 /\ ls[n + 1] = p /\ \A i \in 1 .. n : ls[i] = ms[i]
  BY <1>2
<1>4. /\ t \in Seq(Byte) /\ Len(t) = Len(s) + Len(Frame(p))
      /\ \A j \in 1 .. Len(s) : t[j] = s[j]
      /\ \A j \in 1 .. Len(Frame(p)) : t[Len(s) + j] = Frame(p)[j]
  BY <1>2
<1> HIDE DEF ls, t
<1> DEFINE bt == [i \in 1 .. Len(ls) + 1 |-> IF i = n + 2 THEN Len(t) ELSE at[i]]
<1>5. bt \in [1 .. Len(ls) + 1 -> 0 .. Len(t)]
  <2>1. ASSUME NEW i \in 1 .. Len(ls) + 1, i # n + 2 PROVE at[i] \in 0 .. Len(t)
    <3>1. i \in 1 .. n + 1
      BY <1>3, <2>1
    <3>2. at[i] \in 0 .. Len(s)
      BY <3>1
    <3> QED
      BY <1>3, <1>4, <3>2
  <2>2. Len(t) \in 0 .. Len(t)
    BY <1>3, <1>4
  <2> QED
    BY <2>1, <2>2
<1>6. bt[1] = 0 /\ bt[Len(ls) + 1] = Len(t)
  BY <1>1, <1>3
<1>7. ASSUME NEW i \in 1 .. Len(ls)
      PROVE  /\ bt[i + 1] = bt[i] + Len(Frame(ls[i]))
             /\ \A j \in 1 .. Len(Frame(ls[i])) : t[bt[i] + j] = Frame(ls[i])[j]
  <2>1. CASE i = n + 1
    <3>1. bt[i] = Len(s) /\ bt[i + 1] = Len(t) /\ ls[i] = p
      BY <1>1, <1>3, <2>1
    <3> QED
      BY <1>4, <3>1
  <2>2. CASE i # n + 1
    <3>1. i \in 1 .. n /\ i + 1 \in 1 .. n + 1
      BY <1>3, <2>2
    <3>2. bt[i] = at[i] /\ bt[i + 1] = at[i + 1] /\ ls[i] = ms[i]
      BY <1>3, <3>1
    <3>3. /\ at[i + 1] = at[i] + Len(Frame(ms[i]))
          /\ \A j \in 1 .. Len(Frame(ms[i])) : s[at[i] + j] = Frame(ms[i])[j]
      BY <1>1, <3>1
    <3>4. at[i] \in 0 .. Len(s) /\ at[i + 1] \in 0 .. Len(s) /\ ms[i] \in Sendable
      <4>1. i \in 1 .. Len(ms) /\ i \in 1 .. Len(ms) + 1 /\ i + 1 \in 1 .. Len(ms) + 1
        BY <1>3, <3>1
      <4>2. ms[i] \in Sendable
        BY <4>1
      <4>3. at[i] \in 0 .. Len(s) /\ at[i + 1] \in 0 .. Len(s)
        BY <4>1
      <4> QED
        BY <4>2, <4>3
    <3>5. Len(Frame(ms[i])) \in Nat
      <4>1. Len(Frame(ms[i])) = 2 + Len(ms[i]) /\ Len(ms[i]) \in Nat
        BY <3>4, SendableType, FrameType
      <4> QED
        BY <4>1
    <3>6. ASSUME NEW j \in 1 .. Len(Frame(ms[i])) PROVE t[at[i] + j] = s[at[i] + j]
      <4>1. at[i] + j \in 1 .. Len(s)
        BY <1>3, <3>3, <3>4, <3>5
      <4> QED
        BY <1>4, <4>1
    <3> QED
      BY <3>2, <3>3, <3>6
  <2> QED
    BY <2>1, <2>2
<1> HIDE DEF bt
<1>8. Framed(t, ls)
  BY <1>5, <1>6, <1>7 DEF Framed
<1> QED
  BY <1>8 DEF t, ls

\* The length read from the buffer is that of the next payload in the stream.
LEMMA BufferPrefix ==
    ASSUME NEW b \in Seq(Byte), NEW w \in Seq(Byte), NEW ms \in Seq(Sendable),
           Framed(b \o w, ms), Len(b) >= 2
    PROVE  /\ Len(ms) >= 1 /\ ms[1] \in Sendable
           /\ PacketLen(b) = Len(ms[1])
           /\ Len(b \o w) >= 2 + Len(ms[1])
           /\ \A j \in 1 .. 2 + Len(ms[1]) : (b \o w)[j] = Frame(ms[1])[j]
<1> DEFINE s == b \o w
<1>1. /\ s \in Seq(Byte) /\ Len(s) = Len(b) + Len(w)
      /\ Len(b) \in Nat /\ Len(w) \in Nat
      /\ \A j \in 1 .. Len(b) : s[j] = b[j]
  OBVIOUS
<1>2. Framed(s, ms)
  OBVIOUS
<1> HIDE DEF s
<1>3. Len(ms) >= 1
  <2>1. SUFFICES ASSUME Len(ms) = 0 PROVE FALSE
    OBVIOUS
  <2>2. Len(s) = 0
    BY <1>1, <1>2, <2>1, FramedEmpty
  <2> QED
    BY <1>1, <2>2
<1>4. ms[1] \in Sendable
  BY <1>3
<1>5. /\ Len(s) >= 2 + Len(ms[1])
      /\ \A j \in 1 .. 2 + Len(ms[1]) : s[j] = Frame(ms[1])[j]
  BY <1>1, <1>2, <1>3, FramedHead
<1>6. /\ Frame(ms[1])[1] * Base + Frame(ms[1])[2] = Len(ms[1])
      /\ Len(ms[1]) \in Nat
  BY <1>4, SendableType, FrameType
<1>7. b[1] = Frame(ms[1])[1] /\ b[2] = Frame(ms[1])[2]
  <2>1. 1 \in 1 .. 2 + Len(ms[1]) /\ 2 \in 1 .. 2 + Len(ms[1])
    BY <1>6
  <2>2. 1 \in 1 .. Len(b) /\ 2 \in 1 .. Len(b)
    BY <1>1
  <2> QED
    BY <1>1, <1>5, <2>1, <2>2
<1>8. PacketLen(b) = Len(ms[1])
  BY <1>6, <1>7 DEF PacketLen
<1> QED
  BY <1>3, <1>4, <1>5, <1>8 DEF s

\* Joining two sequences, by their elements.
LEMMA Joined ==
    ASSUME NEW S, NEW x \in Seq(S), NEW y \in Seq(S)
    PROVE  /\ x \o y \in Seq(S) /\ Len(x \o y) = Len(x) + Len(y)
           /\ \A j \in 1 .. Len(x) : (x \o y)[j] = x[j]
           /\ \A j \in 1 .. Len(y) : (x \o y)[Len(x) + j] = y[j]
OBVIOUS

\* A round takes the next payload out of the buffer, and leaves the stream
\* framed behind it.
LEMMA RoundStep ==
    ASSUME NEW b \in Seq(Byte), NEW w \in Seq(Byte), NEW ms \in Seq(Sendable),
           Framed(b \o w, ms), HasPacket(b)
    PROVE  /\ Len(ms) >= 1
           /\ SubSeq(b, 3, 2 + PacketLen(b)) = ms[1]
           /\ Framed(Cut(b) \o w, Tail(ms))
<1> DEFINE s == b \o w
           s2 == Cut(b) \o w
           p == SubSeq(b, 3, 2 + PacketLen(b))
<1>1. Len(b) >= 2 /\ Len(b) >= 2 + PacketLen(b) /\ Len(b) \in Nat
  BY DEF HasPacket
<1>2. /\ Len(ms) >= 1 /\ ms[1] \in Sendable /\ PacketLen(b) = Len(ms[1])
      /\ Len(s) >= 2 + Len(ms[1])
      /\ \A j \in 1 .. 2 + Len(ms[1]) : s[j] = Frame(ms[1])[j]
  BY <1>1, BufferPrefix
<1>3. PICK l \in Nat : l = Len(ms[1]) /\ l = PacketLen(b)
  BY <1>2, SendableType
<1>4. /\ ms[1] \in Seq(Byte)
      /\ \A j \in 1 .. l : Frame(ms[1])[2 + j] = ms[1][j]
  BY <1>2, <1>3, SendableType, FrameType
<1>5. /\ Cut(b) \in Seq(Byte) /\ Len(Cut(b)) = Len(b) - (2 + l)
      /\ \A j \in 1 .. Len(Cut(b)) : Cut(b)[j] = b[2 + l + j]
  BY <1>3, CutShorter
<1>6. /\ s \in Seq(Byte) /\ Len(s) = Len(b) + Len(w) /\ Len(w) \in Nat
      /\ \A j \in 1 .. Len(b) : s[j] = b[j]
      /\ \A j \in 1 .. Len(w) : s[Len(b) + j] = w[j]
  OBVIOUS
<1>7. p = ms[1]
  <2>1. p = SubSeq(b, 3, 2 + l)
    BY <1>3
  <2>2. /\ p \in Seq(Byte) /\ Len(p) = l
        /\ \A j \in 1 .. l : p[j] = b[2 + j]
    <3>1. PICK k : k = 2 + l
      OBVIOUS
    <3>2. k \in 2 .. Len(b) /\ k - 2 = l
      BY <1>1, <1>3, <3>1
    <3>3. /\ SubSeq(b, 3, k) \in Seq(Byte) /\ Len(SubSeq(b, 3, k)) = k - 2
          /\ \A j \in 1 .. k - 2 : SubSeq(b, 3, k)[j] = b[2 + j]
      <4>1. b \in Seq(Byte) /\ k \in Int /\ 2 <= k /\ k <= Len(b)
        BY <3>2
      <4>2. SubSeq(b, 3, k) \in Seq(Byte)
        BY <4>1
      <4>3. Len(SubSeq(b, 3, k)) = k - 2
        BY <4>1
      <4>4. \A j \in 1 .. k - 2 : SubSeq(b, 3, k)[j] = b[2 + j]
        BY <4>1
      <4> QED
        BY <4>2, <4>3, <4>4
    <3> HIDE DEF p
    <3> QED
      BY <2>1, <3>1, <3>2, <3>3
  <2> HIDE DEF p, s
  <2>3. ASSUME NEW j \in 1 .. l PROVE p[j] = ms[1][j]
    <3>1. 2 + j \in 1 .. Len(b) /\ 2 + j \in 1 .. 2 + l
      BY <1>1, <1>3
    <3>2. b[2 + j] = s[2 + j]
      BY <1>6, <3>1
    <3>3. s[2 + j] = Frame(ms[1])[2 + j]
      BY <1>2, <1>3, <3>1
    <3> QED
      BY <1>4, <2>2, <3>2, <3>3
  <2>4. Len(p) = Len(ms[1]) /\ \A j \in 1 .. Len(p) : p[j] = ms[1][j]
    BY <1>3, <2>2, <2>3
  <2> QED
    BY <1>4, <2>2, <2>4, SeqEqual
<1>8. /\ s2 \in Seq(Byte) /\ Len(s2) = Len(Cut(b)) + Len(w)
      /\ \A j \in 1 .. Len(Cut(b)) : s2[j] = Cut(b)[j]
      /\ \A j \in 1 .. Len(w) : s2[Len(Cut(b)) + j] = w[j]
  <2>1. Cut(b) \in Seq(Byte)
    BY <1>5
  <2> QED
    BY <2>1, Joined
<1> HIDE DEF s, s2, p
<1>9. Behind(s2, s, 2 + l)
  <2>1. Len(s2) = Len(s) - (2 + l) /\ Len(Cut(b)) \in Nat
    BY <1>5, <1>6, <1>8, <1>1
  <2>2. ASSUME NEW j \in 1 .. Len(s2) PROVE s2[j] = s[2 + l + j]
    <3>1. CASE j <= Len(Cut(b))
      <4>1. j \in 1 .. Len(Cut(b)) /\ 2 + l + j \in 1 .. Len(b)
        BY <1>1, <1>5, <2>1, <3>1
      <4> QED
        BY <1>5, <1>6, <1>8, <4>1
    <3>2. CASE ~ (j <= Len(Cut(b)))
      <4> DEFINE i == j - Len(Cut(b))
      <4>1. j \in Int
        OBVIOUS
      <4>2. i \in 1 .. Len(w)
        BY <1>6, <1>8, <2>1, <3>2, <4>1
      <4>3. j = Len(Cut(b)) + i
        BY <2>1, <4>1
      <4>4. 2 + l + j = Len(b) + i
        BY <1>1, <1>5, <2>1, <4>1
      <4> HIDE DEF i
      <4>5. s2[j] = w[i]
        BY <1>8, <4>2, <4>3
      <4>6. s[2 + l + j] = w[i]
        BY <1>6, <4>2, <4>4
      <4> QED
        BY <4>5, <4>6
    <3> QED
      BY <3>1, <3>2
  <2> QED
    BY <2>1, <2>2 DEF Behind
<1>10. Framed(s2, Tail(ms))
  <2>1. Framed(s, ms)
    BY DEF s
  <2> QED
    BY <1>2, <1>3, <1>6, <1>8, <1>9, <2>1, FramedTail
<1> QED
  BY <1>2, <1>7, <1>10 DEF s2, p

First(ms, k) == [i \in 1 .. k |-> ms[i]]
Rest(ms, k)  == [i \in 1 .. Len(ms) - k |-> ms[k + i]]

\* What get_packets gives for buffer b when w is still on the wire: the first
\* k payloads of the stream, and no whole packet in the rest.
Split(b, w, ms, k) ==
    /\ GetPackets[b].packets = First(ms, k)
    /\ GetPackets[b].rest \in Seq(Byte)
    /\ ~ HasPacket(GetPackets[b].rest)
    /\ Framed(GetPackets[b].rest \o w, Rest(ms, k))

\* A buffer without a whole packet is split into nothing and itself.
LEMMA SplitNone ==
    ASSUME NEW b \in Seq(Byte), NEW w \in Seq(Byte), NEW ms \in Seq(Sendable),
           Framed(b \o w, ms), ~ HasPacket(b)
    PROVE  Split(b, w, ms, 0)
<1>1. GetPackets[b] = [packets |-> <<>>, rest |-> b]
  BY GetPacketsDef DEF Round
<1>2. First(ms, 0) = <<>>
  BY DEF First
<1>3. Rest(ms, 0) = ms
  <2>1. Rest(ms, 0) = [i \in 1 .. Len(ms) |-> ms[i]]
    BY DEF Rest
  <2> QED
    BY <2>1
<1> QED
  BY <1>1, <1>2, <1>3 DEF Split

\* One more packet before those of the rest.
LEMMA SplitMore ==
    ASSUME NEW b \in Seq(Byte), NEW w \in Seq(Byte), NEW ms \in Seq(Sendable),
           Framed(b \o w, ms), HasPacket(b),
           NEW k \in 0 .. Len(Tail(ms)), Split(Cut(b), w, Tail(ms), k)
    PROVE  k + 1 \in 0 .. Len(ms) /\ Split(b, w, ms, k + 1)
<1> DEFINE t == GetPackets[Cut(b)]
           ls == Tail(ms)
<1>1. Len(ms) >= 1 /\ SubSeq(b, 3, 2 + PacketLen(b)) = ms[1]
  BY RoundStep
<1>2. GetPackets[b] = [packets |-> <<ms[1]>> \o t.packets, rest |-> t.rest]
  BY <1>1, GetPacketsDef DEF Round
<1>3. /\ t.packets = First(ls, k) /\ t.rest \in Seq(Byte)
      /\ ~ HasPacket(t.rest) /\ Framed(t.rest \o w, Rest(ls, k))
  BY DEF Split
<1>4. /\ Len(ms) \in Nat /\ Len(ls) = Len(ms) - 1
      /\ \A i \in 1 .. Len(ms) - 1 : ls[i] = ms[i + 1]
      /\ k \in Nat /\ k <= Len(ms) - 1
  BY <1>1
<1> HIDE DEF t, ls
<1>5. <<ms[1]>> \o First(ls, k) = First(ms, k + 1)
  <2>1. First(ls, k) = [i \in 1 .. k |-> ms[i + 1]]
    BY <1>4 DEF First
  <2>2. <<ms[1]>> \o [i \in 1 .. k |-> ms[i + 1]] = [i \in 1 .. k + 1 |-> ms[i]]
    BY <1>4
  <2> QED
    BY <2>1, <2>2 DEF First
<1>6. Rest(ls, k) = Rest(ms, k + 1)
  <2>1. ASSUME NEW i \in 1 .. Len(ls) - k PROVE ls[k + i] = ms[(k + 1) + i]
    <3>1. k + i \in 1 .. Len(ms) - 1 /\ (k + i) + 1 = (k + 1) + i
      BY <1>4
    <3> QED
      BY <1>4, <3>1
  <2>2. Len(ls) - k = Len(ms) - (k + 1)
    BY <1>4
  <2> QED
    BY <2>1, <2>2 DEF Rest
<1>7. k + 1 \in 0 .. Len(ms)
  BY <1>4
<1>8. PICK r : r = GetPackets[b]
  OBVIOUS
<1>9. r.packets = First(ms, k + 1) /\ r.rest = t.rest
  <2>1. PICK a, c : a = <<ms[1]>> \o t.packets /\ c = t.rest
    OBVIOUS
  <2>2. r = [packets |-> a, rest |-> c]
    BY Zenon, <1>2, <1>8, <2>1
  <2>3. r.packets = a /\ r.rest = c
    BY <2>2
  <2>4. a = First(ms, k + 1)
    BY Zenon, <1>3, <1>5, <2>1
  <2> QED
    BY Zenon, <2>1, <2>3, <2>4
<1>10. /\ r.rest \in Seq(Byte) /\ ~ HasPacket(r.rest)
       /\ Framed(r.rest \o w, Rest(ms, k + 1))
  BY <1>3, <1>6, <1>9
<1> QED
  BY <1>7, <1>8, <1>9, <1>10 DEF Split

\* get_packets cuts the stream at the senders' frames.
LEMMA GetPacketsSplits ==
    ASSUME NEW b \in Seq(Byte), NEW w \in Seq(Byte), NEW ms \in Seq(Sendable),
           Framed(b \o w, ms)
    PROVE  \E k \in 0 .. Len(ms) : Split(b, w, ms, k)
<1> DEFINE P(c) == \A ls \in Seq(Sendable) :
                      Framed(c \o w, ls) => \E k \in 0 .. Len(ls) : Split(c, w, ls, k)
           S == {n \in Nat : \A c \in Short(n) : P(c)}
<1>1. ASSUME NEW c \in Seq(Byte), ~ HasPacket(c) PROVE P(c)
  <2> SUFFICES ASSUME NEW ls \in Seq(Sendable), Framed(c \o w, ls)
               PROVE  \E k \in 0 .. Len(ls) : Split(c, w, ls, k)
    OBVIOUS
  <2>1. Split(c, w, ls, 0) /\ 0 \in 0 .. Len(ls)
    BY <1>1, SplitNone
  <2> QED
    BY <2>1
<1>2. 0 \in S
  <2>1. ASSUME NEW c \in Short(0) PROVE P(c)
    <3>1. c \in Seq(Byte) /\ ~ HasPacket(c)
      BY DEF Short, HasPacket
    <3> HIDE DEF P
    <3> QED
      BY <1>1, <3>1
  <2> QED
    BY <2>1
<1>3. ASSUME NEW n \in Nat, n \in S PROVE n + 1 \in S
  <2>1. ASSUME NEW c \in Short(n + 1), HasPacket(c) PROVE P(c)
    <3> SUFFICES ASSUME NEW ls \in Seq(Sendable), Framed(c \o w, ls)
                 PROVE  \E k \in 0 .. Len(ls) : Split(c, w, ls, k)
      OBVIOUS
    <3>1. c \in Seq(Byte) /\ Cut(c) \in Short(n)
      BY <2>1, ShortCut DEF Short
    <3>2. Len(ls) >= 1 /\ Framed(Cut(c) \o w, Tail(ls))
      BY <2>1, <3>1, RoundStep
    <3>3. Tail(ls) \in Seq(Sendable)
      BY <3>2
    <3>4. PICK k \in 0 .. Len(Tail(ls)) : Split(Cut(c), w, Tail(ls), k)
      BY <1>3, <3>1, <3>2, <3>3
    <3>5. k + 1 \in 0 .. Len(ls) /\ Split(c, w, ls, k + 1)
      BY <2>1, <3>1, <3>4, SplitMore
    <3> QED
      BY <3>5
  <2>2. ASSUME NEW c \in Short(n + 1) PROVE P(c)
    <3> HIDE DEF P
    <3> QED
      BY <1>1, <2>1 DEF Short
  <2> HIDE DEF P
  <2> QED
    BY <2>2
<1> HIDE DEF S, P
<1>4. Nat \subseteq S
  BY <1>2, <1>3, NatSet
<1>5. P(b)
  <2>1. Len(b) \in S /\ b \in Short(Len(b))
    BY <1>4 DEF Short
  <2> QED
    BY <2>1 DEF S
<1> QED
  BY <1>5 DEF P

-----------------------------------------------------------------------------
(* The connection. *)

IInv == TypeOK /\ StreamInv

\* Joining is associative.
LEMMA JoinAssoc ==
    ASSUME NEW x \in Seq(Byte), NEW y \in Seq(Byte), NEW z \in Seq(Byte)
    PROVE  (x \o y) \o z = x \o (y \o z)
OBVIOUS

\* A segment and what stays on the wire are the wire.
LEMMA WireCut ==
    ASSUME NEW x \in Seq(Byte), NEW n \in 1 .. Len(x)
    PROVE  /\ SubSeq(x, 1, n) \in Seq(Byte) /\ SubSeq(x, n + 1, Len(x)) \in Seq(Byte)
           /\ SubSeq(x, 1, n) \o SubSeq(x, n + 1, Len(x)) = x
<1> DEFINE y == SubSeq(x, 1, n)
           z == SubSeq(x, n + 1, Len(x))
<1>1. n \in Nat /\ n >= 1 /\ n <= Len(x) /\ Len(x) \in Nat
  OBVIOUS
<1>2. y \in Seq(Byte) /\ Len(y) = n /\ \A j \in 1 .. n : y[j] = x[j]
  BY <1>1
<1>3. /\ z \in Seq(Byte) /\ Len(z) = Len(x) - n
      /\ \A j \in 1 .. Len(x) - n : z[j] = x[n + j]
  BY <1>1
<1> HIDE DEF y, z
<1>4. y \o z = x
  <2> DEFINE t == y \o z
  <2>1. /\ t \in Seq(Byte) /\ Len(t) = Len(x)
        /\ \A j \in 1 .. n : t[j] = y[j]
        /\ \A j \in 1 .. Len(x) - n : t[n + j] = z[j]
    <3>1. PICK u, v : u = y /\ v = z
      OBVIOUS
    <3>2. u \in Seq(Byte) /\ v \in Seq(Byte)
      BY <1>2, <1>3, <3>1
    <3>3. /\ u \o v \in Seq(Byte) /\ Len(u \o v) = Len(u) + Len(v)
          /\ \A j \in 1 .. Len(u) : (u \o v)[j] = u[j]
          /\ \A j \in 1 .. Len(v) : (u \o v)[Len(u) + j] = v[j]
      BY <3>2, Joined
    <3>4. t = u \o v
      BY <3>1
    <3> HIDE DEF t
    <3>5. Len(u) = n /\ Len(v) = Len(x) - n
      BY <1>2, <1>3, <3>1
    <3>6. t \in Seq(Byte) /\ Len(t) = Len(x)
      BY <1>1, <3>3, <3>4, <3>5
    <3>7. \A j \in 1 .. n : t[j] = u[j]
      BY <3>3, <3>4, <3>5
    <3>8. \A j \in 1 .. Len(x) - n : t[n + j] = v[j]
      BY <3>3, <3>4, <3>5
    <3> QED
      BY <3>1, <3>6, <3>7, <3>8
  <2> HIDE DEF t
  <2>2. ASSUME NEW j \in 1 .. Len(x) PROVE t[j] = x[j]
    <3>1. CASE j <= n
      <4>1. j \in 1 .. n
        BY <1>1, <3>1
      <4> QED
        BY <1>2, <2>1, <4>1
    <3>2. CASE ~ (j <= n)
      <4> DEFINE i == j - n
      <4>1. i \in 1 .. Len(x) - n /\ j = n + i
        BY <1>1, <3>2
      <4> HIDE DEF i
      <4> QED
        BY <1>3, <2>1, <4>1
    <3> QED
      BY <3>1, <3>2
  <2>3. t = x
    BY <2>1, <2>2
  <2> QED
    BY <2>3 DEF t
<1> QED
  BY <1>2, <1>3, <1>4 DEF y, z

\* What get_packets has not handed out yet can be framed.
LEMMA UnreadType ==
    ASSUME IInv
    PROVE  Unread \in Seq(Sendable) /\ Len(Unread) = Len(sent) - Len(ready)
<1>1. /\ Len(sent) \in Nat /\ Len(ready) \in Nat /\ Len(ready) <= Len(sent)
      /\ \A i \in 1 .. Len(sent) : sent[i] \in Payload /\ Fits(sent[i])
  BY DEF IInv, TypeOK, StreamInv
<1>2. ASSUME NEW i \in 1 .. Len(sent) - Len(ready)
      PROVE  sent[Len(ready) + i] \in Sendable
  <2>1. Len(ready) + i \in 1 .. Len(sent)
    BY <1>1
  <2> QED
    BY <1>1, <2>1 DEF Sendable
<1> QED
  BY <1>1, <1>2 DEF Unread

\* The invariant holds at the start.
LEMMA InitInv == Init => IInv
<1> SUFFICES ASSUME Init PROVE IInv
  OBVIOUS
<1>1. /\ wire = <<>> /\ buffer = <<>> /\ ready = <<>> /\ sent = <<>> /\ got = None
      /\ Len(<<>>) = 0
  BY DEF Init
<1>2. TypeOK
  BY <1>1 DEF TypeOK
<1>3. Unread = <<>> /\ buffer \o wire = <<>>
  BY <1>1 DEF Unread
<1>4. ~ HasPacket(buffer)
  BY <1>1 DEF HasPacket
<1>5. StreamInv
  BY <1>1, <1>3, <1>4, FramedNothing DEF StreamInv
<1> QED
  BY <1>2, <1>5 DEF IInv

\* A send adds one frame to the stream.
LEMMA SendInv ==
    ASSUME IInv, NEW p \in Payload, Send(p)
    PROVE  IInv'
<1>1. /\ wire \in Seq(Byte) /\ buffer \in Seq(Byte)
      /\ ready \in Seq(Payload) /\ sent \in Seq(Payload)
      /\ Framed(buffer \o wire, Unread)
  BY DEF IInv, TypeOK, StreamInv
<1>2. CASE Fits(p)
  <2>1. /\ wire' = wire \o Frame(p) /\ sent' = Append(sent, p)
        /\ buffer' = buffer /\ ready' = ready /\ got' = got
    BY <1>2 DEF Send
  <2>2. p \in Sendable
    BY <1>2 DEF Sendable
  <2>3. Frame(p) \in Seq(Byte)
    BY <2>2, SendableType, FrameType
  <2>4. wire' \in Seq(Byte)
    BY <1>1, <2>1, <2>3, Joined
  <2>5. TypeOK'
    BY <1>1, <2>1, <2>4 DEF IInv, TypeOK
  <2>6. /\ Len(sent) \in Nat /\ Len(ready) \in Nat /\ Len(ready) <= Len(sent)
        /\ Len(sent') = Len(sent) + 1 /\ sent'[Len(sent) + 1] = p
        /\ \A i \in 1 .. Len(sent) : sent'[i] = sent[i]
    BY <1>1, <2>1 DEF IInv, StreamInv
  <2>7. Unread' = Append(Unread, p)
    <3> DEFINE n == Len(sent) - Len(ready)
    <3>1. n \in Nat /\ Len(sent') - Len(ready') = n + 1
      BY <2>1, <2>6
    <3>2. Unread' = [i \in 1 .. n + 1 |-> sent'[Len(ready) + i]]
      BY <2>1, <3>1 DEF Unread
    <3>3. Unread = [i \in 1 .. n |-> sent[Len(ready) + i]]
      BY DEF Unread
    <3> HIDE DEF n
    <3>4. Append(Unread, p) = [i \in 1 .. n + 1 |->
                                  IF i = n + 1 THEN p ELSE sent[Len(ready) + i]]
      BY <3>1, <3>3
    <3>5. ASSUME NEW i \in 1 .. n + 1
          PROVE  sent'[Len(ready) + i]
                   = IF i = n + 1 THEN p ELSE sent[Len(ready) + i]
      BY <2>6, <3>1 DEF n
    <3> QED
      BY <3>2, <3>4, <3>5
  <2>8. Framed((buffer \o wire) \o Frame(p), Append(Unread, p))
    BY <1>1, <2>2, Joined, UnreadType, FramedAppend
  <2>9. buffer' \o wire' = (buffer \o wire) \o Frame(p)
    BY <1>1, <2>1, <2>3, JoinAssoc
  <2>10. ASSUME NEW i \in 1 .. Len(sent') PROVE Fits(sent'[i])
    BY <1>2, <2>6 DEF IInv, StreamInv
  <2>11. /\ Len(ready') <= Len(sent')
         /\ \A i \in 1 .. Len(ready') : ready'[i] = sent'[i]
    BY <2>1, <2>6 DEF IInv, StreamInv
  <2>12. ~ HasPacket(buffer')
    BY <2>1 DEF IInv, StreamInv
  <2>13. StreamInv'
    BY <2>7, <2>8, <2>9, <2>10, <2>11, <2>12 DEF StreamInv
  <2> QED
    BY <2>5, <2>13 DEF IInv
<1>3. CASE ~ Fits(p)
  BY <1>3 DEF Send, IInv, TypeOK, StreamInv, Unread
<1> QED
  BY <1>2, <1>3

\* More of the history behind a prefix of it is a longer prefix.
LEMMA HandedOut ==
    ASSUME NEW r \in Seq(Payload), NEW f \in Seq(Payload), NEW s,
           \A i \in 1 .. Len(r) : r[i] = s[i],
           \A i \in 1 .. Len(f) : f[i] = s[Len(r) + i]
    PROVE  /\ r \o f \in Seq(Payload) /\ Len(r \o f) = Len(r) + Len(f)
           /\ \A i \in 1 .. Len(r \o f) : (r \o f)[i] = s[i]
<1> DEFINE t == r \o f
<1>1. /\ t \in Seq(Payload) /\ Len(t) = Len(r) + Len(f)
      /\ \A i \in 1 .. Len(r) : t[i] = r[i]
      /\ \A i \in 1 .. Len(f) : t[Len(r) + i] = f[i]
      /\ Len(r) \in Nat /\ Len(f) \in Nat
  OBVIOUS
<1> HIDE DEF t
<1>2. ASSUME NEW i \in 1 .. Len(t), ~ (i <= Len(r)) PROVE t[i] = s[i]
  <2> DEFINE j == i - Len(r)
  <2>1. j \in 1 .. Len(f) /\ i = Len(r) + j
    BY <1>1, <1>2
  <2> HIDE DEF j
  <2> QED
    BY <1>1, <2>1
<1>3. ASSUME NEW i \in 1 .. Len(t), i <= Len(r) PROVE t[i] = s[i]
  <2>1. i \in 1 .. Len(r)
    BY <1>1, <1>3
  <2> QED
    BY <1>1, <2>1
<1> QED
  BY <1>1, <1>2, <1>3 DEF t

\* A receive hands out the whole packets of the buffer.
LEMMA ReceiveInv ==
    ASSUME IInv, NEW n \in 1 .. Len(wire), Receive(n)
    PROVE  IInv'
<1> DEFINE seg == SubSeq(wire, 1, n)
           w == SubSeq(wire, n + 1, Len(wire))
           b == buffer \o seg
<1>1. /\ wire \in Seq(Byte) /\ buffer \in Seq(Byte)
      /\ ready \in Seq(Payload) /\ sent \in Seq(Payload)
      /\ Framed(buffer \o wire, Unread)
  BY DEF IInv, TypeOK, StreamInv
<1>2. /\ wire' = w /\ buffer' = GetPackets[b].rest
      /\ ready' = ready \o GetPackets[b].packets /\ sent' = sent /\ got' = got
  BY DEF Receive
<1>3. seg \in Seq(Byte) /\ w \in Seq(Byte) /\ seg \o w = wire
  BY <1>1, WireCut
<1> HIDE DEF seg, w
<1>4. b \in Seq(Byte) /\ b \o w = buffer \o wire
  BY <1>1, <1>3, Joined, JoinAssoc
<1> HIDE DEF b
<1>5. Unread \in Seq(Sendable) /\ Len(Unread) = Len(sent) - Len(ready)
  BY UnreadType
<1>6. PICK k \in 0 .. Len(Unread) : Split(b, w, Unread, k)
  BY <1>1, <1>3, <1>4, <1>5, GetPacketsSplits
<1>7. /\ buffer' \in Seq(Byte) /\ ~ HasPacket(buffer')
      /\ Framed(buffer' \o wire', Rest(Unread, k))
      /\ ready' = ready \o First(Unread, k)
  BY <1>2, <1>6 DEF Split
<1>8. /\ Len(sent) \in Nat /\ Len(ready) \in Nat /\ Len(ready) <= Len(sent)
      /\ k \in Nat /\ Len(ready) + k <= Len(sent)
      /\ \A i \in 1 .. Len(sent) - Len(ready) : Unread[i] = sent[Len(ready) + i]
  BY <1>1, <1>5, <1>6 DEF IInv, StreamInv, Unread
<1>9. /\ First(Unread, k) \in Seq(Payload) /\ Len(First(Unread, k)) = k
      /\ \A i \in 1 .. k : First(Unread, k)[i] = sent[Len(ready) + i]
  <2>1. ASSUME NEW i \in 1 .. k
        PROVE  Unread[i] \in Payload /\ Unread[i] = sent[Len(ready) + i]
    <3>1. i \in 1 .. Len(sent) - Len(ready) /\ i \in 1 .. Len(Unread)
      BY <1>5, <1>8
    <3>2. Unread[i] \in Sendable
      BY <1>5, <3>1
    <3> QED
      BY <1>8, <3>1, <3>2 DEF Sendable
  <2> QED
    BY <1>8, <2>1 DEF First
<1>10. /\ ready' \in Seq(Payload) /\ Len(ready') = Len(ready) + k
       /\ \A i \in 1 .. Len(ready') : ready'[i] = sent[i]
  <2>1. \A i \in 1 .. Len(ready) : ready[i] = sent[i]
    BY DEF IInv, StreamInv
  <2>2. ready \in Seq(Payload)
    BY <1>1
  <2>3. PICK f \in Seq(Payload) :
           /\ f = First(Unread, k) /\ Len(f) = k
           /\ \A i \in 1 .. Len(f) : f[i] = sent[Len(ready) + i]
    BY <1>9
  <2>4. /\ ready \o f \in Seq(Payload) /\ Len(ready \o f) = Len(ready) + Len(f)
        /\ \A i \in 1 .. Len(ready \o f) : (ready \o f)[i] = sent[i]
    BY <2>1, <2>2, <2>3, HandedOut
  <2> QED
    BY <1>7, <2>3, <2>4
<1>11. Unread' = Rest(Unread, k)
  <2>1. Unread' = [i \in 1 .. Len(sent) - (Len(ready) + k) |->
                      sent[(Len(ready) + k) + i]]
    BY <1>2, <1>10 DEF Unread
  <2>2. Rest(Unread, k) = [i \in 1 .. (Len(sent) - Len(ready)) - k |-> Unread[k + i]]
    BY <1>5 DEF Rest
  <2>3. (Len(sent) - Len(ready)) - k = Len(sent) - (Len(ready) + k)
    BY <1>8
  <2>4. ASSUME NEW i \in 1 .. Len(sent) - (Len(ready) + k)
        PROVE  Unread[k + i] = sent[(Len(ready) + k) + i]
    <3>1. /\ k + i \in 1 .. Len(sent) - Len(ready)
          /\ Len(ready) + (k + i) = (Len(ready) + k) + i
      BY <1>8
    <3> QED
      BY <1>8, <3>1
  <2> QED
    BY <2>1, <2>2, <2>3, <2>4
<1>12. TypeOK'
  BY <1>1, <1>2, <1>3, <1>7, <1>10 DEF IInv, TypeOK
<1>13. StreamInv'
  <2>1. \A i \in 1 .. Len(sent') : Fits(sent'[i])
    BY <1>2 DEF IInv, StreamInv
  <2>2. /\ Len(ready') <= Len(sent')
        /\ \A i \in 1 .. Len(ready') : ready'[i] = sent'[i]
    BY <1>2, <1>8, <1>10
  <2> QED
    BY <1>7, <1>11, <2>1, <2>2 DEF StreamInv
<1> QED
  BY <1>12, <1>13 DEF IInv

\* Taking the next packet keeps the invariant, and it is the one sent first.
LEMMA TakeInv ==
    ASSUME IInv, Take
    PROVE  IInv' /\ sent # <<>> /\ got' = Head(sent)
<1>1. /\ ready # <<>> /\ got' = Head(ready) /\ ready' = Tail(ready)
      /\ sent' = Tail(sent) /\ wire' = wire /\ buffer' = buffer
  BY DEF Take
<1>2. /\ ready \in Seq(Payload) /\ sent \in Seq(Payload)
      /\ Len(ready) <= Len(sent)
      /\ \A i \in 1 .. Len(ready) : ready[i] = sent[i]
      /\ \A i \in 1 .. Len(sent) : Fits(sent[i])
  BY DEF IInv, TypeOK, StreamInv
<1>3. /\ Len(ready) \in Nat /\ Len(ready) >= 1
      /\ Len(sent) \in Nat /\ Len(sent) >= 1 /\ sent # <<>>
      /\ Head(ready) = ready[1] /\ Head(sent) = sent[1]
  BY <1>1, <1>2
<1>4. got' = Head(sent) /\ got' \in Payload
  BY <1>1, <1>2, <1>3
<1>5. /\ ready' \in Seq(Payload) /\ sent' \in Seq(Payload)
      /\ Len(ready') = Len(ready) - 1 /\ Len(sent') = Len(sent) - 1
      /\ \A i \in 1 .. Len(ready) - 1 : ready'[i] = ready[i + 1]
      /\ \A i \in 1 .. Len(sent) - 1 : sent'[i] = sent[i + 1]
  BY <1>1, <1>2, <1>3
<1>6. TypeOK'
  BY <1>1, <1>4, <1>5 DEF IInv, TypeOK
<1>7. Unread' = Unread
  <2>1. Len(sent') - Len(ready') = Len(sent) - Len(ready)
    BY <1>3, <1>5
  <2>2. ASSUME NEW i \in 1 .. Len(sent) - Len(ready)
        PROVE  sent'[Len(ready') + i] = sent[Len(ready) + i]
    <3>1. /\ Len(ready') + i \in 1 .. Len(sent) - 1
          /\ (Len(ready') + i) + 1 = Len(ready) + i
      BY <1>2, <1>3, <1>5
    <3> QED
      BY <1>5, <3>1
  <2> QED
    BY <2>1, <2>2 DEF Unread
<1>8. StreamInv'
  <2>1. ASSUME NEW i \in 1 .. Len(sent') PROVE Fits(sent'[i])
    <3>1. i \in 1 .. Len(sent) - 1 /\ i + 1 \in 1 .. Len(sent)
      BY <1>3, <1>5
    <3> QED
      BY <1>2, <1>5, <3>1
  <2>2. ASSUME NEW i \in 1 .. Len(ready') PROVE ready'[i] = sent'[i]
    <3>1. /\ i \in 1 .. Len(ready) - 1 /\ i \in 1 .. Len(sent) - 1
          /\ i + 1 \in 1 .. Len(ready)
      BY <1>2, <1>3, <1>5
    <3> QED
      BY <1>2, <1>5, <3>1
  <2>3. Len(ready') <= Len(sent')
    BY <1>2, <1>3, <1>5
  <2> QED
    BY <1>1, <1>7, <2>1, <2>2, <2>3 DEF IInv, StreamInv
<1> QED
  BY <1>3, <1>4, <1>6, <1>8 DEF IInv

\* A disconnect starts over.
LEMMA DisconnectInv ==
    ASSUME IInv, Disconnect
    PROVE  IInv'
<1>1. /\ wire' = <<>> /\ buffer' = <<>> /\ ready' = <<>> /\ sent' = <<>>
      /\ got' = got /\ Len(<<>>) = 0
  BY DEF Disconnect
<1>2. TypeOK'
  BY <1>1 DEF IInv, TypeOK
<1>3. Unread' = <<>> /\ buffer' \o wire' = <<>>
  BY <1>1 DEF Unread
<1>4. ~ HasPacket(buffer')
  BY <1>1 DEF HasPacket
<1>5. StreamInv'
  BY <1>1, <1>3, <1>4, FramedNothing DEF StreamInv
<1> QED
  BY <1>2, <1>5 DEF IInv

\* It holds always.
LEMMA SpecInv == Spec => []IInv
<1>1. Init => IInv
  BY InitInv
<1>2. IInv /\ [Next]_vars => IInv'
  <2> SUFFICES ASSUME IInv, [Next]_vars PROVE IInv'
    OBVIOUS
  <2>1. CASE UNCHANGED vars
    BY <2>1 DEF vars, IInv, TypeOK, StreamInv, Unread
  <2>2. CASE ReceiveSome
    BY <2>2, ReceiveInv DEF ReceiveSome
  <2> QED
    BY <2>1, <2>2, SendInv, TakeInv, DisconnectInv DEF Next
<1> QED
  BY <1>1, <1>2, PTL DEF Spec

-----------------------------------------------------------------------------
(* The theorems. *)

\* Bytes stay digits, and the buffer hands out nothing but payloads.
THEOREM StreamTypeCorrect == Spec => []TypeOK
<1>1. IInv => TypeOK
  BY DEF IInv
<1> QED
  BY <1>1, SpecInv, PTL

\* However the stream was cut into segments, get_packets leaves no complete
\* packet behind: the buffer is a proper prefix of the next frame.
THEOREM NoPacketHeld == Spec => []NoHeldPacket
<1>1. IInv => NoHeldPacket
  <2> SUFFICES ASSUME IInv PROVE NoHeldPacket
    OBVIOUS
  <2>1. ~ HasPacket(buffer)
    BY DEF IInv, StreamInv
  <2>2. ASSUME buffer # <<>>
        PROVE  /\ Len(ready) < Len(sent)
               /\ LET next == Frame(sent[Len(ready) + 1])
                  IN  /\ Len(buffer) < Len(next)
                      /\ buffer = SubSeq(next, 1, Len(buffer))
    <3> DEFINE s == buffer \o wire
    <3>1. /\ buffer \in Seq(Byte) /\ wire \in Seq(Byte)
          /\ Framed(s, Unread) /\ Len(sent) \in Nat /\ Len(ready) \in Nat
      BY DEF IInv, TypeOK, StreamInv
    <3>2. Unread \in Seq(Sendable) /\ Len(Unread) = Len(sent) - Len(ready)
      BY UnreadType
    <3>3. /\ s \in Seq(Byte) /\ Len(s) = Len(buffer) + Len(wire)
          /\ \A j \in 1 .. Len(buffer) : s[j] = buffer[j]
          /\ Len(buffer) \in Nat /\ Len(wire) \in Nat /\ Len(buffer) >= 1
      BY <2>2, <3>1, Joined
    <3>4. Len(Unread) >= 1
      <4>1. SUFFICES ASSUME Len(Unread) = 0 PROVE FALSE
        BY <3>2
      <4> HIDE DEF s
      <4>2. Len(s) = 0
        BY <3>1, <3>3, <4>1, FramedEmpty
      <4> QED
        BY <3>3, <4>2
    <3>5. PICK m \in Sendable : m = Unread[1] /\ m = sent[Len(ready) + 1]
      <4>1. Unread[1] \in Sendable
        BY <3>2, <3>4
      <4>2. Unread[1] = sent[Len(ready) + 1]
        <5>1. 1 \in 1 .. Len(sent) - Len(ready)
          BY <3>1, <3>2, <3>4
        <5> QED
          BY <5>1 DEF Unread
      <4> QED
        BY <4>1, <4>2
    <3>6. /\ Len(s) >= 2 + Len(m)
          /\ \A j \in 1 .. 2 + Len(m) : s[j] = Frame(m)[j]
      <4> HIDE DEF s
      <4>1. /\ Len(s) >= 2 + Len(Unread[1])
            /\ \A j \in 1 .. 2 + Len(Unread[1]) : s[j] = Frame(Unread[1])[j]
        BY <3>1, <3>2, <3>3, <3>4, FramedHead
      <4> QED
        BY <3>5, <4>1
    <3>7. /\ Frame(m) \in Seq(Byte) /\ Len(Frame(m)) = 2 + Len(m) /\ Len(m) \in Nat
      BY SendableType, FrameType
    <3>8. Len(buffer) < Len(Frame(m))
      <4>1. SUFFICES ASSUME Len(buffer) >= 2 + Len(m) PROVE FALSE
        BY <3>3, <3>7
      <4>2. Len(buffer) >= 2
        BY <3>3, <3>7, <4>1
      <4>3. PacketLen(buffer) = Len(Unread[1])
        BY <3>1, <3>2, <4>2, BufferPrefix
      <4> QED
        BY <2>1, <3>5, <4>1, <4>2, <4>3 DEF HasPacket
    <3>9. buffer = SubSeq(Frame(m), 1, Len(buffer))
      <4> DEFINE x == SubSeq(Frame(m), 1, Len(buffer))
      <4>1. /\ x \in Seq(Byte) /\ Len(x) = Len(buffer)
            /\ \A j \in 1 .. Len(buffer) : x[j] = Frame(m)[j]
        BY <3>3, <3>7, <3>8
      <4> HIDE DEF x, s
      <4>2. ASSUME NEW j \in 1 .. Len(buffer) PROVE x[j] = buffer[j]
        <5>1. j \in 1 .. 2 + Len(m)
          BY <3>3, <3>7, <3>8
        <5> QED
          BY <3>3, <3>6, <4>1, <5>1
      <4>3. buffer = x
        BY <3>1, <4>1, <4>2
      <4> QED
        BY <4>3 DEF x
    <3> QED
      BY <3>1, <3>2, <3>4, <3>5, <3>8, <3>9
  <2> QED
    BY <2>1, <2>2 DEF NoHeldPacket
<1> QED
  BY <1>1, SpecInv, PTL

\* The buffer and the wire together are the frames of what was sent and not
\* read, in order, and what is ready is what was sent before that.
THEOREM StreamInvariant == Spec => []StreamInv
<1>1. IInv => StreamInv
  BY DEF IInv
<1> QED
  BY <1>1, SpecInv, PTL

\* Payloads reach the codec unchanged, once and in order, wherever TCP cut the
\* stream and whatever the payloads look like.
THEOREM StreamRefines == Spec => Link!Spec
<1>1. Init => Link!Init
  BY DEF Init, Link!Init
<1>2. IInv /\ [Next]_vars => [Link!Next]_(Link!vars)
  <2> SUFFICES ASSUME IInv, [Next]_vars PROVE [Link!Next]_(Link!vars)
    OBVIOUS
  <2> USE DEF Link!Next, Link!vars
  <2>1. ASSUME NEW p \in Payload, Send(p)
        PROVE  Link!Accept(p) \/ UNCHANGED Link!vars
    BY <2>1 DEF Send, Link!Accept
  <2>2. ASSUME ReceiveSome PROVE UNCHANGED Link!vars
    BY <2>2 DEF ReceiveSome, Receive
  <2>3. ASSUME Take PROVE Link!Deliver
    <3>1. sent # <<>> /\ got' = Head(sent)
      BY <2>3, TakeInv
    <3> QED
      BY <2>3, <3>1 DEF Take, Link!Deliver
  <2>4. ASSUME Disconnect PROVE Link!Lose
    BY <2>4 DEF Disconnect, Link!Lose
  <2>5. CASE UNCHANGED vars
    BY <2>5 DEF vars
  <2> QED
    BY <2>1, <2>2, <2>3, <2>4, <2>5 DEF Next
<1> QED
  BY <1>1, <1>2, SpecInv, PTL DEF Spec, Link!Spec

=============================================================================
