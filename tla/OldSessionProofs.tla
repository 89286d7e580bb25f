-------------------------- MODULE OldSessionProofs --------------------------
(***************************************************************************)
(* The codecs of older peers keep the two cipher states in step and        *)
(* implement a bundle channel, for every key, message, packet limit and    *)
(* iterator width.  GEN_3 does so only for hosts whose bundles fit:        *)
(* Gen3Codec has advanced its LCG by the time it drops one that does not.  *)
(***************************************************************************)
EXTENDS OldSession, WellFoundedInduction, TLAPS

\* Every bundle a host sends over GEN_3 fits in a packet.
Gen3Fit == \A m \in Gen3Message : Fits(m)

-----------------------------------------------------------------------------
(* Induction without an operator parameter.                                *)

\* Induction over a set: a set of naturals that holds 0 and is closed under
\* the successor is all of Nat.
LEMMA NatSet ==
    ASSUME NEW S, 0 \in S, \A n \in Nat : n \in S => n + 1 \in S
    PROVE  Nat \subseteq S
<1> DEFINE R == {ss \in Nat \X Nat : ss[1] < ss[2]}
           T == Nat \ S
<1>1. SUFFICES ASSUME T # {} PROVE FALSE
  BY DEF T
<1>2. IsWellFoundedOn(R, Nat)
  BY NatLessThanWellFounded, Zenon DEF OpToRel
<1>3. T \subseteq Nat
  BY DEF T
<1> HIDE DEF T, R
<1>4. PICK x \in T : \A y \in T : ~ (<<y, x>> \in R)
  BY <1>1, <1>2, <1>3, WFMin
<1>5. x \in Nat /\ x # 0 /\ x - 1 \in Nat
  BY <1>3 DEF T
<1>6. x - 1 \in S => FALSE
  BY <1>5 DEF T
<1>7. x - 1 \in T
  BY <1>5, <1>6 DEF T
<1>8. <<x - 1, x>> \in R
  BY <1>5 DEF R
<1> QED
  BY <1>4, <1>7, <1>8

-----------------------------------------------------------------------------
(* The cipher's operators.  The iterator is a recursive function, so its    *)
(* facts need induction.                                                    *)

\* One advance stays in the range of the masked iterator.
LEMMA AdvanceType ==
    ASSUME NEW key \in Nat, NEW w \in Word
    PROVE  Advance(key, w) \in Word
<1>1. w * Multiplier + key \in Nat
  BY CipherAssumption DEF Word
<1> QED
  BY <1>1, CipherAssumption DEF Advance, Word

\* g is the table of the iterator's first N advances.
Table(g, N, key, it) ==
    /\ g \in [0 .. N -> Word]
    /\ g[0] = it
    /\ \A n \in 1 .. N : g[n] = Advance(key, g[n - 1])

\* There is a table of every length.
LEMMA TableExists ==
    ASSUME NEW key \in Nat, NEW it \in Word
    PROVE  \A N \in Nat : \E g : Table(g, N, key, it)
<1> DEFINE S == {N \in Nat : \E g : Table(g, N, key, it)}
<1>1. 0 \in S
  BY Table([n \in 0 .. 0 |-> it], 0, key, it) DEF Table
<1>2. ASSUME NEW N \in Nat, N \in S PROVE N + 1 \in S
  <2>1. PICK g : Table(g, N, key, it)
    BY <1>2
  <2> DEFINE h == [n \in 0 .. N + 1 |-> IF n = N + 1 THEN Advance(key, g[N])
                                                    ELSE g[n]]
  <2>2. g[N] \in Word
    BY <2>1 DEF Table
  <2>3. Advance(key, g[N]) \in Word
    BY <2>2, AdvanceType
  <2>4. h \in [0 .. N + 1 -> Word]
    BY <2>1, <2>3 DEF Table
  <2>5. h[0] = it
    BY <2>1 DEF Table
  <2>6. ASSUME NEW n \in 1 .. N + 1 PROVE h[n] = Advance(key, h[n - 1])
    BY <2>1 DEF Table
  <2>7. Table(h, N + 1, key, it)
    <3> HIDE DEF h
    <3> QED
      BY <2>4, <2>5, <2>6 DEF Table
  <2> QED
    BY <2>7
<1> HIDE DEF S
<1>3. Nat \subseteq S
  BY <1>1, <1>2, NatSet
<1> QED
  BY <1>3 DEF S

\* Two tables agree wherever both are defined.
LEMMA TableUnique ==
    ASSUME NEW key \in Nat, NEW it \in Word, NEW N \in Nat, NEW M \in Nat,
           NEW g, Table(g, N, key, it), NEW h, Table(h, M, key, it)
    PROVE  \A n \in Nat : n <= N /\ n <= M => g[n] = h[n]
<1> DEFINE S == {n \in Nat : n <= N /\ n <= M => g[n] = h[n]}
<1>1. 0 \in S
  BY DEF Table
<1>2. ASSUME NEW n \in Nat, n \in S PROVE n + 1 \in S
  <2>1. SUFFICES ASSUME n + 1 <= N, n + 1 <= M PROVE g[n + 1] = h[n + 1]
    BY DEF S
  <2>2. g[n] = h[n]
    BY <1>2, <2>1
  <2>3. n + 1 \in 1 .. N /\ n + 1 \in 1 .. M /\ (n + 1) - 1 = n
    BY <2>1
  <2> QED
    BY <2>2, <2>3 DEF Table
<1> HIDE DEF S
<1>3. Nat \subseteq S
  BY <1>1, <1>2, NatSet
<1> QED
  BY <1>3 DEF S

\* The recursive definition of Lcg defines a function, and its values are
\* iterators.
LEMMA LcgType ==
    ASSUME NEW key \in Nat, NEW it \in Word
    PROVE  /\ Lcg(key, it) \in [Nat -> Word]
           /\ \A n \in Nat : Lcg(key, it)[n] =
                IF n = 0 THEN it ELSE Advance(key, Lcg(key, it)[n - 1])
<1> DEFINE T(n) == CHOOSE g : Table(g, n, key, it)
           f == [n \in Nat |-> T(n)[n]]
           Rec(F) == [n \in Nat |-> IF n = 0 THEN it ELSE Advance(key, F[n - 1])]
<1>1. \A n \in Nat : Table(T(n), n, key, it)
  BY TableExists
<1> HIDE DEF T
<1>2. f \in [Nat -> Word]
  <2>1. ASSUME NEW n \in Nat PROVE T(n)[n] \in Word
    BY <1>1 DEF Table
  <2> QED
    BY <2>1
<1>3. ASSUME NEW n \in Nat
      PROVE  f[n] = IF n = 0 THEN it ELSE Advance(key, f[n - 1])
  <2>1. CASE n = 0
    BY <1>1, <2>1 DEF Table
  <2>2. CASE n # 0
    <3>1. n - 1 \in Nat /\ n \in 1 .. n
      BY <2>2
    <3>2. T(n)[n] = Advance(key, T(n)[n - 1])
      BY <1>1, <3>1 DEF Table
    <3>3. T(n)[n - 1] = T(n - 1)[n - 1]
      BY <1>1, <3>1, TableUnique
    <3> QED
      BY <2>2, <3>1, <3>2, <3>3
  <2> QED
    BY <2>1, <2>2
<1>4. f = Rec(f)
  BY <1>2, <1>3
<1> DEFINE L == CHOOSE F : F = Rec(F)
<1> HIDE DEF f
<1>5. L = Rec(L)
  BY <1>4
<1>6. Lcg(key, it) = L
  BY DEF Lcg
<1> HIDE DEF L
<1>7. \A n \in Nat : L[n] = IF n = 0 THEN it ELSE Advance(key, L[n - 1])
  BY <1>5
<1>8. DOMAIN L = Nat
  BY <1>5
<1> DEFINE S == {n \in Nat : L[n] \in Word}
<1>9. Nat \subseteq S
  <2>1. 0 \in S
    BY <1>7
  <2>2. ASSUME NEW n \in Nat, n \in S PROVE n + 1 \in S
    <3>1. L[n + 1] = Advance(key, L[n])
      BY <1>7
    <3> QED
      BY <2>2, <3>1, AdvanceType
  <2> HIDE DEF S
  <2> QED
    BY <2>1, <2>2, NatSet
<1>10. L \in [Nat -> Word]
  BY <1>5, <1>9
<1> QED
  BY <1>6, <1>7, <1>10

\* Every entry of the key set is a number a codec can hold.
LEMMA KeyNat == Key \subseteq Nat
BY CipherAssumption

\* reset leaves a codec behind.
LEMMA ResetType ==
    ASSUME NEW key \in Nat
    PROVE  Reset(key) \in Codec
BY CipherAssumption DEF Reset, Codec

\* limit_from_type touches nothing but the limit.
LEMMA LimitType ==
    ASSUME NEW codec \in Codec, NEW t
    PROVE  /\ LimitFromType(codec, t) \in Codec
           /\ LimitFromType(codec, t).key = codec.key
           /\ LimitFromType(codec, t).iterator = codec.iterator
           /\ t \in CompressionType => LimitFromType(codec, t).limit = LimitOf[t]
<1>1. t \in CompressionType => LimitOf[t] \in Int
  BY CipherAssumption
<1> QED
  BY <1>1 DEF LimitFromType, Codec

\* The number of encrypted blocks is a prefix length of the body.
LEMMA EncryptedType ==
    ASSUME NEW codec \in Codec, NEW body \in Seq(Block)
    PROVE  Encrypted(codec, body) \in 0 .. Len(body)
<1>1. Len(body) \in Nat /\ codec.limit \in Int
  BY DEF Codec
<1> QED
  BY <1>1 DEF Encrypted

\* encrypt keeps the length of the data and the type of every block.
LEMMA CryptDataType ==
    ASSUME NEW codec \in Codec, NEW body \in Seq(Block)
    PROVE  /\ CryptData(codec, body) \in Seq(Block)
           /\ Len(CryptData(codec, body)) = Len(body)
<1>1. Lcg(codec.key, codec.iterator) \in [Nat -> Word]
  BY LcgType DEF Codec
<1> DEFINE L == Lcg(codec.key, codec.iterator)
           n == Encrypted(codec, body)
           data == [i \in 1 .. Len(body) |-> IF i <= n THEN Xor(body[i], L[i])
                                                       ELSE body[i]]
<1>2. \A i \in 1 .. Len(body) : L[i] \in Word /\ body[i] \in Block
  BY <1>1
<1> HIDE DEF L, n
<1>3. \A i \in 1 .. Len(body) : data[i] \in Block
  BY <1>2, CipherAssumption
<1>4. data \in [1 .. Len(body) -> Block]
  BY <1>3
<1>5. Len(body) \in Nat
  OBVIOUS
<1>6. data \in Seq(Block) /\ Len(data) = Len(body)
  BY <1>4, <1>5
<1> QED
  BY <1>6 DEF CryptData, L, n

\* encrypt leaves a codec of the same key behind.
LEMMA CryptStateType ==
    ASSUME NEW codec \in Codec, NEW body \in Seq(Block)
    PROVE  /\ CryptState(codec, body) \in Codec
           /\ CryptState(codec, body).key = codec.key
<1>1. Lcg(codec.key, codec.iterator) \in [Nat -> Word]
  BY LcgType DEF Codec
<1>2. Encrypted(codec, body) \in Nat
  BY EncryptedType
<1>3. Lcg(codec.key, codec.iterator)[Encrypted(codec, body)] \in Word
  BY <1>1, <1>2
<1>4. (IF codec.limit > 0 THEN codec.limit - Encrypted(codec, body)
                          ELSE codec.limit) \in Int
  BY <1>2 DEF Codec
<1> QED
  BY <1>3, <1>4 DEF CryptState, Codec

\* The symmetry decrypt relies on: from the same key, iterator and limit,
\* encrypting twice restores the data and moves the iterator as far.
LEMMA CryptInverse ==
    ASSUME NEW c1 \in Codec, NEW c2 \in Codec, NEW body \in Seq(Block),
           c1.key = c2.key, c1.iterator = c2.iterator, c1.limit = c2.limit
    PROVE  /\ CryptData(c2, CryptData(c1, body)) = body
           /\ CryptState(c2, CryptData(c1, body)).iterator
                = CryptState(c1, body).iterator
<1> DEFINE L == Lcg(c1.key, c1.iterator)
           n == Encrypted(c1, body)
           enc == CryptData(c1, body)
<1>1. enc \in Seq(Block) /\ Len(enc) = Len(body)
  BY CryptDataType
<1>2. Encrypted(c2, enc) = n
  BY <1>1 DEF Encrypted
<1>3. L \in [Nat -> Word]
  BY LcgType DEF Codec
<1>4. ASSUME NEW i \in 1 .. Len(body)
      PROVE  CryptData(c2, enc)[i] = body[i]
  <2>1. enc[i] = IF i <= n THEN Xor(body[i], L[i]) ELSE body[i]
    BY DEF CryptData
  <2>2. CryptData(c2, enc)[i] = IF i <= n THEN Xor(enc[i], L[i]) ELSE enc[i]
    BY <1>1, <1>2 DEF CryptData
  <2>3. L[i] \in Word /\ body[i] \in Block
    BY <1>3
  <2> HIDE DEF L, n, enc
  <2> QED
    BY <2>1, <2>2, <2>3, CipherAssumption
<1>5. /\ CryptData(c2, enc) \in Seq(Block)
      /\ Len(CryptData(c2, enc)) = Len(body)
  BY <1>1, CryptDataType
<1>6. CryptData(c2, enc) = body
  <2> HIDE DEF enc
  <2> QED
    BY <1>4, <1>5
<1>7. CryptState(c2, enc).iterator = CryptState(c1, body).iterator
  BY <1>2 DEF CryptState, Codec
<1> QED
  BY <1>6, <1>7

\* A body of no blocks does not move the iterator.
LEMMA CryptNothing ==
    ASSUME NEW codec \in Codec
    PROVE  CryptState(codec, <<>>).iterator = codec.iterator
<1>1. Encrypted(codec, <<>>) = 0
  <2>1. Len(<<>>) = 0 /\ <<>> \in Seq(Block)
    OBVIOUS
  <2>2. codec.limit \in Int
    BY DEF Codec
  <2> QED
    BY <2>1, <2>2 DEF Encrypted
<1>2. Lcg(codec.key, codec.iterator)[0] = codec.iterator
  BY LcgType DEF Codec
<1> QED
  BY <1>1, <1>2 DEF CryptState, Codec

-----------------------------------------------------------------------------
(* One body. *)

\* The image of a message is a sequence of blocks, in every generation.
LEMMA ImageType ==
    ASSUME NEW m \in Message
    PROVE  /\ Raw[m] \in Seq(Block) /\ Packed[m] \in Seq(Block)
           /\ Packed[m] # <<>>
BY OldAssumption

\* A decompressed image is the message, and so are the raw bytes; the raw
\* bytes of a message are no image.
LEMMA FromImage ==
    ASSUME NEW m \in Message
    PROVE  /\ From(Packed, Packed[m]) = m
           /\ From(Raw, Raw[m]) = m
           /\ From(Packed, Raw[m]) = None
BY OldAssumption DEF From

\* What comes back from an image is a message or nothing.
LEMMA FromType ==
    ASSUME NEW image, NEW body
    PROVE  From(image, body) \in Message \cup {None}
BY DEF From

\* limit_from_type before every GEN_4 bundle.
LEMMA ArmedType ==
    ASSUME NEW codec \in Codec
    PROVE  /\ Armed(codec) \in Codec
           /\ Armed(codec).key = codec.key
           /\ Armed(codec).iterator = codec.iterator
           /\ Armed(codec).limit = LimitOf[BZ2]
BY LimitType DEF Armed, CompressionType

\* The iterator of a codec stays a word.
LEMMA SteppedType ==
    ASSUME NEW codec \in Codec
    PROVE  /\ Stepped(codec) \in Codec
           /\ Stepped(codec).key = codec.key
           /\ Stepped(codec).iterator = Advance(codec.key, codec.iterator)
<1>1. Advance(codec.key, codec.iterator) \in Word
  BY AdvanceType DEF Codec
<1> QED
  BY <1>1 DEF Stepped, Codec

\* The filler's place lies below the length it is taken for.
LEMMA PositionType ==
    ASSUME NEW w \in Word, NEW n \in Nat \ {0}
    PROVE  Position(w, n) \in 0 .. n - 1
<1>1. w % PosModulus \in Nat
  BY OldAssumption, CipherAssumption DEF Word
<1> QED
  BY <1>1 DEF Position

\* Cutting a sequence around an element that was put into it restores it.
LEMMA InsertRemove ==
    ASSUME NEW S, NEW s \in Seq(S), NEW e \in S, NEW i \in 1 .. Len(s) + 1
    PROVE  /\ InsertAt(s, i, e) \in Seq(S)
           /\ Len(InsertAt(s, i, e)) = Len(s) + 1
           /\ RemoveAt(InsertAt(s, i, e), i) = s
<1> DEFINE a == SubSeq(s, 1, i - 1)
           b == SubSeq(s, i, Len(s))
           t == a \o <<e>> \o b
           c == SubSeq(t, 1, i - 1)
           d == SubSeq(t, i + 1, Len(t))
<1>1. Len(s) \in Nat /\ i \in Int /\ i >= 1 /\ i <= Len(s) + 1
  OBVIOUS
<1>2. /\ a \in Seq(S) /\ Len(a) = i - 1
      /\ \A j \in 1 .. i - 1 : a[j] = s[j]
  BY <1>1
<1>3. /\ b \in Seq(S) /\ Len(b) = Len(s) - i + 1
      /\ \A j \in 1 .. Len(s) - i + 1 : b[j] = s[i + j - 1]
  BY <1>1
<1> HIDE DEF a, b
<1>4. /\ t \in Seq(S) /\ Len(t) = Len(s) + 1
      /\ \A j \in 1 .. i - 1 : t[j] = a[j]
      /\ \A j \in i + 1 .. Len(s) + 1 : t[j] = b[j - i]
  BY <1>1, <1>2, <1>3
<1> HIDE DEF t
<1>5. /\ c \in Seq(S) /\ Len(c) = i - 1
      /\ \A j \in 1 .. i - 1 : c[j] = t[j]
  BY <1>1, <1>4
<1>6. /\ d \in Seq(S) /\ Len(d) = Len(s) - i + 1
      /\ \A j \in 1 .. Len(s) - i + 1 : d[j] = t[i + j]
  BY <1>1, <1>4
<1> HIDE DEF c, d
<1>7. /\ c \o d \in Seq(S) /\ Len(c \o d) = Len(s)
      /\ \A j \in 1 .. Len(s) : (c \o d)[j] = IF j < i THEN c[j] ELSE d[j - i + 1]
  <2>1. PICK u, v : u = c /\ v = d
    OBVIOUS
  <2>2. u \in Seq(S) /\ v \in Seq(S)
    BY <1>5, <1>6, <2>1
  <2>3. /\ u \o v \in Seq(S) /\ Len(u \o v) = Len(u) + Len(v)
        /\ \A j \in 1 .. Len(u) + Len(v) :
              (u \o v)[j] = IF j <= Len(u) THEN u[j] ELSE v[j - Len(u)]
    BY <2>2
  <2>4. Len(u) = i - 1 /\ Len(v) = Len(s) - i + 1
    BY <1>5, <1>6, <2>1
  <2>5. Len(u) + Len(v) = Len(s)
    BY <1>1, <2>4
  <2>6. ASSUME NEW j \in 1 .. Len(s)
        PROVE  (u \o v)[j] = IF j < i THEN u[j] ELSE v[j - i + 1]
    <3>1. (j <= Len(u)) = (j < i) /\ j - Len(u) = j - i + 1
      BY <1>1, <2>4
    <3> QED
      BY <2>3, <2>5, <3>1
  <2> QED
    BY <2>1, <2>3, <2>5, <2>6
<1>8. ASSUME NEW j \in 1 .. Len(s) PROVE (c \o d)[j] = s[j]
  <2>1. CASE j < i
    <3>1. j \in 1 .. i - 1
      BY <1>1, <2>1
    <3> QED
      BY <1>2, <1>4, <1>5, <1>7, <2>1, <3>1
  <2>2. CASE ~ (j < i)
    <3>1. PICK m : m = j - i + 1
      OBVIOUS
    <3>2. PICK k : k = j + 1
      OBVIOUS
    <3>3. m \in 1 .. Len(s) - i + 1 /\ k \in i + 1 .. Len(s) + 1
      BY <1>1, <2>2, <3>1, <3>2
    <3>4. i + m = k /\ k - i = m /\ i + m - 1 = j
      BY <1>1, <3>1, <3>2
    <3>5. (c \o d)[j] = d[m]
      BY <1>7, <2>2, <3>1
    <3>6. d[m] = t[k]
      BY <1>6, <3>3, <3>4
    <3>7. t[k] = b[m]
      BY <1>4, <3>3, <3>4
    <3>8. b[m] = s[j]
      BY <1>3, <3>3, <3>4
    <3> QED
      BY <3>5, <3>6, <3>7, <3>8
  <2> QED
    BY <2>1, <2>2
<1>9. ASSUME NEW f \in Seq(S), Len(f) = Len(s), \A j \in 1 .. Len(s) : f[j] = s[j]
      PROVE  f = s
  BY <1>9
<1>10. InsertAt(s, i, e) = t
  BY DEF InsertAt, t, a, b
<1>11. RemoveAt(t, i) = c \o d
  BY DEF RemoveAt, c, d
<1>12. c \o d = s
  BY <1>7, <1>8, <1>9
<1> QED
  BY <1>4, <1>12, <1>10, <1>11

\* The filler goes in and comes out at the same place.
LEMMA FillerInverse ==
    ASSUME NEW c1 \in Codec, NEW c2 \in Codec, NEW body \in Seq(Block),
           c1.key = c2.key, c1.iterator = c2.iterator
    PROVE  /\ Inserted(c1, body) \in Seq(Block)
           /\ Inserted(c1, body) # <<>>
           /\ Stripped(c2, Inserted(c1, body)) = body
<1> DEFINE w == Stepped(c1).iterator
           i == Position(w, Len(body) + 1) + 1
<1>1. w \in Word /\ Stepped(c2).iterator = w
  BY SteppedType DEF Codec
<1>2. Len(body) \in Nat
  OBVIOUS
<1> HIDE DEF w
<1>3. i \in 1 .. Len(body) + 1
  <2>1. Position(w, Len(body) + 1) \in 0 .. (Len(body) + 1) - 1
    BY <1>1, <1>2, PositionType
  <2> QED
    BY <1>2, <2>1
<1>4. Inserted(c1, body) = InsertAt(body, i, Filler)
  BY DEF Inserted, w
<1> HIDE DEF i
<1>5. /\ InsertAt(body, i, Filler) \in Seq(Block)
      /\ Len(InsertAt(body, i, Filler)) = Len(body) + 1
      /\ RemoveAt(InsertAt(body, i, Filler), i) = body
  BY <1>3, InsertRemove, OldAssumption
<1>6. Stripped(c2, Inserted(c1, body))
        = RemoveAt(InsertAt(body, i, Filler), i)
  BY <1>1, <1>4, <1>5 DEF Stripped, i
<1> QED
  BY <1>2, <1>4, <1>5, <1>6

\* What is on the wire for a bundle is opened to that bundle by a codec at the
\* same iterator, which ends where the sender did; what no codec packed gives
\* None and still moves the iterator as far.
LEMMA OpenStep ==
    ASSUME TypeOK, NEW body \in Seq(Block), NEW m, NEW to,
           Carried(gen, body, m, in.key, in.iterator, to)
    PROVE  /\ Opened(body) = IF gen = 1 /\ m \in Empty THEN None ELSE m
           /\ body # <<>> => /\ After(in, body) \in Codec
                             /\ After(in, body).key = in.key
                             /\ After(in, body).iterator = to
           /\ body = <<>> => to = in.iterator
<1> DEFINE rcv == [key |-> in.key, iterator |-> in.iterator, limit |-> -1]
           c1 == Armed(rcv)
           c2 == Armed(in)
<1>1. in \in Codec /\ rcv \in Codec /\ gen \in 1 .. 4
  BY DEF TypeOK, Codec
<1>2. /\ c1 \in Codec /\ c2 \in Codec
      /\ c1.key = in.key /\ c2.key = in.key
      /\ c1.iterator = in.iterator /\ c2.iterator = in.iterator
      /\ c1.limit = c2.limit
  <2>1. rcv.key = in.key /\ rcv.iterator = in.iterator
    OBVIOUS
  <2> HIDE DEF rcv
  <2> QED
    BY <1>1, <2>1, ArmedType
<1>3. Carried(gen, body, m, in.key, in.iterator, to)
  OBVIOUS
<1> HIDE DEF c1, rcv
<1>4. CASE gen = 4
  <2>1. ASSUME NEW plain \in Seq(Block), body = CryptData(c1, plain),
               to = CryptState(c1, plain).iterator
        PROVE  /\ body # <<>> => /\ Opened(body) = From(Packed, plain)
                                 /\ After(in, body) \in Codec
                                 /\ After(in, body).key = in.key
                                 /\ After(in, body).iterator = to
               /\ body = <<>> => plain = <<>> /\ to = in.iterator
    <3>1. CryptData(c2, body) = plain /\ CryptState(c2, body).iterator = to
      BY <1>2, <2>1, CryptInverse
    <3>2. /\ CryptState(c2, body) \in Codec
          /\ CryptState(c2, body).key = in.key
      BY <1>2, CryptStateType
    <3>3. After(in, body) = CryptState(c2, body)
      BY <1>4 DEF After
    <3>4. body # <<>> => Opened(body) = From(Packed, CryptData(c2, body))
      BY <1>4 DEF Opened
    <3>5. body = <<>> => plain = <<>>
      <4>1. Len(CryptData(c1, plain)) = Len(plain)
        BY <1>2, <2>1, CryptDataType
      <4> QED
        BY <2>1, <4>1
    <3>6. body = <<>> => to = in.iterator
      BY <2>1, <3>5, <1>2, CryptNothing
    <3> QED
      BY <3>1, <3>2, <3>3, <3>4, <3>5, <3>6
  <2>2. body = <<>> => Opened(body) = None
    BY DEF Opened
  <2>3. CASE \E f \in {m} \cap Message : /\ body = CryptData(c1, Packed[f])
                                         /\ to = CryptState(c1, Packed[f]).iterator
    BY <1>4, <2>1, <2>3, ImageType, FromImage
  <2>4. CASE m = None /\ \E f \in Message : /\ body = CryptData(c1, Raw[f])
                                            /\ to = CryptState(c1, Raw[f]).iterator
    BY <1>4, <2>1, <2>2, <2>4, ImageType, FromImage
  <2> QED
    BY <1>3, <1>4, <2>3, <2>4 DEF Carried, c1, rcv
<1>5. CASE gen = 3
  <2>1. m \in Message /\ body = Inserted(c1, Raw[m])
        /\ to = Advance(in.key, in.iterator)
    BY <1>3, <1>5 DEF Carried, c1, rcv
  <2>2. body # <<>> /\ Stripped(in, body) = Raw[m]
    BY <1>1, <1>2, <2>1, ImageType, FillerInverse
  <2>3. Opened(body) = From(Raw, Stripped(in, body))
    BY <1>5, <2>2 DEF Opened
  <2>4. Opened(body) = m
    BY <2>1, <2>2, <2>3, FromImage
  <2>5. After(in, body) = Stepped(in)
    BY <1>5 DEF After
  <2>6. /\ Stepped(in) \in Codec /\ Stepped(in).key = in.key
        /\ Stepped(in).iterator = to
    BY <1>1, <2>1, SteppedType
  <2> QED
    BY <1>5, <2>2, <2>4, <2>5, <2>6
<1>6. CASE gen = 2
  <2>1. /\ to = in.iterator
        /\ \/ m \in Message /\ body \in {Packed[m], Raw[m]} \ {<<>>}
           \/ m = None /\ body = <<>>
    BY <1>3, <1>6 DEF Carried
  <2>2. After(in, body) = in
    BY <1>6 DEF After
  <2>3. Opened(body) = m
    <3>1. CASE body = <<>>
      <4>1. Opened(body) = None
        BY <3>1 DEF Opened
      <4> QED
        BY <2>1, <3>1, <4>1
    <3>2. CASE body # <<>>
      <4>1. Opened(body) = IF From(Packed, body) # None THEN From(Packed, body)
                                                        ELSE From(Raw, body)
        BY <1>6, <3>2 DEF Opened
      <4> QED
        BY <2>1, <3>2, <4>1, FromImage, OldAssumption
    <3> QED
      BY <3>1, <3>2
  <2> QED
    BY <1>1, <1>6, <2>1, <2>2, <2>3
<1>7. CASE gen = 1
  <2>1. to = in.iterator /\ m \in Message /\ body = Raw[m]
    BY <1>3, <1>7 DEF Carried
  <2>2. After(in, body) = in
    BY <1>7 DEF After
  <2>3. body = <<>> => Opened(body) = None
    BY DEF Opened
  <2>4. body # <<>> => Opened(body) = From(Raw, body)
    BY <1>7 DEF Opened
  <2>5. From(Raw, body) = m
    BY <2>1, FromImage
  <2> QED
    BY <1>1, <1>7, <2>1, <2>2, <2>3, <2>4, <2>5 DEF Empty
<1> QED
  BY <1>1, <1>4, <1>5, <1>6, <1>7

-----------------------------------------------------------------------------
(* The wire. *)

Bodies == Seq(Block)
Entry == Message \cup {None}

\* An empty wire is chained exactly when the two iterators agree.
LEMMA ChainEmpty ==
    ASSUME NEW g, NEW snd \in Codec, NEW rcv \in Codec
    PROVE  Chained(g, <<>>, <<>>, snd, rcv)
             <=> snd.key = rcv.key /\ snd.iterator = rcv.iterator
<1>1. Len(<<>>) = 0 /\ 1 .. 0 + 1 = {1}
  OBVIOUS
<1>2. ASSUME snd.key = rcv.key, snd.iterator = rcv.iterator
      PROVE  Chained(g, <<>>, <<>>, snd, rcv)
  <2> DEFINE at == [i \in 1 .. Len(<<>>) + 1 |-> rcv.iterator]
  <2>1. /\ at \in [1 .. Len(<<>>) + 1 -> Word]
        /\ at[1] = rcv.iterator /\ at[Len(<<>>) + 1] = snd.iterator
    BY <1>1, <1>2 DEF Codec
  <2>2. 1 .. Len(<<>>) = {}
    BY <1>1
  <2> HIDE DEF at
  <2> QED
    BY <1>2, <2>1, <2>2 DEF Chained
<1>3. ASSUME Chained(g, <<>>, <<>>, snd, rcv)
      PROVE  snd.key = rcv.key /\ snd.iterator = rcv.iterator
  BY <1>1, <1>3 DEF Chained
<1> QED
  BY <1>2, <1>3

\* A body that bridges the sender's iterator extends the chain.
LEMMA ChainAppend ==
    ASSUME NEW g, NEW ps \in Seq(Bodies), NEW ms \in Seq(Entry), Len(ms) = Len(ps),
           NEW p \in Bodies, NEW m \in Entry,
           NEW snd \in Codec, NEW snd2 \in Codec, NEW rcv \in Codec,
           snd2.key = snd.key,
           Carried(g, p, m, snd.key, snd.iterator, snd2.iterator),
           Chained(g, ps, ms, snd, rcv)
    PROVE  Chained(g, Append(ps, p), Append(ms, m), snd2, rcv)
<1> DEFINE n == Len(ps)
           qs == Append(ps, p)
           ls == Append(ms, m)
<1>1. PICK at \in [1 .. n + 1 -> Word] :
          /\ at[1] = rcv.iterator
          /\ at[n + 1] = snd.iterator
          /\ \A i \in 1 .. n : Carried(g, ps[i], ms[i], snd.key, at[i], at[i + 1])
  BY DEF Chained
<1> DEFINE bt == [i \in 1 .. n + 2 |-> IF i = n + 2 THEN snd2.iterator ELSE at[i]]
<1>2. n \in Nat /\ Len(qs) = n + 1
  OBVIOUS
<1>3. bt \in [1 .. Len(qs) + 1 -> Word]
  BY <1>2 DEF Codec
<1>4. bt[1] = rcv.iterator /\ bt[Len(qs) + 1] = snd2.iterator
  BY <1>1, <1>2
<1>5. ASSUME NEW i \in 1 .. Len(qs)
      PROVE  Carried(g, qs[i], ls[i], snd2.key, bt[i], bt[i + 1])
  <2>1. CASE i = n + 1
    <3>1. qs[i] = p /\ ls[i] = m /\ bt[i] = snd.iterator
          /\ bt[i + 1] = snd2.iterator
      BY <1>1, <1>2, <2>1
    <3> QED
      BY <3>1
  <2>2. CASE i # n + 1
    <3>1. i \in 1 .. n
      BY <1>2, <2>2
    <3>2. qs[i] = ps[i] /\ ls[i] = ms[i] /\ bt[i] = at[i] /\ bt[i + 1] = at[i + 1]
      BY <1>2, <3>1
    <3> QED
      BY <1>1, <3>1, <3>2
  <2> QED
    BY <2>1, <2>2
<1>6. snd2.key = rcv.key
  BY DEF Chained
<1> HIDE DEF qs, ls, bt
<1> QED
  BY <1>3, <1>4, <1>5, <1>6 DEF Chained, qs, ls

\* Taking the head off the wire: it was carried from the receiver's iterator,
\* and the rest is chained to the receiver it leads to.
LEMMA ChainTail ==
    ASSUME NEW g, NEW ps \in Seq(Bodies), NEW ms \in Seq(Entry), Len(ms) = Len(ps),
           NEW snd \in Codec, NEW rcv \in Codec,
           ps # <<>>, Chained(g, ps, ms, snd, rcv)
    PROVE  \E to \in Word :
             /\ Carried(g, Head(ps), Head(ms), rcv.key, rcv.iterator, to)
             /\ \A rcv2 \in Codec : rcv2.key = rcv.key /\ rcv2.iterator = to
                   => Chained(g, Tail(ps), Tail(ms), snd, rcv2)
<1> DEFINE n == Len(ps)
           qs == Tail(ps)
           ls == Tail(ms)
<1>1. PICK at \in [1 .. n + 1 -> Word] :
          /\ at[1] = rcv.iterator
          /\ at[n + 1] = snd.iterator
          /\ \A i \in 1 .. n : Carried(g, ps[i], ms[i], snd.key, at[i], at[i + 1])
  BY DEF Chained
<1>2. n \in Nat /\ n >= 1 /\ Len(qs) = n - 1
  OBVIOUS
<1>3. snd.key = rcv.key
  BY DEF Chained
<1>4. Head(ps) = ps[1] /\ Head(ms) = ms[1]
  BY <1>2
<1>5. Carried(g, Head(ps), Head(ms), rcv.key, rcv.iterator, at[2])
  <2>1. 1 \in 1 .. n /\ 1 + 1 = 2
    BY <1>2
  <2>2. Carried(g, ps[1], ms[1], snd.key, at[1], at[2])
    BY <1>1, <2>1
  <2> QED
    BY <1>1, <1>3, <1>4, <2>2
<1>6. at[2] \in Word
  BY <1>2
<1>7. ASSUME NEW rcv2 \in Codec, rcv2.key = rcv.key, rcv2.iterator = at[2]
      PROVE  Chained(g, qs, ls, snd, rcv2)
  <2> DEFINE bt == [i \in 1 .. n |-> at[i + 1]]
  <2>1. bt \in [1 .. Len(qs) + 1 -> Word]
    BY <1>2
  <2>2. bt[1] = rcv2.iterator /\ bt[Len(qs) + 1] = snd.iterator
    BY <1>1, <1>2, <1>7
  <2>3. ASSUME NEW i \in 1 .. Len(qs)
        PROVE  Carried(g, qs[i], ls[i], snd.key, bt[i], bt[i + 1])
    <3>1. i + 1 \in 1 .. n /\ qs[i] = ps[i + 1] /\ ls[i] = ms[i + 1]
      BY <1>2
    <3>2. bt[i] = at[i + 1] /\ bt[i + 1] = at[(i + 1) + 1]
      BY <1>2, <3>1
    <3> QED
      BY <1>1, <3>1, <3>2
  <2>4. snd.key = rcv2.key
    BY <1>3, <1>7
  <2> HIDE DEF bt, qs, ls
  <2> QED
    BY <2>1, <2>2, <2>3, <2>4 DEF Chained
<1> QED
  BY <1>5, <1>6, <1>7

-----------------------------------------------------------------------------
(* The connection. *)

IInv == TypeOK /\ SessionInv

\* Two new codecs of one key, and nothing in flight.
LEMMA FreshChain ==
    ASSUME NEW g, NEW k \in Key
    PROVE  /\ Reset(k) \in Codec
           /\ Chained(g, <<>>, <<>>, Reset(k), Reset(k))
BY KeyNat, ResetType, ChainEmpty

\* The invariant holds at the start.
LEMMA InitInv == Init => IInv
<1> SUFFICES ASSUME Init PROVE IInv
  OBVIOUS
<1>1. PICK k \in Key : out = Reset(k) /\ in = Reset(k)
  BY DEF Init
<1>2. TypeOK
  BY <1>1, FreshChain DEF Init, TypeOK
<1>3. SessionInv
  BY <1>1, FreshChain DEF Init, SessionInv
<1> QED
  BY <1>2, <1>3 DEF IInv

\* A connection starts both codecs alike.
LEMMA ConnectInv ==
    ASSUME IInv, NEW g \in 1 .. 4, NEW k \in Key, Connect(g, k)
    PROVE  IInv'
<1>1. TypeOK'
  <2>1. /\ gen' = g /\ out' = Reset(k) /\ in' = Reset(k)
        /\ wire' = <<>> /\ sent' = <<>> /\ got' = got
    BY DEF Connect
  <2>2. got \in Entry
    BY DEF IInv, TypeOK, Entry
  <2>3. <<>> \in Seq(Bodies) /\ <<>> \in Seq(Entry) /\ Len(<<>>) = Len(<<>>)
    OBVIOUS
  <2> QED
    BY <2>1, <2>2, <2>3, FreshChain DEF TypeOK, Bodies, Entry
<1>2. SessionInv'
  BY FreshChain DEF Connect, SessionInv
<1> QED
  BY <1>1, <1>2 DEF IInv

\* What sending does to the codec and puts on the wire: the common part of
\* Send and ForeignSend.
LEMMA Emit ==
    ASSUME IInv, NEW body \in Seq(Block), NEW m \in Entry, NEW snd \in Codec,
           snd.key = out.key,
           Carried(gen, body, m, out.key, out.iterator, snd.iterator),
           out' = snd, wire' = Append(wire, body), sent' = Append(sent, m),
           UNCHANGED <<gen, in, got>>
    PROVE  IInv'
<1>1. /\ wire \in Seq(Bodies) /\ sent \in Seq(Entry) /\ Len(sent) = Len(wire)
      /\ out \in Codec /\ in \in Codec
  BY DEF IInv, TypeOK, Bodies, Entry
<1>2. TypeOK'
  BY <1>1 DEF IInv, TypeOK, Bodies, Entry
<1>3. Chained(gen, Append(wire, body), Append(sent, m), snd, in)
  BY <1>1, ChainAppend DEF IInv, SessionInv, Bodies
<1> QED
  BY <1>2, <1>3 DEF IInv, SessionInv

\* A codec and the one the chain invariant builds from its key and iterator
\* have the same armed limit.
LEMMA ArmedSame ==
    ASSUME NEW codec \in Codec
    PROVE  Armed([key |-> codec.key, iterator |-> codec.iterator, limit |-> -1])
             = Armed(codec)
BY DEF Armed, LimitFromType, Codec, CompressionType

\* A send joins one more packet to the chain.
LEMMA SendInv ==
    ASSUME Gen3Fit, IInv, NEW m \in Message, Send(m)
    PROVE  IInv'
<1>1. CASE gen # 1 /\ ~ Fits(m)
  <2>1. gen # 3
    BY <1>1 DEF Send, Gen3Fit
  <2>2. UNCHANGED vars
    BY <1>1, <2>1 DEF Send, vars
  <2> QED
    BY <2>2 DEF vars, IInv, TypeOK, SessionInv
<1>2. CASE ~ (gen # 1 /\ ~ Fits(m))
  <2>1. /\ out' = After(out, Packed[m]) /\ wire' = Append(wire, Body(m))
        /\ sent' = Append(sent, m) /\ UNCHANGED <<gen, in, got>>
    BY <1>2 DEF Send
  <2>2. out \in Codec /\ gen \in 1 .. 4 /\ m \in Entry
    BY DEF IInv, TypeOK, Entry
  <2>3. SUFFICES /\ Body(m) \in Seq(Block) /\ After(out, Packed[m]) \in Codec
                 /\ After(out, Packed[m]).key = out.key
                 /\ Carried(gen, Body(m), m, out.key, out.iterator,
                            After(out, Packed[m]).iterator)
    BY <2>1, <2>2, Emit
  <2> DEFINE c1 == Armed([key |-> out.key, iterator |-> out.iterator, limit |-> -1])
  <2>4. c1 = Armed(out) /\ c1 \in Codec
        /\ c1.key = out.key /\ c1.iterator = out.iterator
    BY <2>2, ArmedSame, ArmedType
  <2>5. Raw[m] \in Seq(Block) /\ Packed[m] \in Seq(Block) /\ Packed[m] # <<>>
    BY ImageType
  <2> HIDE DEF c1
  <2>6. CASE gen = 4
    <3>1. Body(m) = CryptData(c1, Packed[m])
          /\ After(out, Packed[m]) = CryptState(c1, Packed[m])
      BY <2>4, <2>6 DEF Body, After
    <3>2. /\ CryptData(c1, Packed[m]) \in Seq(Block)
          /\ CryptState(c1, Packed[m]) \in Codec
          /\ CryptState(c1, Packed[m]).key = out.key
      BY <2>4, <2>5, CryptDataType, CryptStateType
    <3> QED
      BY <2>6, <3>1, <3>2 DEF Carried, c1
  <2>7. CASE gen = 3
    <3>1. Body(m) = Inserted(out, Raw[m]) /\ After(out, Packed[m]) = Stepped(out)
      BY <2>7 DEF Body, After
    <3>2. Inserted(out, Raw[m]) = Inserted(c1, Raw[m])
      BY <2>2, <2>4, SteppedType DEF Inserted
    <3>3. Inserted(c1, Raw[m]) \in Seq(Block)
      BY <2>4, <2>5, FillerInverse
    <3> QED
      BY <2>2, <2>7, <3>1, <3>2, <3>3, SteppedType DEF Carried, c1
  <2>8. CASE gen = 2
    BY <2>2, <2>5, <2>8 DEF Body, After, Carried
  <2>9. CASE gen = 1
    BY <2>2, <2>5, <2>9 DEF Body, After, Carried
  <2> QED
    BY <2>2, <2>6, <2>7, <2>8, <2>9
<1> QED
  BY <1>1, <1>2

\* So does the packet of a foreign sender.
LEMMA ForeignSendInv ==
    ASSUME IInv, NEW m \in Message, ForeignSend(m)
    PROVE  IInv'
<1>1. out \in Codec /\ m \in Entry /\ None \in Entry
  BY DEF IInv, TypeOK, Entry
<1>2. Raw[m] \in Seq(Block)
  BY ImageType
<1>3. CASE gen = 4
  <2> DEFINE c1 == Armed([key |-> out.key, iterator |-> out.iterator, limit |-> -1])
  <2>1. c1 = Armed(out) /\ c1 \in Codec /\ c1.key = out.key
    BY <1>1, ArmedSame, ArmedType
  <2> HIDE DEF c1
  <2>2. /\ out' = CryptState(c1, Raw[m])
        /\ wire' = Append(wire, CryptData(c1, Raw[m]))
        /\ sent' = Append(sent, None) /\ UNCHANGED <<gen, in, got>>
    BY <1>3, <2>1 DEF ForeignSend
  <2>3. /\ CryptData(c1, Raw[m]) \in Seq(Block)
        /\ CryptState(c1, Raw[m]) \in Codec
        /\ CryptState(c1, Raw[m]).key = out.key
    BY <1>2, <2>1, CryptDataType, CryptStateType
  <2>4. Carried(gen, CryptData(c1, Raw[m]), None, out.key, out.iterator,
                CryptState(c1, Raw[m]).iterator)
    BY <1>3 DEF Carried, c1
  <2> QED
    BY <1>1, <2>2, <2>3, <2>4, Emit
<1>4. CASE gen = 2
  <2> DEFINE e == IF Raw[m] = <<>> THEN None ELSE m
  <2>1. /\ out' = out /\ wire' = Append(wire, Raw[m])
        /\ sent' = Append(sent, e) /\ UNCHANGED <<gen, in, got>>
    BY <1>4 DEF ForeignSend
  <2>2. Carried(gen, Raw[m], e, out.key, out.iterator, out.iterator)
    BY <1>4 DEF Carried
  <2>3. e \in Entry
    BY <1>1
  <2> HIDE DEF e
  <2> QED
    BY <1>1, <1>2, <2>1, <2>2, <2>3, Emit
<1> QED
  BY <1>3, <1>4 DEF ForeignSend

\* Receiving keeps the chain, and returns what the history says is next.
LEMMA RecvInv ==
    ASSUME IInv, Recv
    PROVE  /\ IInv'
           /\ sent # <<>>
           /\ got' = IF gen = 1 /\ Head(sent) \in Empty THEN None ELSE Head(sent)
<1> DEFINE body == Head(wire)
           m == Head(sent)
           rcv == IF body # <<>> THEN After(in, body) ELSE in
<1>1. /\ wire \in Seq(Bodies) /\ sent \in Seq(Entry) /\ Len(sent) = Len(wire)
      /\ out \in Codec /\ in \in Codec /\ wire # <<>> /\ sent # <<>>
  BY DEF IInv, TypeOK, Recv, Bodies, Entry
<1>2. body \in Seq(Block) /\ m \in Entry
  BY <1>1 DEF Bodies
<1>3. Chained(gen, wire, sent, out, in)
  BY DEF IInv, SessionInv
<1>4. PICK to \in Word :
         /\ Carried(gen, body, m, in.key, in.iterator, to)
         /\ \A rcv2 \in Codec : rcv2.key = in.key /\ rcv2.iterator = to
               => Chained(gen, Tail(wire), Tail(sent), out, rcv2)
  BY <1>1, <1>3, ChainTail
<1>5. /\ got' = Opened(body) /\ in' = rcv
      /\ wire' = Tail(wire) /\ sent' = Tail(sent) /\ UNCHANGED <<gen, out>>
  BY DEF Recv
<1> HIDE DEF body, m
<1>6. /\ Opened(body) = IF gen = 1 /\ m \in Empty THEN None ELSE m
      /\ body # <<>> => /\ After(in, body) \in Codec
                        /\ After(in, body).key = in.key
                        /\ After(in, body).iterator = to
      /\ body = <<>> => to = in.iterator
  BY <1>2, <1>4, OpenStep DEF IInv
<1>7. rcv \in Codec /\ rcv.key = in.key /\ rcv.iterator = to
  BY <1>1, <1>6
<1> HIDE DEF rcv
<1>8. SessionInv'
  BY <1>4, <1>5, <1>7 DEF SessionInv
<1>9. TypeOK'
  <2>1. /\ wire' \in Seq(Bodies) /\ sent' \in Seq(Entry) /\ Len(sent') = Len(wire')
    BY <1>1, <1>5
  <2>2. got' \in Entry
    BY <1>2, <1>5, <1>6 DEF Entry
  <2> QED
    BY <1>5, <1>7, <2>1, <2>2 DEF IInv, TypeOK, Bodies, Entry
<1> QED
  BY <1>1, <1>5, <1>6, <1>8, <1>9 DEF IInv, m

\* It holds always.
LEMMA SpecInv ==
    ASSUME Gen3Fit
    PROVE  Spec => []IInv
<1>1. Init => IInv
  BY InitInv
<1>2. IInv /\ [Next]_vars => IInv'
  <2> SUFFICES ASSUME IInv, [Next]_vars PROVE IInv'
    OBVIOUS
  <2>1. CASE UNCHANGED vars
    BY <2>1 DEF vars, IInv, TypeOK, SessionInv
  <2> QED
    BY <2>1, ConnectInv, SendInv, ForeignSendInv, RecvInv DEF Next
<1> QED
  BY <1>1, <1>2, PTL DEF Spec

-----------------------------------------------------------------------------
(* The theorems. *)

\* The iterators never leave their range, every body in flight has its entry
\* in the history, and recv_packet returns a bundle or None.
THEOREM OldTypeCorrect ==
    ASSUME Gen3Fit
    PROVE  Spec => []TypeOK
<1>1. IInv => TypeOK
  BY DEF IInv
<1> QED
  BY <1>1, SpecInv, PTL

\* Whatever was sent, dropped as too big, refused by bz2 or replaced by a new
\* connection, both ends of a drained wire have the same iterator.
THEOREM OldInStep ==
    ASSUME Gen3Fit
    PROVE  Spec => []InStep
<1>1. IInv => InStep
  <2> SUFFICES ASSUME IInv, wire = <<>> PROVE in.iterator = out.iterator
    BY DEF InStep
  <2>1. sent = <<>> /\ out \in Codec /\ in \in Codec
    BY DEF IInv, TypeOK
  <2>2. Chained(gen, <<>>, <<>>, out, in)
    BY <2>1 DEF IInv, SessionInv
  <2> QED
    BY <2>1, <2>2, ChainEmpty
<1> QED
  BY <1>1, SpecInv, PTL

\* The chain invariant itself: each body in flight was made at the iterator
\* its receiver will have reached.
THEOREM OldSessionInvariant ==
    ASSUME Gen3Fit
    PROVE  Spec => []SessionInv
<1>1. IInv => SessionInv
  BY DEF IInv
<1> QED
  BY <1>1, SpecInv, PTL

\* What is owed grows by what is sent and shrinks from the front.
LEMMA OwedAppend ==
    ASSUME TypeOK, NEW m \in Entry, sent' = Append(sent, m), gen' = gen
    PROVE  Owed' = Append(Owed, IF gen = 1 /\ m \in Empty THEN None ELSE m)
<1> DEFINE owed(x) == IF gen = 1 /\ x \in Empty THEN None ELSE x
           n == Len(sent)
<1>1. n \in Nat /\ sent \in Seq(Entry)
  BY DEF TypeOK, Entry
<1>2. /\ Len(sent') = n + 1 /\ sent'[n + 1] = m
      /\ \A i \in 1 .. n : sent'[i] = sent[i]
  BY <1>1
<1>3. Owed = [i \in 1 .. n |-> owed(sent[i])]
  BY DEF Owed
<1>4. Owed' = [i \in 1 .. n + 1 |-> owed(sent'[i])]
  BY <1>2 DEF Owed, Empty
<1> HIDE DEF owed
<1>5. Append(Owed, owed(m))
        = [i \in 1 .. n + 1 |-> IF i = n + 1 THEN owed(m) ELSE owed(sent[i])]
  BY <1>1, <1>3
<1>6. ASSUME NEW i \in 1 .. n + 1
      PROVE  owed(sent'[i]) = IF i = n + 1 THEN owed(m) ELSE owed(sent[i])
  BY <1>1, <1>2
<1>7. Owed' = Append(Owed, owed(m))
  BY <1>4, <1>5, <1>6
<1> QED
  BY <1>7 DEF owed

\* What is still owed after the next packet has arrived.
LEMMA OwedTail ==
    ASSUME TypeOK, sent # <<>>, sent' = Tail(sent), gen' = gen
    PROVE  /\ Owed # <<>> /\ Owed' = Tail(Owed)
           /\ Head(Owed) = IF gen = 1 /\ Head(sent) \in Empty THEN None
                                                             ELSE Head(sent)
<1> DEFINE owed(x) == IF gen = 1 /\ x \in Empty THEN None ELSE x
           n == Len(sent)
<1>1. n \in Nat /\ n >= 1 /\ sent \in Seq(Entry)
  BY DEF TypeOK, Entry
<1>2. /\ Len(sent') = n - 1 /\ Head(sent) = sent[1]
      /\ \A i \in 1 .. n - 1 : sent'[i] = sent[i + 1]
  BY <1>1
<1>3. Owed = [i \in 1 .. n |-> owed(sent[i])]
  BY DEF Owed
<1>4. Owed' = [i \in 1 .. n - 1 |-> owed(sent'[i])]
  BY <1>2 DEF Owed, Empty
<1> HIDE DEF owed
<1>5. /\ Owed # <<>> /\ Head(Owed) = owed(Head(sent))
      /\ Tail(Owed) = [i \in 1 .. n - 1 |-> owed(sent[i + 1])]
  BY <1>1, <1>2, <1>3
<1>6. Owed' = Tail(Owed)
  BY <1>2, <1>4, <1>5
<1> QED
  BY <1>5, <1>6 DEF owed

\* Each bundle an older codec accepted is returned by recv_packet unchanged,
\* once and in order; None is returned for a body without bytes and for what
\* no codec of this library compressed.
THEOREM OldRefines ==
    ASSUME Gen3Fit
    PROVE  Spec => Link!Spec
<1>1. Init => Link!Init
  <2> SUFFICES ASSUME Init PROVE Owed = <<>> /\ got = None
    BY DEF Link!Init
  <2>1. Len(sent) = 0 /\ 1 .. 0 = {}
    BY DEF Init
  <2> QED
    BY <2>1 DEF Init, Owed
<1>2. IInv /\ [Next]_vars => [Link!Next]_(Link!vars)
  <2> SUFFICES ASSUME IInv, [Next]_vars PROVE [Link!Next]_(Link!vars)
    OBVIOUS
  <2> USE DEF Link!Next, Link!vars
  <2>1. TypeOK
    BY DEF IInv
  <2>2. ASSUME NEW g \in 1 .. 4, NEW k \in Key, Connect(g, k) PROVE Link!Lose
    <3>1. sent' = <<>> /\ got' = got
      BY <2>2 DEF Connect
    <3>2. Len(sent') = 0 /\ 1 .. 0 = {}
      BY <3>1
    <3>3. Owed' = <<>>
      BY <3>2 DEF Owed
    <3> QED
      BY <3>1, <3>3 DEF Link!Lose
  <2>3. ASSUME NEW m \in Entry, sent' = Append(sent, m), gen' = gen, got' = got
        PROVE  \E b \in Message \cup {None} : Link!Accept(b)
    <3> DEFINE b == IF gen = 1 /\ m \in Empty THEN None ELSE m
    <3>1. Owed' = Append(Owed, b)
      BY <2>1, <2>3, OwedAppend
    <3>2. b \in Message \cup {None}
      BY DEF Entry
    <3> HIDE DEF b
    <3> QED
      BY <2>3, <3>1, <3>2 DEF Link!Accept
  <2>4. ASSUME UNCHANGED <<gen, sent, got>> PROVE UNCHANGED Link!vars
    BY <2>4 DEF Owed, Empty
  <2>5. ASSUME NEW m \in Message, Send(m)
        PROVE  Link!Next \/ UNCHANGED Link!vars
    <3>1. CASE sent' = Append(sent, m)
      BY <2>3, <2>5, <3>1 DEF Send, Entry
    <3>2. CASE sent' = sent
      BY <2>4, <2>5, <3>2 DEF Send
    <3> QED
      BY <2>5, <3>1, <3>2 DEF Send
  <2>6. ASSUME NEW m \in Message, ForeignSend(m) PROVE Link!Next
    BY <2>3, <2>6 DEF ForeignSend, Entry
  <2>7. ASSUME Recv PROVE Link!Deliver
    <3>1. /\ sent # <<>> /\ sent' = Tail(sent) /\ gen' = gen
          /\ got' = IF gen = 1 /\ Head(sent) \in Empty THEN None ELSE Head(sent)
      BY <2>7, RecvInv DEF Recv
    <3> QED
      BY <2>1, <3>1, OwedTail DEF Link!Deliver
  <2>8. CASE UNCHANGED vars
    BY <2>4, <2>8 DEF vars
  <2> QED
    BY <2>2, <2>5, <2>6, <2>7, <2>8 DEF Next
<1> QED
  BY <1>1, <1>2, SpecInv, PTL DEF Spec, Link!Spec

=============================================================================
