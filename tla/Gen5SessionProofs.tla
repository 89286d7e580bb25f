------------------------- MODULE Gen5SessionProofs -------------------------
(***************************************************************************)
(* Gen5Session is type correct, keeps the two cipher states in step and    *)
(* implements a bundle channel in each direction, whatever the iterator's  *)
(* width, the multiplier, the keys, the messages and the packet limits.    *)
(***************************************************************************)
EXTENDS Gen5Session, WellFoundedInduction, TLAPS

-----------------------------------------------------------------------------
(* Induction without an operator parameter.                                *)

\* Induction over a set: a set of naturals that holds 0 and is closed under
\* the successor is all of Nat.
LEMMA NatSet ==
    ASSUME NEW S, 0 \in S, \A n \in Nat : n \in S => n + 1 \in S
    PROVE  Nat \subseteq S
<1> DEFINE R == {ss \in Nat \X Nat : ss[1] < ss[2]}
           T == Nat \ S
<1>1. SUFFICES ASSUME T # {} PROVE FALSE
  BY DEF T
<1>2. IsWellFoundedOn(R, Nat)
  BY NatLessThanWellFounded, Zenon DEF OpToRel
<1>3. T \subseteq Nat
  BY DEF T
<1> HIDE DEF T, R
<1>4. PICK x \in T : \A y \in T : ~ (<<y, x>> \in R)
  BY <1>1, <1>2, <1>3, WFMin
<1>5. x \in Nat /\ x # 0 /\ x - 1 \in Nat
  BY <1>3 DEF T
<1>6. x - 1 \in S => FALSE
  BY <1>5 DEF T
<1>7. x - 1 \in T
  BY <1>5, <1>6 DEF T
<1>8. <<x - 1, x>> \in R
  BY <1>5 DEF R
<1> QED
  BY <1>4, <1>7, <1>8

-----------------------------------------------------------------------------
(* The cipher's operators.  The iterator is a recursive function, so its    *)
(* facts need induction.                                                    *)

\* One advance stays in the range of the masked iterator.
LEMMA AdvanceType ==
    ASSUME NEW key \in Nat, NEW w \in Word
    PROVE  Advance(key, w) \in Word
<1>1. w * Multiplier + key \in Nat
  BY CipherAssumption DEF Word
<1> QED
  BY <1>1, CipherAssumption DEF Advance, Word

\* g is the table of the iterator's first N advances.
Table(g, N, key, it) ==
    /\ g \in [0 .. N -> Word]
    /\ g[0] = it
    /\ \A n \in 1 .. N : g[n] = Advance(key, g[n - 1])

\* There is a table of every length.
LEMMA TableExists ==
    ASSUME NEW key \in Nat, NEW it \in Word
    PROVE  \A N \in Nat : \E g : Table(g, N, key, it)
<1> DEFINE S == {N \in Nat : \E g : Table(g, N, key, it)}
<1>1. 0 \in S
  BY Table([n \in 0 .. 0 |-> it], 0, key, it) DEF Table
<1>2. ASSUME NEW N \in Nat, N \in S PROVE N + 1 \in S
  <2>1. PICK g : Table(g, N, key, it)
    BY <1>2
  <2> DEFINE h == [n \in 0 .. N + 1 |-> IF n = N + 1 THEN Advance(key, g[N])
                                                    ELSE g[n]]
  <2>2. g[N] \in Word
    BY <2>1 DEF Table
  <2>3. Advance(key, g[N]) \in Word
    BY <2>2, AdvanceType
  <2>4. h \in [0 .. N + 1 -> Word]
    BY <2>1, <2>3 DEF Table
  <2>5. h[0] = it
    BY <2>1 DEF Table
  <2>6. ASSUME NEW n \in 1 .. N + 1 PROVE h[n] = Advance(key, h[n - 1])
    BY <2>1 DEF Table
  <2>7. Table(h, N + 1, key, it)
    <3> HIDE DEF h
    <3> QED
      BY <2>4, <2>5, <2>6 DEF Table
  <2> QED
    BY <2>7
<1> HIDE DEF S
<1>3. Nat \subseteq S
  BY <1>1, <1>2, NatSet
<1> QED
  BY <1>3 DEF S

\* Two tables agree wherever both are defined.
LEMMA TableUnique ==
    ASSUME NEW key \in Nat, NEW it \in Word, NEW N \in Nat, NEW M \in Nat,
           NEW g, Table(g, N, key, it), NEW h, Table(h, M, key, it)
    PROVE  \A n \in Nat : n <= N /\ n <= M => g[n] = h[n]
<1> DEFINE S == {n \in Nat : n <= N /\ n <= M => g[n] = h[n]}
<1>1. 0 \in S
  BY DEF Table
<1>2. ASSUME NEW n \in Nat, n \in S PROVE n + 1 \in S
  <2>1. SUFFICES ASSUME n + 1 <= N, n + 1 <= M PROVE g[n + 1] = h[n + 1]
    BY DEF S
  <2>2. g[n] = h[n]
    BY <1>2, <2>1
  <2>3. n + 1 \in 1 .. N /\ n + 1 \in 1 .. M /\ (n + 1) - 1 = n
    BY <2>1
  <2> QED
    BY <2>2, <2>3 DEF Table
<1> HIDE DEF S
<1>3. Nat \subseteq S
  BY <1>1, <1>2, NatSet
<1> QED
  BY <1>3 DEF S

\* The recursive definition of Lcg defines a function, and its values are
\* iterators.
LEMMA LcgType ==
    ASSUME NEW key \in Nat, NEW it \in Word
    PROVE  /\ Lcg(key, it) \in [Nat -> Word]
           /\ \A n \in Nat : Lcg(key, it)[n] =
                IF n = 0 THEN it ELSE Advance(key, Lcg(key, it)[n - 1])
<1> DEFINE T(n) == CHOOSE g : Table(g, n, key, it)
           f == [n \in Nat |-> T(n)[n]]
           Rec(F) == [n \in Nat |-> IF n = 0 THEN it ELSE Advance(key, F[n - 1])]
<1>1. \A n \in Nat : Table(T(n), n, key, it)
  BY TableExists
<1> HIDE DEF T
<1>2. f \in [Nat -> Word]
  <2>1. ASSUME NEW n \in Nat PROVE T(n)[n] \in Word
    BY <1>1 DEF Table
  <2> QED
    BY <2>1
<1>3. ASSUME NEW n \in Nat
      PROVE  f[n] = IF n = 0 THEN it ELSE Advance(key, f[n - 1])
  <2>1. CASE n = 0
    BY <1>1, <2>1 DEF Table
  <2>2. CASE n # 0
    <3>1. n - 1 \in Nat /\ n \in 1 .. n
      BY <2>2
    <3>2. T(n)[n] = Advance(key, T(n)[n - 1])
      BY <1>1, <3>1 DEF Table
    <3>3. T(n)[n - 1] = T(n - 1)[n - 1]
      BY <1>1, <3>1, TableUnique
    <3> QED
      BY <2>2, <3>1, <3>2, <3>3
  <2> QED
    BY <2>1, <2>2
<1>4. f = Rec(f)
  BY <1>2, <1>3
<1> DEFINE L == CHOOSE F : F = Rec(F)
<1> HIDE DEF f
<1>5. L = Rec(L)
  BY <1>4
<1>6. Lcg(key, it) = L
  BY DEF Lcg
<1> HIDE DEF L
<1>7. \A n \in Nat : L[n] = IF n = 0 THEN it ELSE Advance(key, L[n - 1])
  BY <1>5
<1>8. DOMAIN L = Nat
  BY <1>5
<1> DEFINE S == {n \in Nat : L[n] \in Word}
<1>9. Nat \subseteq S
  <2>1. 0 \in S
    BY <1>7
  <2>2. ASSUME NEW n \in Nat, n \in S PROVE n + 1 \in S
    <3>1. L[n + 1] = Advance(key, L[n])
      BY <1>7
    <3> QED
      BY <2>2, <3>1, AdvanceType
  <2> HIDE DEF S
  <2> QED
    BY <2>1, <2>2, NatSet
<1>10. L \in [Nat -> Word]
  BY <1>5, <1>9
<1> QED
  BY <1>6, <1>7, <1>10

\* Every entry of the key set is a number a codec can hold.
LEMMA KeyNat == Key \subseteq Nat
BY CipherAssumption

\* reset leaves a codec behind.
LEMMA ResetType ==
    ASSUME NEW key \in Nat
    PROVE  Reset(key) \in Codec
BY CipherAssumption DEF Reset, Codec

\* limit_from_type touches nothing but the limit.
LEMMA LimitType ==
    ASSUME NEW codec \in Codec, NEW t
    PROVE  /\ LimitFromType(codec, t) \in Codec
           /\ LimitFromType(codec, t).key = codec.key
           /\ LimitFromType(codec, t).iterator = codec.iterator
           /\ t \in CompressionType => LimitFromType(codec, t).limit = LimitOf[t]
<1>1. t \in CompressionType => LimitOf[t] \in Int
  BY CipherAssumption
<1> QED
  BY <1>1 DEF LimitFromType, Codec

\* The number of encrypted blocks is a prefix length of the body.
LEMMA EncryptedType ==
    ASSUME NEW codec \in Codec, NEW body \in Seq(Block)
    PROVE  Encrypted(codec, body) \in 0 .. Len(body)
<1>1. Len(body) \in Nat /\ codec.limit \in Int
  BY DEF Codec
<1> QED
  BY <1>1 DEF Encrypted

\* encrypt keeps the length of the data and the type of every block.
LEMMA CryptDataType ==
    ASSUME NEW codec \in Codec, NEW body \in Seq(Block)
    PROVE  /\ CryptData(codec, body) \in Seq(Block)
           /\ Len(CryptData(codec, body)) = Len(body)
<1>1. Lcg(codec.key, codec.iterator) \in [Nat -> Word]
  BY LcgType DEF Codec
<1> DEFINE L == Lcg(codec.key, codec.iterator)
           n == Encrypted(codec, body)
           data == [i \in 1 .. Len(body) |-> IF i <= n THEN Xor(body[i], L[i])
                                                       ELSE body[i]]
<1>2. \A i \in 1 .. Len(body) : L[i] \in Word /\ body[i] \in Block
  BY <1>1
<1> HIDE DEF L, n
<1>3. \A i \in 1 .. Len(body) : data[i] \in Block
  BY <1>2, CipherAssumption
<1>4. data \in [1 .. Len(body) -> Block]
  BY <1>3
<1>5. Len(body) \in Nat
  OBVIOUS
<1>6. data \in Seq(Block) /\ Len(data) = Len(body)
  BY <1>4, <1>5
<1> QED
  BY <1>6 DEF CryptData, L, n

\* encrypt leaves a codec of the same key behind.
LEMMA CryptStateType ==
    ASSUME NEW codec \in Codec, NEW body \in Seq(Block)
    PROVE  /\ CryptState(codec, body) \in Codec
           /\ CryptState(codec, body).key = codec.key
<1>1. Lcg(codec.key, codec.iterator) \in [Nat -> Word]
  BY LcgType DEF Codec
<1>2. Encrypted(codec, body) \in Nat
  BY EncryptedType
<1>3. Lcg(codec.key, codec.iterator)[Encrypted(codec, body)] \in Word
  BY <1>1, <1>2
<1>4. (IF codec.limit > 0 THEN codec.limit - Encrypted(codec, body)
                          ELSE codec.limit) \in Int
  BY <1>2 DEF Codec
<1> QED
  BY <1>3, <1>4 DEF CryptState, Codec

\* The symmetry decrypt relies on: from the same key, iterator and limit,
\* encrypting twice restores the data and moves the iterator as far.
LEMMA CryptInverse ==
    ASSUME NEW c1 \in Codec, NEW c2 \in Codec, NEW body \in Seq(Block),
           c1.key = c2.key, c1.iterator = c2.iterator, c1.limit = c2.limit
    PROVE  /\ CryptData(c2, CryptData(c1, body)) = body
           /\ CryptState(c2, CryptData(c1, body)).iterator
                = CryptState(c1, body).iterator
<1> DEFINE L == Lcg(c1.key, c1.iterator)
           n == Encrypted(c1, body)
           enc == CryptData(c1, body)
<1>1. enc \in Seq(Block) /\ Len(enc) = Len(body)
  BY CryptDataType
<1>2. Encrypted(c2, enc) = n
  BY <1>1 DEF Encrypted
<1>3. L \in [Nat -> Word]
  BY LcgType DEF Codec
<1>4. ASSUME NEW i \in 1 .. Len(body)
      PROVE  CryptData(c2, enc)[i] = body[i]
  <2>1. enc[i] = IF i <= n THEN Xor(body[i], L[i]) ELSE body[i]
    BY DEF CryptData
  <2>2. CryptData(c2, enc)[i] = IF i <= n THEN Xor(enc[i], L[i]) ELSE enc[i]
    BY <1>1, <1>2 DEF CryptData
  <2>3. L[i] \in Word /\ body[i] \in Block
    BY <1>3
  <2> HIDE DEF L, n, enc
  <2> QED
    BY <2>1, <2>2, <2>3, CipherAssumption
<1>5. /\ CryptData(c2, enc) \in Seq(Block)
      /\ Len(CryptData(c2, enc)) = Len(body)
  BY <1>1, CryptDataType
<1>6. CryptData(c2, enc) = body
  <2> HIDE DEF enc
  <2> QED
    BY <1>4, <1>5
<1>7. CryptState(c2, enc).iterator = CryptState(c1, body).iterator
  BY <1>2 DEF CryptState, Codec
<1> QED
  BY <1>6, <1>7

-----------------------------------------------------------------------------
(* One packet. *)

\* The image of a message is a sequence of blocks.
LEMMA ImageType ==
    ASSUME NEW m \in Message, NEW t \in CompressionType
    PROVE  Image[m][t] \in Seq(Block)
BY SessionAssumption

\* A compressed image identifies its message.
LEMMA DecompressImage ==
    ASSUME NEW m \in Message, NEW t \in CompressionType
    PROVE  Decompress(t, Image[m][t]) = m
BY SessionAssumption DEF Decompress

\* Decompressing gives a message, nothing or garbage.
LEMMA DecompressType ==
    ASSUME NEW t, NEW body
    PROVE  Decompress(t, body) \in Result
BY DEF Decompress, Result

\* A policy picks one of the three compressions.
LEMMA TypeForType ==
    ASSUME NEW policy, NEW m
    PROVE  TypeFor(policy, m) \in CompressionType
BY DEF TypeFor, CompressionType

\* send_packet makes a well-formed packet, keeps the key, and the packet
\* bridges the iterator before to the iterator after.
LEMMA SealStep ==
    ASSUME NEW codec \in Codec, NEW t \in CompressionType, NEW m \in Message
    PROVE  /\ SealedPacket(codec, t, m) \in Packet
           /\ SealedPacket(codec, t, m).tag = t
           /\ SealedState(codec, t, m) \in Codec
           /\ SealedState(codec, t, m).key = codec.key
           /\ Sealed(SealedPacket(codec, t, m), m, codec.key, codec.iterator,
                     SealedState(codec, t, m).iterator)
<1> DEFINE c == LimitFromType(codec, t)
           d == LimitFromType([key |-> codec.key, iterator |-> codec.iterator,
                               limit |-> -1], t)
<1>1. c \in Codec /\ c.key = codec.key
  BY LimitType
<1>2. c = d
  BY DEF LimitFromType, Codec
<1>3. Image[m][t] \in Seq(Block)
  BY ImageType
<1>4. SealedPacket(codec, t, m) = [tag |-> t, body |-> CryptData(c, Image[m][t])]
  BY DEF SealedPacket
<1>5. SealedState(codec, t, m) = CryptState(c, Image[m][t])
  BY DEF SealedState
<1> HIDE DEF c
<1>6. CryptData(c, Image[m][t]) \in Seq(Block)
  BY <1>1, <1>3, CryptDataType
<1>7. /\ CryptState(c, Image[m][t]) \in Codec
      /\ CryptState(c, Image[m][t]).key = codec.key
  BY <1>1, <1>3, CryptStateType
<1>8. SealedPacket(codec, t, m) \in Packet
  BY <1>4, <1>6 DEF Packet
<1>9. Sealed(SealedPacket(codec, t, m), m, codec.key, codec.iterator,
             SealedState(codec, t, m).iterator)
  BY <1>2, <1>4, <1>5 DEF Sealed
<1> QED
  BY <1>4, <1>5, <1>7, <1>8, <1>9

\* recv_packet leaves a codec of the same key.
LEMMA OpenType ==
    ASSUME NEW codec \in Codec, NEW p \in Packet
    PROVE  /\ OpenedState(codec, p) \in Codec
           /\ OpenedState(codec, p).key = codec.key
           /\ OpenedData(codec, p) \in Result
<1>1. p.body \in Seq(Block)
  BY DEF Packet
<1> DEFINE c == LimitFromType(codec, p.tag)
<1>2. c \in Codec /\ c.key = codec.key
  BY LimitType
<1> HIDE DEF c
<1>3. CryptState(c, p.body) \in Codec /\ CryptState(c, p.body).key = codec.key
  BY <1>1, <1>2, CryptStateType
<1>4. OpenedData(codec, p) \in Result
  BY DecompressType DEF OpenedData, Result
<1> QED
  BY <1>3, <1>4 DEF OpenedState, c

\* recv_packet on a packet sealed at its own iterator returns the message and
\* moves the iterator to where the sender's went.
LEMMA OpenStep ==
    ASSUME NEW codec \in Codec, NEW p \in Packet, NEW m, NEW to,
           Sealed(p, m, codec.key, codec.iterator, to)
    PROVE  /\ OpenedState(codec, p).iterator = to
           /\ p.tag # PLAIN => OpenedData(codec, p) = m
           /\ p.tag = PLAIN => /\ m \in Message
                               /\ Decompress(ZLIB, p.body) = m
<1>1. CASE p.tag \in CompressionType
  <2> DEFINE c == LimitFromType(codec, p.tag)
             d == LimitFromType([key |-> codec.key, iterator |-> codec.iterator,
                                 limit |-> -1], p.tag)
             body == Image[m][p.tag]
  <2>1. p.tag # PLAIN /\ p.tag \notin {FOREIGN, EMPTY}
    BY <1>1 DEF CompressionType, UNCOMPRESSED, ZLIB, BZ2, PLAIN, FOREIGN, EMPTY
  <2>2. c \in Codec
    BY LimitType
  <2>3. c = d
    BY <1>1 DEF LimitFromType, Codec
  <2>4. m \in Message /\ p.body = CryptData(d, body)
                      /\ to = CryptState(d, body).iterator
    BY <2>1 DEF Sealed
  <2>5. body \in Seq(Block)
    BY <1>1, <2>4, ImageType
  <2> HIDE DEF c, d, body
  <2>6. /\ CryptData(c, p.body) = body
        /\ CryptState(c, p.body).iterator = to
    BY <2>2, <2>3, <2>4, <2>5, CryptInverse
  <2>7. Decompress(p.tag, body) = m
    BY <1>1, <2>4, DecompressImage DEF body
  <2> QED
    BY <1>1, <2>1, <2>6, <2>7 DEF OpenedState, OpenedData, c
<1>2. CASE p.tag = PLAIN
  <2>1. p.tag \notin CompressionType /\ p.tag \notin {FOREIGN, EMPTY}
    BY <1>2 DEF CompressionType, UNCOMPRESSED, ZLIB, BZ2, PLAIN, FOREIGN, EMPTY
  <2>2. m \in Message /\ p.body = Image[m][ZLIB] /\ to = codec.iterator
    BY <2>1 DEF Sealed
  <2>3. Decompress(ZLIB, p.body) = m
    BY <2>2, DecompressImage DEF CompressionType
  <2> QED
    BY <1>2, <2>1, <2>2, <2>3 DEF OpenedState
<1>3. CASE p.tag \notin CompressionType /\ p.tag # PLAIN
  BY <1>3 DEF Sealed, OpenedState, OpenedData
<1> QED
  BY <1>1, <1>2, <1>3

-----------------------------------------------------------------------------
(* One pipe. *)

\* An empty pipe is chained exactly when the two ciphers agree.
LEMMA ChainEmpty ==
    ASSUME NEW snd \in Codec, NEW rcv \in Codec
    PROVE  Chained(<<>>, <<>>, snd, rcv) <=> SameCipher(snd, rcv)
<1>1. Len(<<>>) = 0 /\ 1 .. 0 + 1 = {1}
  OBVIOUS
<1>2. ASSUME SameCipher(snd, rcv) PROVE Chained(<<>>, <<>>, snd, rcv)
  <2> DEFINE at == [i \in 1 .. Len(<<>>) + 1 |-> rcv.iterator]
  <2>1. /\ at \in [1 .. Len(<<>>) + 1 -> Word]
        /\ at[1] = rcv.iterator /\ at[Len(<<>>) + 1] = snd.iterator
    BY <1>1, <1>2 DEF SameCipher, Codec
  <2>2. 1 .. Len(<<>>) = {}
    BY <1>1
  <2> HIDE DEF at
  <2> QED
    BY <1>2, <2>1, <2>2 DEF Chained, SameCipher
<1>3. ASSUME Chained(<<>>, <<>>, snd, rcv) PROVE SameCipher(snd, rcv)
  BY <1>1, <1>3 DEF Chained, SameCipher
<1> QED
  BY <1>2, <1>3

\* A packet that bridges the sender's iterator extends the chain.
LEMMA ChainAppend ==
    ASSUME NEW ps \in Seq(Packet), NEW ms \in Seq(Entry), Len(ms) = Len(ps),
           NEW p \in Packet, NEW m \in Entry,
           NEW snd \in Codec, NEW snd2 \in Codec, NEW rcv \in Codec,
           snd2.key = snd.key,
           Sealed(p, m, snd.key, snd.iterator, snd2.iterator),
           Chained(ps, ms, snd, rcv)
    PROVE  Chained(Append(ps, p), Append(ms, m), snd2, rcv)
<1> DEFINE n == Len(ps)
           qs == Append(ps, p)
           ls == Append(ms, m)
<1>1. PICK at \in [1 .. n + 1 -> Word] :
          /\ at[1] = rcv.iterator
          /\ at[n + 1] = snd.iterator
          /\ \A i \in 1 .. n : Sealed(ps[i], ms[i], snd.key, at[i], at[i + 1])
  BY DEF Chained
<1> DEFINE bt == [i \in 1 .. n + 2 |-> IF i = n + 2 THEN snd2.iterator ELSE at[i]]
<1>2. n \in Nat /\ Len(qs) = n + 1
  OBVIOUS
<1>3. bt \in [1 .. Len(qs) + 1 -> Word]
  BY <1>2 DEF Codec
<1>4. bt[1] = rcv.iterator /\ bt[Len(qs) + 1] = snd2.iterator
  BY <1>1, <1>2
<1>5. ASSUME NEW i \in 1 .. Len(qs)
      PROVE  Sealed(qs[i], ls[i], snd2.key, bt[i], bt[i + 1])
  <2>1. CASE i = n + 1
    <3>1. qs[i] = p /\ ls[i] = m /\ bt[i] = snd.iterator
          /\ bt[i + 1] = snd2.iterator
      BY <1>1, <1>2, <2>1
    <3> QED
      BY <3>1
  <2>2. CASE i # n + 1
    <3>1. i \in 1 .. n
      BY <1>2, <2>2
    <3>2. qs[i] = ps[i] /\ ls[i] = ms[i] /\ bt[i] = at[i] /\ bt[i + 1] = at[i + 1]
      BY <1>2, <3>1
    <3> QED
      BY <1>1, <3>1, <3>2
  <2> QED
    BY <2>1, <2>2
<1>6. snd2.key = rcv.key
  BY DEF Chained
<1> HIDE DEF qs, ls, bt
<1> QED
  BY <1>3, <1>4, <1>5, <1>6 DEF Chained, qs, ls

\* Taking the head off a pipe: it is sealed at the receiver's iterator, and
\* the rest is chained to the receiver it leads to.
LEMMA ChainTail ==
    ASSUME NEW ps \in Seq(Packet), NEW ms \in Seq(Entry), Len(ms) = Len(ps),
           NEW snd \in Codec, NEW rcv \in Codec,
           ps # <<>>, Chained(ps, ms, snd, rcv)
    PROVE  \E to \in Word :
             /\ Sealed(Head(ps), Head(ms), rcv.key, rcv.iterator, to)
             /\ \A rcv2 \in Codec : rcv2.key = rcv.key /\ rcv2.iterator = to
                   => Chained(Tail(ps), Tail(ms), snd, rcv2)
<1> DEFINE n == Len(ps)
           qs == Tail(ps)
           ls == Tail(ms)
<1>1. PICK at \in [1 .. n + 1 -> Word] :
          /\ at[1] = rcv.iterator
          /\ at[n + 1] = snd.iterator
          /\ \A i \in 1 .. n : Sealed(ps[i], ms[i], snd.key, at[i], at[i + 1])
  BY DEF Chained
<1>2. n \in Nat /\ n >= 1 /\ Len(qs) = n - 1
  OBVIOUS
<1>3. snd.key = rcv.key
  BY DEF Chained
<1>4. Head(ps) = ps[1] /\ Head(ms) = ms[1]
  BY <1>2
<1>5. Sealed(Head(ps), Head(ms), rcv.key, rcv.iterator, at[2])
  <2>1. 1 \in 1 .. n /\ 1 + 1 = 2
    BY <1>2
  <2>2. Sealed(ps[1], ms[1], snd.key, at[1], at[2])
    BY <1>1, <2>1
  <2> QED
    BY <1>1, <1>3, <1>4, <2>2
<1>6. at[2] \in Word
  BY <1>2
<1>7. ASSUME NEW rcv2 \in Codec, rcv2.key = rcv.key, rcv2.iterator = at[2]
      PROVE  Chained(qs, ls, snd, rcv2)
  <2> DEFINE bt == [i \in 1 .. n |-> at[i + 1]]
  <2>1. bt \in [1 .. Len(qs) + 1 -> Word]
    BY <1>2
  <2>2. bt[1] = rcv2.iterator /\ bt[Len(qs) + 1] = snd.iterator
    BY <1>1, <1>2, <1>7
  <2>3. ASSUME NEW i \in 1 .. Len(qs)
        PROVE  Sealed(qs[i], ls[i], snd.key, bt[i], bt[i + 1])
    <3>1. i + 1 \in 1 .. n /\ qs[i] = ps[i + 1] /\ ls[i] = ms[i + 1]
      BY <1>2
    <3>2. bt[i] = at[i + 1] /\ bt[i + 1] = at[(i + 1) + 1]
      BY <1>2, <3>1
    <3> QED
      BY <1>1, <3>1, <3>2
  <2>4. snd.key = rcv2.key
    BY <1>3, <1>7
  <2> HIDE DEF bt, qs, ls
  <2> QED
    BY <2>1, <2>2, <2>3, <2>4 DEF Chained
<1> QED
  BY <1>5, <1>6, <1>7

-----------------------------------------------------------------------------
(* The session. *)

IInv == TypeOK /\ SessionInv

\* The invariant holds at the start.
LEMMA InitInv == Init => IInv
<1> SUFFICES ASSUME Init PROVE IInv
  OBVIOUS
<1>1. Reset(0) \in Codec
  BY ResetType
<1>2. TypeOK
  BY <1>1 DEF Init, TypeOK, Result
<1>3. SessionInv
  BY DEF Init, SessionInv, UpChain, LoginFirst, KeyPending, DownChain, Keyed
<1> QED
  BY <1>2, <1>3 DEF IInv

\* With a connection, both ends of the pipe to the server are codecs.
LEMMA UpReceiverType == TypeOK => UpReceiver \in Codec
<1>1. TypeOK => client.out \in Codec /\ client.out.key \in Nat
  BY DEF TypeOK, Codec
<1> QED
  BY <1>1, ResetType DEF TypeOK, UpReceiver

\* The login: the client makes the session's two codecs.
LEMMA ClientLoginInv ==
    ASSUME IInv, NEW k \in Key, ClientLogin(k)
    PROVE  IInv'
<1> USE DEF IInv
<1>1. k \in Nat /\ Reset(k) \in Codec /\ Login[k] \in Message
  BY KeyNat, ResetType, SessionAssumption
<1>2. /\ phase.client = "closed" /\ up = <<>> /\ phase.server = "login"
      /\ down = <<>> /\ upSent = <<>>
  <2>1. phase.client = "closed"
    BY DEF ClientLogin
  <2>2. up = <<>> /\ phase.server = "login"
    BY <2>1 DEF SessionInv, UpChain
  <2>3. down = <<>>
    BY <2>2 DEF SessionInv, DownChain, Keyed
  <2>4. upSent \in Seq(Entry) /\ Len(upSent) = 0
    BY <2>2 DEF TypeOK
  <2> QED
    BY <2>1, <2>2, <2>3, <2>4
<1>3. PlainPacket(Login[k]) \in Packet
  BY <1>1, ImageType DEF PlainPacket, Packet, CompressionType
<1>4. TypeOK'
  <2>1. client' \in [in : Codec, out : Codec]
    BY <1>1 DEF ClientLogin
  <2>2. /\ up' \in Seq(Packet) /\ upSent' \in Seq(Entry)
        /\ Len(up') = Len(upSent')
    BY <1>1, <1>3 DEF ClientLogin, TypeOK, Entry
  <2>3. phase' \in [client : {"closed", "open"},
                    server : {"login", "key", "respond", "open"}]
    BY DEF ClientLogin, TypeOK
  <2> QED
    BY <2>1, <2>2, <2>3 DEF ClientLogin, TypeOK
<1>5. /\ up' = Append(<<>>, PlainPacket(Login[k]))
      /\ upSent' = Append(<<>>, Login[k])
      /\ client'.out = Reset(k) /\ client'.in = Reset(k)
      /\ phase'.client = "open" /\ phase'.server = "login"
      /\ Reset(k).key = k
  BY <1>2 DEF ClientLogin, TypeOK, Reset
<1>6. UpChain'
  <2>1. Chained(<<>>, <<>>, Reset(k), Reset(k))
    BY <1>1, ChainEmpty DEF SameCipher
  <2>2. Sealed(PlainPacket(Login[k]), Login[k], k, Reset(k).iterator,
               Reset(k).iterator)
    BY <1>1 DEF Sealed, PlainPacket
  <2>3. Chained(up', upSent', Reset(k), Reset(k))
    <3>1. <<>> \in Seq(Packet) /\ <<>> \in Seq(Entry) /\ Len(<<>>) = Len(<<>>)
      OBVIOUS
    <3>2. Login[k] \in Entry
      BY <1>1 DEF Entry
    <3> QED
      BY <1>1, <1>3, <1>5, <2>1, <2>2, <3>1, <3>2, ChainAppend
  <2> QED
    BY <1>5, <2>3 DEF UpChain, UpReceiver, Keyed
<1>7. LoginFirst'
  <2>1. up'[1].tag = PLAIN /\ upSent'[1] = Login[k] /\ Len(up') = 1
    BY <1>5 DEF PlainPacket
  <2>2. server' = server /\ server.first
    BY <1>2 DEF ClientLogin, SessionInv, LoginFirst
  <2> QED
    BY <1>1, <1>5, <2>1, <2>2 DEF LoginFirst
<1>8. KeyPending' /\ DownChain'
  BY <1>2, <1>5 DEF ClientLogin, KeyPending, DownChain, Keyed
<1> QED
  BY <1>4, <1>6, <1>7, <1>8 DEF SessionInv

\* A packet that is not plain may follow whatever is in flight.
LEMMA LoginFirstAppend ==
    ASSUME TypeOK, LoginFirst, NEW p \in Packet, NEW m, p.tag # PLAIN,
           phase.client = "open",
           up' = Append(up, p), upSent' = Append(upSent, m),
           client'.out.key = client.out.key,
           UNCHANGED <<server, phase>>
    PROVE  LoginFirst'
<1>1. /\ up \in Seq(Packet) /\ upSent \in Seq(Entry) /\ Len(upSent) = Len(up)
  BY DEF TypeOK
<1>2. /\ \A i \in 1 .. Len(up) : up'[i] = up[i]
      /\ up'[Len(up) + 1] = p /\ Len(up') = Len(up) + 1
      /\ Len(up) \in Nat /\ up' # <<>>
  BY <1>1
<1>3. phase.server = "login" => Len(up) >= 1 /\ upSent'[1] = upSent[1]
  BY <1>1 DEF LoginFirst
<1>4. \A i \in 1 .. Len(up') :
         up'[i].tag = PLAIN <=> i = 1 /\ phase.server = "login"
  <2> TAKE i \in 1 .. Len(up')
  <2>1. CASE i \in 1 .. Len(up)
    BY <1>2, <2>1 DEF LoginFirst
  <2>2. CASE i = Len(up) + 1
    BY <1>2, <1>3, <2>2
  <2> QED
    BY <1>2, <2>1, <2>2
<1> QED
  BY <1>2, <1>3, <1>4 DEF LoginFirst

\* A send by the client, before the login and after it.
LEMMA ClientSendInv ==
    ASSUME IInv, NEW m \in Message, ClientSend(m)
    PROVE  IInv'
<1> USE DEF IInv
<1> DEFINE t == TypeFor(ClientPolicy, m)
           p == SealedPacket(client.out, t, m)
           c == SealedState(client.out, t, m)
<1>1. CASE Oversize(ClientPolicy, m)
  <2>1. UNCHANGED vars
    BY <1>1 DEF ClientSend, vars
  <2> QED
    BY <2>1 DEF vars, TypeOK, SessionInv, UpChain, UpReceiver, LoginFirst,
                KeyPending, DownChain, Keyed
<1>2. CASE ~ Oversize(ClientPolicy, m)
  <2>1. /\ p \in Packet /\ p.tag = t /\ c \in Codec /\ c.key = client.out.key
        /\ Sealed(p, m, client.out.key, client.out.iterator, c.iterator)
    BY SealStep, TypeForType DEF TypeOK
  <2>2. /\ client' = [client EXCEPT !.out = c]
        /\ up' = Append(up, p) /\ upSent' = Append(upSent, m)
        /\ phase.client = "open"
        /\ UNCHANGED <<server, down, phase, loginKey, downSent, upGot, downGot>>
    BY <1>2 DEF ClientSend
  <2> HIDE DEF p, c, t
  <2>3. client'.out = c /\ client'.in = client.in
    BY <2>2 DEF TypeOK
  <2>4. TypeOK'
    <3>1. client' \in [in : Codec, out : Codec]
      BY <2>1, <2>2 DEF TypeOK
    <3>2. m \in Entry
      BY DEF Entry
    <3>3. /\ up' \in Seq(Packet) /\ upSent' \in Seq(Entry)
          /\ Len(up') = Len(upSent')
      BY <2>1, <2>2, <3>2 DEF TypeOK
    <3> QED
      BY <2>2, <3>1, <3>3 DEF TypeOK
  <2>5. UpReceiver' = UpReceiver
    BY <2>1, <2>2, <2>3 DEF UpReceiver, Keyed
  <2>6. UpChain'
    <3>1. Chained(up, upSent, client.out, UpReceiver)
      BY <2>2 DEF SessionInv, UpChain
    <3>2. Chained(up', upSent', c, UpReceiver)
      <4>1. /\ up \in Seq(Packet) /\ upSent \in Seq(Entry)
            /\ Len(upSent) = Len(up) /\ m \in Entry
            /\ client.out \in Codec /\ UpReceiver \in Codec
        BY UpReceiverType DEF TypeOK, Entry
      <4> QED
        BY <2>1, <2>2, <3>1, <4>1, ChainAppend
    <3> QED
      BY <2>2, <2>3, <2>5, <3>2 DEF UpChain
  <2>7. LoginFirst'
    <3>1. p.tag # PLAIN
      BY <2>1, TypeForType
         DEF t, CompressionType, UNCOMPRESSED, ZLIB, BZ2, PLAIN
    <3> QED
      BY <2>1, <2>2, <2>3, <3>1, LoginFirstAppend DEF SessionInv
  <2>8. KeyPending' /\ DownChain'
    BY <2>1, <2>2, <2>3 DEF SessionInv, KeyPending, DownChain, Keyed
  <2> QED
    BY <2>4, <2>6, <2>7, <2>8 DEF SessionInv
<1> QED
  BY <1>1, <1>2

\* The tail of a non-empty pipe is a pipe, and its history follows it.
LEMMA TailType ==
    ASSUME NEW ps \in Seq(Packet), NEW ms \in Seq(Entry), Len(ms) = Len(ps),
           ps # <<>>
    PROVE  /\ Tail(ps) \in Seq(Packet) /\ Tail(ms) \in Seq(Entry)
           /\ Len(Tail(ms)) = Len(Tail(ps))
           /\ Head(ps) \in Packet /\ Head(ps) = ps[1]
           /\ Head(ms) \in Entry /\ Head(ms) = ms[1]
           /\ \A i \in 1 .. Len(Tail(ps)) :
                 i + 1 \in 1 .. Len(ps) /\ Tail(ps)[i] = ps[i + 1] /\ i + 1 # 1
<1>1. Len(ms) >= 1
  OBVIOUS
<1> QED
  BY <1>1

\* The server's first packet is the login: it yields the client's key and
\* leaves the cipher alone.
LEMMA FirstDecodeInv ==
    ASSUME IInv, ServerDecode, server.first
    PROVE  IInv' /\ upGot' = Head(upSent)
<1> USE DEF IInv
<1> DEFINE p   == Head(up)
           key == client.out.key
<1>1. /\ phase.server = "login" /\ up # <<>> /\ phase.client = "open"
      /\ down = <<>> /\ client.in = Reset(key)
  BY DEF ServerDecode, SessionInv, LoginFirst, UpChain, DownChain, Keyed, TypeOK
<1>2. /\ up \in Seq(Packet) /\ upSent \in Seq(Entry) /\ Len(upSent) = Len(up)
  BY DEF TypeOK
<1>3. key \in Key /\ upSent[1] = Login[key] /\ Login[key] \in Message
  BY <1>1, SessionAssumption DEF SessionInv, LoginFirst
<1>4. key \in Nat /\ Reset(key) \in Codec /\ Reset(key).key = key
  BY <1>3, KeyNat, ResetType DEF Reset
<1>5. Chained(up, upSent, client.out, Reset(key))
  BY <1>1 DEF SessionInv, UpChain, UpReceiver, Keyed
<1>6. p.tag = PLAIN
  <2>1. 1 \in 1 .. Len(up)
    BY <1>1, <1>2
  <2> QED
    BY <1>1, <1>2, <2>1, TailType DEF SessionInv, LoginFirst
<1>7. client.out \in Codec
  BY DEF TypeOK
<1>8. PICK to \in Word :
         /\ Sealed(p, Head(upSent), Reset(key).key, Reset(key).iterator, to)
         /\ \A rcv2 \in Codec : rcv2.key = Reset(key).key /\ rcv2.iterator = to
               => Chained(Tail(up), Tail(upSent), client.out, rcv2)
  BY <1>1, <1>2, <1>4, <1>5, <1>7, ChainTail
<1>9. /\ Decompress(ZLIB, p.body) = Head(upSent)
      /\ OpenedState(Reset(key), p).iterator = to
      /\ p \in Packet
  <2>1. p \in Packet
    BY <1>1, <1>2, TailType
  <2> HIDE DEF p, key
  <2>2. Sealed(p, Head(upSent), Reset(key).key, Reset(key).iterator, to)
    BY <1>8
  <2> QED
    BY <1>4, <1>6, <2>1, <2>2, OpenStep
<1>10. to = Reset(key).iterator
  BY <1>6, <1>9 DEF OpenedState, CompressionType, UNCOMPRESSED, ZLIB, BZ2, PLAIN
<1>11. Decompress(ZLIB, p.body) = Login[key]
  BY <1>1, <1>2, <1>3, <1>9, TailType
<1>12. Login[key] # None
  BY <1>3, SessionAssumption
<1>13. /\ upGot' = Login[key]
       /\ server' = [server EXCEPT !.first = FALSE]
       /\ phase' = [phase EXCEPT !.server = "key"]
       /\ loginKey' = key
       /\ up' = Tail(up) /\ upSent' = Tail(upSent)
       /\ UNCHANGED <<client, down, downSent, downGot>>
  <2>1. p.tag # EMPTY
    BY <1>6 DEF PLAIN, EMPTY
  <2>2. (CHOOSE k \in Key : Login[k] = Login[key]) = key
    BY <1>3, SessionAssumption
  <2>3. server.first /\ \E k \in Key : Login[k] = Login[key]
    BY <1>3
  <2>4. Login[key] = IF p.tag = EMPTY THEN None
                     ELSE IF server.first THEN FirstResult(p)
                     ELSE OpenedData(server.in, p)
    BY <1>6, <1>11, <2>1 DEF FirstResult
  <2> HIDE DEF key, p
  <2> QED
    BY <1>12, <2>2, <2>3, <2>4 DEF ServerDecode, p
<1>14. TypeOK'
  <2>1. up' \in Seq(Packet) /\ upSent' \in Seq(Entry) /\ Len(upSent') = Len(up')
    BY <1>1, <1>2, <1>13, TailType
  <2>2. server' \in [in : Codec, out : Codec, first : BOOLEAN]
    BY <1>13 DEF TypeOK
  <2>3. phase' \in [client : {"closed", "open"},
                    server : {"login", "key", "respond", "open"}]
    BY <1>13 DEF TypeOK
  <2>4. upGot' \in Result
    BY <1>3, <1>13 DEF Result
  <2> QED
    BY <1>3, <1>13, <2>1, <2>2, <2>3, <2>4 DEF TypeOK
<1>15. /\ phase'.client = "open" /\ phase'.server = "key"
       /\ server'.first = FALSE /\ client'.out.key = key
  BY <1>1, <1>13 DEF TypeOK
<1>16. UpChain'
  <2>1. Chained(Tail(up), Tail(upSent), client.out, Reset(key))
    BY <1>4, <1>8, <1>10
  <2> QED
    BY <1>13, <1>15, <2>1 DEF UpChain, UpReceiver, Keyed
<1>17. LoginFirst'
  <2>1. \A i \in 1 .. Len(up') : up'[i].tag # PLAIN
    BY <1>1, <1>2, <1>13, TailType DEF SessionInv, LoginFirst
  <2> QED
    BY <1>15, <2>1 DEF LoginFirst
<1>18. KeyPending' /\ DownChain'
  BY <1>1, <1>3, <1>13, <1>15 DEF KeyPending, DownChain, Keyed
<1> QED
  BY <1>1, <1>2, <1>3, <1>13, <1>14, <1>16, <1>17, <1>18, TailType DEF SessionInv

\* Every later packet is opened by the cipher it was sealed for.
LEMMA NextDecodeInv ==
    ASSUME IInv, ServerDecode, ~ server.first
    PROVE  IInv' /\ upGot' = Head(upSent)
<1> USE DEF IInv
<1> DEFINE p == Head(up)
           c == OpenedState(server.in, p)
<1>1. /\ phase.server \in {"respond", "open"} /\ up # <<>>
      /\ phase.client = "open"
  BY DEF ServerDecode, SessionInv, LoginFirst, UpChain, TypeOK
<1>2. /\ up \in Seq(Packet) /\ upSent \in Seq(Entry) /\ Len(upSent) = Len(up)
      /\ client.out \in Codec /\ server.in \in Codec
  BY DEF TypeOK
<1>3. Chained(up, upSent, client.out, server.in)
  BY <1>1 DEF SessionInv, UpChain, UpReceiver, Keyed
<1>4. PICK to \in Word :
         /\ Sealed(p, Head(upSent), server.in.key, server.in.iterator, to)
         /\ \A rcv2 \in Codec : rcv2.key = server.in.key /\ rcv2.iterator = to
               => Chained(Tail(up), Tail(upSent), client.out, rcv2)
  BY <1>1, <1>2, <1>3, ChainTail
<1>5. p \in Packet /\ p.tag # PLAIN
  <2>1. 1 \in 1 .. Len(up)
    BY <1>1, <1>2
  <2> QED
    BY <1>1, <1>2, <2>1, TailType DEF SessionInv, LoginFirst
<1>6. /\ OpenedData(server.in, p) = Head(upSent)
      /\ c.iterator = to /\ c.key = server.in.key /\ c \in Codec
  <2> HIDE DEF p
  <2>1. Sealed(p, Head(upSent), server.in.key, server.in.iterator, to)
    BY <1>4
  <2>2. /\ OpenedData(server.in, p) = Head(upSent)
        /\ c.iterator = to
    BY <1>2, <1>5, <2>1, OpenStep
  <2> QED
    BY <1>2, <1>5, <2>2, OpenType
<1>7. p.tag = EMPTY => OpenedData(server.in, p) = None
  BY DEF OpenedData, CompressionType, UNCOMPRESSED, ZLIB, BZ2, EMPTY
<1>8. /\ upGot' = Head(upSent)
      /\ server' = [server EXCEPT !.in = c]
      /\ UNCHANGED <<client, down, phase, loginKey, downSent, downGot>>
      /\ up' = Tail(up) /\ upSent' = Tail(upSent)
  BY <1>6, <1>7 DEF ServerDecode
<1> HIDE DEF c, p
<1>9. server'.in = c /\ server'.first = server.first /\ server'.out = server.out
  BY <1>8 DEF TypeOK
<1>10. TypeOK'
  <2>1. up' \in Seq(Packet) /\ upSent' \in Seq(Entry) /\ Len(upSent') = Len(up')
    BY <1>1, <1>2, <1>8, TailType
  <2>2. server' \in [in : Codec, out : Codec, first : BOOLEAN]
    BY <1>6, <1>8 DEF TypeOK
  <2>3. upGot' \in Result
    BY <1>1, <1>2, <1>8, TailType DEF Result, Entry
  <2> QED
    BY <1>8, <2>1, <2>2, <2>3 DEF TypeOK
<1>11. UpChain'
  <2>1. Chained(Tail(up), Tail(upSent), client.out, c)
    BY <1>4, <1>6
  <2> QED
    BY <1>1, <1>8, <1>9, <2>1 DEF UpChain, UpReceiver, Keyed
<1>12. LoginFirst'
  <2>1. \A i \in 1 .. Len(up') : up'[i].tag # PLAIN
    BY <1>1, <1>2, <1>8, TailType DEF SessionInv, LoginFirst
  <2> QED
    BY <1>1, <1>8, <1>9, <2>1 DEF SessionInv, LoginFirst
<1>13. KeyPending' /\ DownChain'
  BY <1>1, <1>8, <1>9 DEF SessionInv, KeyPending, DownChain, Keyed
<1> QED
  BY <1>8, <1>10, <1>11, <1>12, <1>13 DEF SessionInv

\* The server takes the key of the login.
LEMMA ServerSetKeyInv ==
    ASSUME IInv, ServerSetKey
    PROVE  IInv'
<1> USE DEF IInv
<1> DEFINE key == client.out.key
<1>1. /\ phase.server = "key" /\ loginKey = key /\ key \in Key
      /\ phase.client = "open" /\ down = <<>> /\ client.in = Reset(key)
  BY DEF ServerSetKey, SessionInv, UpChain, KeyPending, DownChain, Keyed, TypeOK
<1>2. Reset(key) \in Codec
  BY <1>1, KeyNat, ResetType
<1>3. /\ server' = [server EXCEPT !.in = Reset(key), !.out = Reset(key)]
      /\ phase' = [phase EXCEPT !.server = "respond"]
      /\ UNCHANGED <<client, up, down, loginKey, upSent, downSent, upGot, downGot>>
  BY <1>1 DEF ServerSetKey, pipes
<1> HIDE DEF key
<1>4. /\ phase'.server = "respond" /\ phase'.client = "open"
      /\ server'.in = Reset(key) /\ server'.out = Reset(key)
      /\ server'.first = server.first
  BY <1>1, <1>3 DEF TypeOK
<1>5. TypeOK'
  <2>1. server' \in [in : Codec, out : Codec, first : BOOLEAN]
    BY <1>2, <1>3 DEF TypeOK
  <2>2. phase' \in [client : {"closed", "open"},
                    server : {"login", "key", "respond", "open"}]
    BY <1>3 DEF TypeOK
  <2> QED
    BY <1>3, <2>1, <2>2 DEF TypeOK
<1>6. UpChain'
  BY <1>1, <1>3, <1>4 DEF SessionInv, UpChain, UpReceiver, Keyed, key
<1>7. LoginFirst' /\ KeyPending'
  BY <1>1, <1>3, <1>4 DEF SessionInv, LoginFirst, KeyPending
<1>8. DownChain'
  <2>1. downSent = <<>>
    BY <1>1 DEF TypeOK
  <2>2. Chained(<<>>, <<>>, Reset(key), Reset(key))
    BY <1>2, ChainEmpty DEF SameCipher
  <2> QED
    BY <1>1, <1>3, <1>4, <2>1, <2>2 DEF DownChain, Keyed
<1> QED
  BY <1>5, <1>6, <1>7, <1>8 DEF SessionInv

\* Appending to the pipe to the client a packet that bridges the server's
\* iterator keeps the invariant.
LEMMA DownAppendInv ==
    ASSUME IInv, Keyed, NEW p \in Packet, NEW m \in Entry, NEW c \in Codec,
           c.key = server.out.key,
           Sealed(p, m, server.out.key, server.out.iterator, c.iterator),
           server' = [server EXCEPT !.out = c],
           down' = Append(down, p), downSent' = Append(downSent, m),
           phase' \in [client : {phase.client}, server : {"respond", "open"}],
           UNCHANGED <<client, up, loginKey, upSent, upGot, downGot>>
    PROVE  IInv'
<1> USE DEF IInv
<1>1. /\ server'.in = server.in /\ server'.first = server.first
      /\ server'.out = c
      /\ phase'.client = phase.client /\ phase'.server \in {"respond", "open"}
      /\ phase.server \in {"respond", "open"}
  BY DEF TypeOK, Keyed
<1>2. TypeOK'
  <2>1. server' \in [in : Codec, out : Codec, first : BOOLEAN]
    BY DEF TypeOK
  <2>2. phase' \in [client : {"closed", "open"},
                    server : {"login", "key", "respond", "open"}]
    BY DEF TypeOK
  <2>3. /\ down' \in Seq(Packet) /\ downSent' \in Seq(Entry)
        /\ Len(downSent') = Len(down')
    BY DEF TypeOK
  <2> QED
    BY <2>1, <2>2, <2>3 DEF TypeOK
<1>3. UpChain' /\ LoginFirst' /\ KeyPending'
  BY <1>1 DEF SessionInv, UpChain, UpReceiver, LoginFirst, KeyPending, Keyed
<1>4. DownChain'
  <2>1. /\ down \in Seq(Packet) /\ downSent \in Seq(Entry)
        /\ Len(downSent) = Len(down)
        /\ server.out \in Codec /\ client.in \in Codec
    BY DEF TypeOK
  <2>2. Chained(down, downSent, server.out, client.in)
    BY DEF SessionInv, DownChain
  <2>3. Chained(down', downSent', c, client.in)
    BY <2>1, <2>2, ChainAppend
  <2> QED
    BY <1>1, <2>3 DEF DownChain, Keyed
<1> QED
  BY <1>2, <1>3, <1>4 DEF SessionInv

\* A step that changes nothing keeps the invariant.
LEMMA UnchangedInv ==
    ASSUME IInv, UNCHANGED vars
    PROVE  IInv'
BY DEF IInv, vars, TypeOK, SessionInv, UpChain, UpReceiver, LoginFirst,
       KeyPending, DownChain, Keyed

\* The server answers the login.
LEMMA ServerRespondInv ==
    ASSUME IInv, NEW m \in Message, ServerRespond(m)
    PROVE  IInv'
<1> USE DEF IInv
<1>1. /\ phase.server = "respond"
      /\ phase' = [phase EXCEPT !.server = "open"]
      /\ UNCHANGED <<client, server, up, loginKey, upSent, upGot, downGot>>
  BY DEF ServerRespond, codecs
<1>2. Keyed /\ phase'.client = phase.client /\ phase'.server = "open"
  BY <1>1 DEF Keyed, TypeOK
<1>3. CASE PlainFits(m)
  <2> DEFINE p == PlainPacket(m)
  <2>1. p \in Packet /\ m \in Entry
    BY ImageType DEF PlainPacket, Packet, CompressionType, Entry
  <2>2. /\ server.out \in Codec
        /\ server' = [server EXCEPT !.out = server.out]
    BY <1>1 DEF TypeOK
  <2>3. Sealed(p, m, server.out.key, server.out.iterator, server.out.iterator)
    BY DEF Sealed, PlainPacket
  <2>4. down' = Append(down, p) /\ downSent' = Append(downSent, m)
    BY <1>3 DEF ServerRespond
  <2>5. phase' \in [client : {phase.client}, server : {"respond", "open"}]
    BY <1>1 DEF TypeOK
  <2> HIDE DEF p
  <2> QED
    BY <1>1, <1>2, <2>1, <2>2, <2>3, <2>4, <2>5, DownAppendInv
<1>4. CASE ~ PlainFits(m)
  <2>1. UNCHANGED <<down, downSent>>
    BY <1>4 DEF ServerRespond
  <2>2. TypeOK'
    BY <1>1, <2>1 DEF TypeOK
  <2>3. UpChain' /\ LoginFirst' /\ KeyPending' /\ DownChain'
    BY <1>1, <1>2, <2>1
       DEF SessionInv, UpChain, UpReceiver, LoginFirst, KeyPending, DownChain, Keyed
  <2> QED
    BY <2>2, <2>3 DEF SessionInv
<1> QED
  BY <1>3, <1>4

\* A send by the server.
LEMMA ServerSendInv ==
    ASSUME IInv, NEW m \in Message, ServerSend(m)
    PROVE  IInv'
<1> USE DEF IInv
<1> DEFINE t == TypeFor(ServerPolicy, m)
           p == SealedPacket(server.out, t, m)
           c == SealedState(server.out, t, m)
<1>1. CASE Oversize(ServerPolicy, m)
  BY <1>1, UnchangedInv DEF ServerSend, vars
<1>2. CASE ~ Oversize(ServerPolicy, m)
  <2>1. /\ p \in Packet /\ c \in Codec /\ c.key = server.out.key
        /\ Sealed(p, m, server.out.key, server.out.iterator, c.iterator)
    BY SealStep, TypeForType DEF TypeOK
  <2>2. /\ server' = [server EXCEPT !.out = c]
        /\ down' = Append(down, p) /\ downSent' = Append(downSent, m)
        /\ phase.server = "open"
        /\ UNCHANGED <<client, up, phase, loginKey, upSent, upGot, downGot>>
    BY <1>2 DEF ServerSend
  <2>3. /\ phase' \in [client : {phase.client}, server : {"respond", "open"}]
        /\ Keyed /\ m \in Entry
    BY <2>2 DEF TypeOK, Keyed, Entry
  <2> HIDE DEF p, c, t
  <2> QED
    BY <2>1, <2>2, <2>3, DownAppendInv
<1> QED
  BY <1>1, <1>2

\* The client reads the next packet.
LEMMA ClientRecvInv ==
    ASSUME IInv, ClientRecv
    PROVE  IInv' /\ downGot' = Head(downSent)
<1> USE DEF IInv
<1> DEFINE p == Head(down)
           c == OpenedState(client.in, p)
<1>1. down # <<>> /\ Keyed /\ phase.client = "open"
  BY DEF ClientRecv, SessionInv, DownChain, UpChain, Keyed, TypeOK
<1>2. /\ down \in Seq(Packet) /\ downSent \in Seq(Entry)
      /\ Len(downSent) = Len(down)
      /\ server.out \in Codec /\ client.in \in Codec
  BY DEF TypeOK
<1>3. Chained(down, downSent, server.out, client.in)
  BY <1>1 DEF SessionInv, DownChain
<1>4. PICK to \in Word :
         /\ Sealed(p, Head(downSent), client.in.key, client.in.iterator, to)
         /\ \A rcv2 \in Codec : rcv2.key = client.in.key /\ rcv2.iterator = to
               => Chained(Tail(down), Tail(downSent), server.out, rcv2)
  BY <1>1, <1>2, <1>3, ChainTail
<1>5. p \in Packet
  BY <1>1, <1>2, TailType
<1>6. /\ c.iterator = to /\ c.key = client.in.key /\ c \in Codec
      /\ p.tag # PLAIN => OpenedData(client.in, p) = Head(downSent)
      /\ p.tag = PLAIN => Decompress(ZLIB, p.body) = Head(downSent)
  <2> HIDE DEF p
  <2>1. Sealed(p, Head(downSent), client.in.key, client.in.iterator, to)
    BY <1>4
  <2>2. /\ p.tag # PLAIN => OpenedData(client.in, p) = Head(downSent)
        /\ p.tag = PLAIN => Decompress(ZLIB, p.body) = Head(downSent)
        /\ c.iterator = to
    BY <1>2, <1>5, <2>1, OpenStep
  <2> QED
    BY <1>2, <1>5, <2>2, OpenType
<1>7. /\ downGot' = Head(downSent)
      /\ client' = [client EXCEPT !.in = c]
      /\ UNCHANGED <<server, up, phase, loginKey, upSent, upGot>>
      /\ down' = Tail(down) /\ downSent' = Tail(downSent)
  BY <1>6 DEF ClientRecv
<1> HIDE DEF c, p
<1>8. client'.in = c /\ client'.out = client.out
  BY <1>7 DEF TypeOK
<1>9. TypeOK'
  <2>1. /\ down' \in Seq(Packet) /\ downSent' \in Seq(Entry)
        /\ Len(downSent') = Len(down')
    BY <1>1, <1>2, <1>7, TailType
  <2>2. client' \in [in : Codec, out : Codec]
    BY <1>6, <1>7 DEF TypeOK
  <2>3. downGot' \in Result
    BY <1>1, <1>2, <1>7, TailType DEF Result, Entry
  <2> QED
    BY <1>7, <2>1, <2>2, <2>3 DEF TypeOK
<1>10. UpChain' /\ LoginFirst' /\ KeyPending'
  BY <1>7, <1>8 DEF SessionInv, UpChain, UpReceiver, LoginFirst, KeyPending, Keyed
<1>11. DownChain'
  <2>1. Chained(Tail(down), Tail(downSent), server.out, c)
    BY <1>4, <1>6
  <2> QED
    BY <1>1, <1>7, <1>8, <2>1 DEF DownChain, Keyed
<1> QED
  BY <1>7, <1>9, <1>10, <1>11 DEF SessionInv

\* A foreign packet is a packet.
LEMMA ForeignType ==
    ASSUME NEW p \in ForeignPacket, NEW key, NEW it
    PROVE  p \in Packet /\ p.tag # PLAIN /\ None \in Entry
           /\ Sealed(p, None, key, it, it)
<1>1. <<>> \in Seq(Block) /\ <<InitialIterator>> \in Seq(Block)
  BY CipherAssumption DEF Block
<1>2. CASE p = [tag |-> EMPTY, body |-> <<>>]
  BY <1>1, <1>2 DEF Packet, Sealed, Entry, FOREIGN, EMPTY, PLAIN
<1>3. CASE p = [tag |-> FOREIGN, body |-> <<InitialIterator>>]
  BY <1>1, <1>3 DEF Packet, Sealed, Entry, FOREIGN, EMPTY, PLAIN
<1> QED
  BY <1>2, <1>3 DEF ForeignPacket

\* A foreign packet on its way to the server.
LEMMA ForeignUpInv ==
    ASSUME IInv, NEW p \in ForeignPacket, ForeignUp(p)
    PROVE  IInv'
<1> USE DEF IInv
<1>1. /\ phase.client = "open"
      /\ up' = Append(up, p) /\ upSent' = Append(upSent, None)
      /\ UNCHANGED <<client, server, down, phase, loginKey, downSent, upGot, downGot>>
  BY DEF ForeignUp, codecs
<1>2. /\ p \in Packet /\ p.tag # PLAIN /\ None \in Entry
      /\ Sealed(p, None, client.out.key, client.out.iterator, client.out.iterator)
  BY ForeignType
<1>3. TypeOK'
  <2>1. up' \in Seq(Packet) /\ upSent' \in Seq(Entry) /\ Len(upSent') = Len(up')
    BY <1>1, <1>2 DEF TypeOK
  <2> QED
    BY <1>1, <2>1 DEF TypeOK
<1>4. UpChain'
  <2>1. /\ up \in Seq(Packet) /\ upSent \in Seq(Entry) /\ Len(upSent) = Len(up)
        /\ client.out \in Codec /\ UpReceiver \in Codec
    BY UpReceiverType DEF TypeOK
  <2>2. Chained(up, upSent, client.out, UpReceiver)
    BY <1>1 DEF SessionInv, UpChain
  <2>3. Chained(up', upSent', client.out, UpReceiver)
    BY <1>1, <1>2, <2>1, <2>2, ChainAppend
  <2> QED
    BY <1>1, <2>3 DEF UpChain, UpReceiver, Keyed
<1>5. LoginFirst'
  BY <1>1, <1>2, LoginFirstAppend DEF SessionInv
<1>6. KeyPending' /\ DownChain'
  BY <1>1 DEF SessionInv, KeyPending, DownChain, Keyed
<1> QED
  BY <1>3, <1>4, <1>5, <1>6 DEF SessionInv

\* A foreign packet on its way to the client.
LEMMA ForeignDownInv ==
    ASSUME IInv, NEW p \in ForeignPacket, ForeignDown(p)
    PROVE  IInv'
<1> USE DEF IInv
<1>1. /\ phase.server = "open"
      /\ down' = Append(down, p) /\ downSent' = Append(downSent, None)
      /\ UNCHANGED <<client, server, up, phase, loginKey, upSent, upGot, downGot>>
  BY DEF ForeignDown, codecs
<1>2. /\ p \in Packet /\ None \in Entry
      /\ Sealed(p, None, server.out.key, server.out.iterator, server.out.iterator)
  BY ForeignType
<1>3. /\ server.out \in Codec /\ server' = [server EXCEPT !.out = server.out]
      /\ phase' \in [client : {phase.client}, server : {"respond", "open"}]
      /\ Keyed
  BY <1>1 DEF TypeOK, Keyed
<1> QED
  BY <1>1, <1>2, <1>3, DownAppendInv

\* A disconnect starts over.
LEMMA DisconnectInv ==
    ASSUME IInv, Disconnect
    PROVE  IInv'
<1> USE DEF IInv
<1>1. server'.first = TRUE /\ phase'.client = "closed" /\ phase'.server = "login"
      /\ up' = <<>> /\ down' = <<>>
  BY DEF Disconnect, TypeOK
<1>2. TypeOK'
  <2>1. server' \in [in : Codec, out : Codec, first : BOOLEAN]
    BY DEF Disconnect, TypeOK
  <2>2. phase' \in [client : {"closed", "open"},
                    server : {"login", "key", "respond", "open"}]
    BY DEF Disconnect
  <2>3. <<>> \in Seq(Packet) /\ <<>> \in Seq(Entry) /\ Len(<<>>) = Len(<<>>)
    OBVIOUS
  <2> QED
    BY <2>1, <2>2, <2>3 DEF Disconnect, TypeOK
<1>3. UpChain' /\ LoginFirst' /\ KeyPending' /\ DownChain'
  BY <1>1 DEF UpChain, LoginFirst, KeyPending, DownChain, Keyed
<1> QED
  BY <1>2, <1>3 DEF SessionInv

\* Every step keeps the invariant.
LEMMA NextInv == IInv /\ [Next]_vars => IInv'
<1> SUFFICES ASSUME IInv, [Next]_vars PROVE IInv'
  OBVIOUS
<1>1. CASE UNCHANGED vars
  BY <1>1, UnchangedInv
<1>2. ASSUME NEW k \in Key, ClientLogin(k) PROVE IInv'
  BY <1>2, ClientLoginInv
<1>3. ASSUME NEW m \in Message, ClientSend(m) \/ ServerRespond(m) \/ ServerSend(m)
      PROVE  IInv'
  BY <1>3, ClientSendInv, ServerRespondInv, ServerSendInv
<1>4. CASE ServerDecode
  BY <1>4, FirstDecodeInv, NextDecodeInv
<1>5. CASE ServerSetKey
  BY <1>5, ServerSetKeyInv
<1>6. CASE ClientRecv
  BY <1>6, ClientRecvInv
<1>7. ASSUME NEW p \in ForeignPacket, ForeignUp(p) \/ ForeignDown(p) PROVE IInv'
  BY <1>7, ForeignUpInv, ForeignDownInv
<1>8. CASE Disconnect
  BY <1>8, DisconnectInv
<1> QED
  BY <1>1, <1>2, <1>3, <1>4, <1>5, <1>6, <1>7, <1>8 DEF Next

\* It holds always.
LEMMA SpecInv == Spec => []IInv
<1>1. Init => IInv
  BY InitInv
<1>2. IInv /\ [Next]_vars => IInv'
  BY NextInv
<1> QED
  BY <1>1, <1>2, PTL DEF Spec

-----------------------------------------------------------------------------
(* The theorems. *)

\* Codec states, pipes and results keep their types: in particular the masked
\* iterators never leave their range, and set_key only ever gets a real key.
THEOREM TypeCorrect == Spec => []TypeOK
<1>1. IInv => TypeOK
  BY DEF IInv
<1> QED
  BY <1>1, SpecInv, PTL

\* Whatever was sent, dropped as oversize, ignored as foreign or lost with a
\* connection, the two ends of a drained pipe hold the same cipher state.
THEOREM CiphersInStep == Spec => []InStep
<1>1. IInv => InStep
  <2> SUFFICES ASSUME IInv, Keyed
               PROVE  /\ up = <<>>   => SameCipher(client.out, server.in)
                      /\ down = <<>> => SameCipher(server.out, client.in)
    BY DEF InStep
  <2>1. /\ client.out \in Codec /\ client.in \in Codec
        /\ server.out \in Codec /\ server.in \in Codec
        /\ up = <<>> => upSent = <<>>
        /\ down = <<>> => downSent = <<>>
    BY DEF IInv, TypeOK
  <2>2. /\ Chained(up, upSent, client.out, server.in)
        /\ Chained(down, downSent, server.out, client.in)
    BY DEF IInv, TypeOK, SessionInv, UpChain, UpReceiver, DownChain, Keyed
  <2> QED
    BY <2>1, <2>2, ChainEmpty
<1> QED
  BY <1>1, SpecInv, PTL

\* The chain invariant itself: every packet in flight is sealed exactly where
\* its receiver's iterator will be when it is decoded.
THEOREM SessionInvariant == Spec => []SessionInv
<1>1. IInv => SessionInv
  BY DEF IInv
<1> QED
  BY <1>1, SpecInv, PTL

\* The bundles a client's codec accepted reach the server's host unchanged,
\* once and in order: decode_packet never returns garbage, and returns None
\* only for a packet no codec of this library made.
THEOREM UpRefines == Spec => UpLink!Spec
<1>1. Init => UpLink!Init
  BY DEF Init, UpLink!Init
<1>2. IInv /\ [Next]_vars => [UpLink!Next]_(UpLink!vars)
  <2> SUFFICES ASSUME IInv, [Next]_vars PROVE [UpLink!Next]_(UpLink!vars)
    OBVIOUS
  <2> USE DEF UpLink!Next, UpLink!vars
  <2>1. ASSUME NEW k \in Key, ClientLogin(k) PROVE UpLink!Accept(Login[k])
    BY <2>1 DEF ClientLogin, UpLink!Accept
  <2>2. ASSUME NEW k \in Key PROVE Login[k] \in Message
    BY SessionAssumption
  <2>3. ASSUME NEW m \in Message, ClientSend(m)
        PROVE  UpLink!Accept(m) \/ UNCHANGED UpLink!vars
    BY <2>3 DEF ClientSend, UpLink!Accept
  <2>4. ASSUME NEW m \in Message, ServerRespond(m) \/ ServerSend(m)
        PROVE  UNCHANGED UpLink!vars
    BY <2>4 DEF ServerRespond, ServerSend
  <2>5. ASSUME ServerDecode PROVE UpLink!Deliver
    <3>1. upGot' = Head(upSent)
      BY <2>5, FirstDecodeInv, NextDecodeInv
    <3>2. upSent # <<>> /\ upSent' = Tail(upSent)
      BY <2>5 DEF ServerDecode, IInv, TypeOK
    <3> QED
      BY <3>1, <3>2 DEF UpLink!Deliver
  <2>6. ASSUME ServerSetKey \/ ClientRecv PROVE UNCHANGED UpLink!vars
    BY <2>6 DEF ServerSetKey, ClientRecv, pipes
  <2>7. ASSUME NEW p \in ForeignPacket, ForeignUp(p) PROVE UpLink!Accept(None)
    BY <2>7 DEF ForeignUp, UpLink!Accept
  <2>8. ASSUME NEW p \in ForeignPacket, ForeignDown(p) PROVE UNCHANGED UpLink!vars
    BY <2>8 DEF ForeignDown
  <2>9. ASSUME Disconnect PROVE UpLink!Lose
    BY <2>9 DEF Disconnect, UpLink!Lose
  <2>10. CASE UNCHANGED vars
    BY <2>10 DEF vars
  <2> QED
    BY <2>1, <2>2, <2>3, <2>4, <2>5, <2>6, <2>7, <2>8, <2>9, <2>10 DEF Next
<1> QED
  BY <1>1, <1>2, SpecInv, PTL DEF Spec, UpLink!Spec

\* The same of the bundles on their way to the client, the plain login
\* response included.
THEOREM DownRefines == Spec => DownLink!Spec
<1>1. Init => DownLink!Init
  BY DEF Init, DownLink!Init
<1>2. IInv /\ [Next]_vars => [DownLink!Next]_(DownLink!vars)
  <2> SUFFICES ASSUME IInv, [Next]_vars PROVE [DownLink!Next]_(DownLink!vars)
    OBVIOUS
  <2> USE DEF DownLink!Next, DownLink!vars
  <2>1. ASSUME NEW k \in Key, ClientLogin(k) PROVE UNCHANGED DownLink!vars
    BY <2>1 DEF ClientLogin
  <2>2. ASSUME NEW m \in Message, ClientSend(m) PROVE UNCHANGED DownLink!vars
    BY <2>2 DEF ClientSend
  <2>3. ASSUME NEW m \in Message, ServerRespond(m) \/ ServerSend(m)
        PROVE  DownLink!Accept(m) \/ UNCHANGED DownLink!vars
    BY <2>3 DEF ServerRespond, ServerSend, DownLink!Accept
  <2>4. ASSUME ClientRecv PROVE DownLink!Deliver
    <3>1. downGot' = Head(downSent)
      BY <2>4, ClientRecvInv
    <3>2. downSent # <<>> /\ downSent' = Tail(downSent)
      BY <2>4 DEF ClientRecv, IInv, TypeOK
    <3> QED
      BY <3>1, <3>2 DEF DownLink!Deliver
  <2>5. ASSUME ServerSetKey \/ ServerDecode PROVE UNCHANGED DownLink!vars
    BY <2>5 DEF ServerSetKey, ServerDecode, pipes
  <2>6. ASSUME NEW p \in ForeignPacket, ForeignDown(p) PROVE DownLink!Accept(None)
    BY <2>6 DEF ForeignDown, DownLink!Accept
  <2>7. ASSUME NEW p \in ForeignPacket, ForeignUp(p) PROVE UNCHANGED DownLink!vars
    BY <2>7 DEF ForeignUp
  <2>8. ASSUME Disconnect PROVE DownLink!Lose
    BY <2>8 DEF Disconnect, DownLink!Lose
  <2>9. CASE UNCHANGED vars
    BY <2>9 DEF vars
  <2> QED
    BY <2>1, <2>2, <2>3, <2>4, <2>5, <2>6, <2>7, <2>8, <2>9 DEF Next
<1> QED
  BY <1>1, <1>2, SpecInv, PTL DEF Spec, DownLink!Spec

=============================================================================
