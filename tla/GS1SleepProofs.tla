--------------------------- MODULE GS1SleepProofs ---------------------------
(***************************************************************************)
(* GS1Sleep for every program, every set of executions and every budget.   *)
(* An execution's frames are always those of the blocks around its place   *)
(* in the script (ExecInv); from that follow its types, and, of one        *)
(* resumable execution at a time, that every scope is found and left as it *)
(* was and that a timer assignment erases the sleep it is meant for.       *)
(***************************************************************************)
EXTENDS GS1Sleep, SequenceTheorems, WellFoundedInduction, TLAPS

-----------------------------------------------------------------------------
(* Sequences and the frames in them.                                       *)

\* A set of numbers that is not empty has a least one.
LEMMA LeastExists ==
    ASSUME NEW S \in SUBSET Nat, S # {}
    PROVE  Min(S) \in S /\ \A y \in S : Min(S) <= y
  <1> DEFINE R == {ss \in Nat \X Nat : ss[1] < ss[2]}
  <1>1. IsWellFoundedOn(R, Nat)
    BY NatLessThanWellFounded, Zenon DEF OpToRel
  <1> HIDE DEF R
  <1>2. PICK x \in S : \A y \in S : ~ (<<y, x>> \in R)
    BY <1>1, WFMin
  <1>3. ASSUME NEW y \in S
        PROVE  x <= y
    <2>1. x \in Nat /\ y \in Nat /\ ~ (<<y, x>> \in R)
      BY <1>2
    <2>2. ~ (y < x)
      BY <2>1 DEF R
    <2> QED
      BY <2>1, <2>2
  <1> QED
    BY <1>3 DEF Min

\* One whose members are bounded has a greatest one.
LEMMA GreatestExists ==
    ASSUME NEW n \in Nat, NEW S \in SUBSET (0 .. n), S # {}
    PROVE  Max(S) \in S /\ \A y \in S : Max(S) >= y
  <1> DEFINE U == {m \in Nat : \A y \in S : y <= m}
  <1>1. U \in SUBSET Nat /\ n \in U
    OBVIOUS
  <1>2. PICK m : m = Min(U)
    OBVIOUS
  <1>3. m \in Nat /\ (\A y \in S : y <= m) /\ \A u \in U : m <= u
    BY <1>1, <1>2, LeastExists
  <1>4. m \in S
    <2>1. SUFFICES ASSUME m \notin S
                   PROVE  FALSE
      OBVIOUS
    <2>2. \A y \in S : y \in Nat /\ y < m
      BY <1>3, <2>1
    <2>3. m >= 1
      <3>1. PICK y \in S : TRUE
        OBVIOUS
      <3> QED
        BY <1>3, <2>2, <3>1
    <2>4. m - 1 \in Nat /\ \A y \in S : y <= m - 1
      BY <1>3, <2>2, <2>3
    <2>5. m - 1 \in U
      BY <2>4
    <2> QED
      BY <1>3, <2>5
  <1> QED
    BY <1>3, <1>4 DEF Max

\* Sequences with the same first k members have the same prefix.
LEMMA SamePrefix ==
    ASSUME NEW S, NEW s \in Seq(S), NEW t \in Seq(S), NEW k \in Nat,
           k <= Len(s), k <= Len(t), \A i \in 1 .. k : s[i] = t[i]
    PROVE  SubSeq(s, 1, k) = SubSeq(t, 1, k)
  <1>1. /\ SubSeq(s, 1, k) \in Seq(S) /\ Len(SubSeq(s, 1, k)) = k
        /\ \A i \in 1 .. k : SubSeq(s, 1, k)[i] = s[i]
    BY SubSeqProperties
  <1>2. /\ SubSeq(t, 1, k) \in Seq(S) /\ Len(SubSeq(t, 1, k)) = k
        /\ \A i \in 1 .. k : SubSeq(t, 1, k)[i] = t[i]
    BY SubSeqProperties
  <1> QED
    BY <1>1, <1>2, SeqEqual

\* What a prefix of frames is.
LEMMA PrefixType ==
    ASSUME NEW fs \in Seq(FrameType), NEW k \in 0 .. Len(fs)
    PROVE  /\ SubSeq(fs, 1, k) \in Seq(FrameType) /\ Len(SubSeq(fs, 1, k)) = k
           /\ \A i \in 1 .. k : SubSeq(fs, 1, k)[i] = fs[i]
  BY SubSeqProperties

\* The innermost frame of a kind is the last one of that kind.
LEMMA InnermostIs ==
    ASSUME NEW fs \in Seq(FrameType), NEW kind
    PROVE  LET k == Innermost(fs, kind)
           IN  /\ k \in 0 .. Len(fs) /\ (k > 0 => fs[k].kind = kind)
               /\ \A i \in k + 1 .. Len(fs) : fs[i].kind # kind
  <1> DEFINE S == {0} \cup {i \in 1 .. Len(fs) : fs[i].kind = kind}
  <1>1. S \in SUBSET (0 .. Len(fs)) /\ S # {} /\ Len(fs) \in Nat
    OBVIOUS
  <1>2. Max(S) \in S /\ \A y \in S : Max(S) >= y
    BY <1>1, GreatestExists
  <1>3. PICK k : k = Max(S)
    OBVIOUS
  <1>4. Innermost(fs, kind) = k
    BY <1>3 DEF Innermost
  <1>5. k \in S /\ \A y \in S : k >= y
    BY <1>2, <1>3
  <1> HIDE DEF S
  <1>6. k \in 0 .. Len(fs)
    BY <1>1, <1>5
  <1>7. k > 0 => fs[k].kind = kind
    BY <1>5, <1>6 DEF S
  <1>8. ASSUME NEW i \in k + 1 .. Len(fs)
        PROVE  fs[i].kind # kind
    <2>1. i \notin S
      BY <1>1, <1>5, <1>6
    <2> QED
      BY <1>6, <2>1 DEF S
  <1> QED
    BY <1>4, <1>6, <1>7, <1>8

\* There is only one such place.
LEMMA InnermostEq ==
    ASSUME NEW fs \in Seq(FrameType), NEW kind, NEW k \in 0 .. Len(fs),
           k > 0 => fs[k].kind = kind,
           \A i \in k + 1 .. Len(fs) : fs[i].kind # kind
    PROVE  Innermost(fs, kind) = k
  <1>1. PICK j : j = Innermost(fs, kind)
    OBVIOUS
  <1>2. /\ j \in 0 .. Len(fs) /\ (j > 0 => fs[j].kind = kind)
        /\ \A i \in j + 1 .. Len(fs) : fs[i].kind # kind
    BY <1>1, InnermostIs
  <1>3. ~ (j < k)
    BY <1>2
  <1>4. ~ (k < j)
    BY <1>2
  <1> QED
    BY <1>1, <1>2, <1>3, <1>4

\* No frames bind nothing.
LEMMA NoneBound ==
    ASSUME NEW kind, NEW d
    PROVE  Bound(<<>>, kind, d) = d /\ Chained(<<>>, kind, d)
  <1>1. <<>> \in Seq(FrameType) /\ Len(<<>>) = 0
    OBVIOUS
  <1>2. PICK fs, k : fs = <<>> /\ k = 0
    OBVIOUS
  <1>3. fs \in Seq(FrameType) /\ Len(fs) = 0 /\ k \in 0 .. Len(fs)
    BY <1>1, <1>2
  <1>4. (k > 0 => fs[k].kind = kind) /\ \A i \in k + 1 .. Len(fs) : fs[i].kind # kind
    BY <1>2, <1>3
  <1>5. Innermost(fs, kind) = k
    BY <1>3, <1>4, InnermostEq
  <1> QED
    BY <1>2, <1>3, <1>5 DEF Bound, Chained

\* Without a frame of a kind among those above the first k, the frames make
\* of a field what the first k make of it.
LEMMA BoundPrefix ==
    ASSUME NEW fs \in Seq(FrameType), NEW kind, NEW d, NEW k \in 0 .. Len(fs),
           NEW m \in k .. Len(fs), \A i \in k + 1 .. m : fs[i].kind # kind
    PROVE  Bound(SubSeq(fs, 1, m), kind, d) = Bound(SubSeq(fs, 1, k), kind, d)
  <1>1. PICK a, b : a = SubSeq(fs, 1, m) /\ b = SubSeq(fs, 1, k)
    OBVIOUS
  <1>2. m \in 0 .. Len(fs) /\ Len(fs) \in Nat
    OBVIOUS
  <1>3. a \in Seq(FrameType) /\ Len(a) = m /\ \A i \in 1 .. m : a[i] = fs[i]
    BY <1>1, <1>2, PrefixType
  <1>4. b \in Seq(FrameType) /\ Len(b) = k /\ \A i \in 1 .. k : b[i] = fs[i]
    BY <1>1, PrefixType
  <1>5. PICK j : j = Innermost(b, kind)
    OBVIOUS
  <1>6. /\ j \in 0 .. k /\ (j > 0 => b[j].kind = kind)
        /\ \A i \in j + 1 .. k : b[i].kind # kind
    BY <1>4, <1>5, InnermostIs
  <1>7. j \in 0 .. Len(a) /\ (j > 0 => a[j].kind = kind)
    BY <1>2, <1>3, <1>4, <1>6
  <1>8. \A i \in j + 1 .. Len(a) : a[i].kind # kind
    <2> TAKE i \in j + 1 .. Len(a)
    <2>1. CASE i <= k
      BY <1>2, <1>3, <1>4, <1>6, <2>1
    <2>2. CASE i > k
      BY <1>2, <1>3, <1>6, <2>2
    <2> QED
      BY <1>6, <2>1, <2>2
  <1>9. Innermost(a, kind) = j
    BY <1>3, <1>7, <1>8, InnermostEq
  <1>10. j > 0 => a[j] = b[j]
    BY <1>2, <1>3, <1>4, <1>6
  <1> QED
    BY <1>1, <1>5, <1>6, <1>9, <1>10 DEF Bound

\* What the finally clauses above the first k frames restore: nothing, or
\* what the outermost of them saved.
LEMMA RestoredIs ==
    ASSUME NEW fs \in Seq(FrameType), NEW kind, NEW d, NEW k \in 0 .. Len(fs)
    PROVE  \/ /\ \A i \in k + 1 .. Len(fs) : fs[i].kind # kind
              /\ Restored(fs, k, kind, d) = d
           \/ \E m \in k + 1 .. Len(fs) :
                 /\ fs[m].kind = kind
                 /\ \A i \in k + 1 .. m - 1 : fs[i].kind # kind
                 /\ Restored(fs, k, kind, d) = fs[m].saved
  <1> DEFINE P == {i \in k + 1 .. Len(fs) : fs[i].kind = kind}
  <1>1. CASE P = {}
    BY <1>1 DEF Restored
  <1>2. CASE P # {}
    <2>1. P \in SUBSET Nat
      OBVIOUS
    <2>2. Min(P) \in P /\ \A y \in P : Min(P) <= y
      BY <1>2, <2>1, LeastExists
    <2>3. PICK m : m = Min(P)
      OBVIOUS
    <2>4. Restored(fs, k, kind, d) = fs[m].saved
      BY <1>2, <2>3 DEF Restored
    <2>5. m \in k + 1 .. Len(fs) /\ fs[m].kind = kind
      BY <2>2, <2>3
    <2>6. ASSUME NEW i \in k + 1 .. m - 1
          PROVE  fs[i].kind # kind
      <3>1. i \in k + 1 .. Len(fs) /\ i < m
        BY <2>5
      <3>2. i \notin P
        BY <2>2, <2>3, <2>5, <3>1
      <3> QED
        BY <3>1, <3>2
    <2> QED
      BY <2>4, <2>5, <2>6
  <1> QED
    BY <1>1, <1>2

\* Of frames that are chained, the finally clauses above the first k restore
\* what the first k made of the field.
LEMMA RestoredBound ==
    ASSUME NEW fs \in Seq(FrameType), NEW kind, NEW d, NEW k \in 0 .. Len(fs),
           Chained(fs, kind, d)
    PROVE  Restored(fs, k, kind, Bound(fs, kind, d))
              = Bound(SubSeq(fs, 1, k), kind, d)
  <1>1. PICK c : c = Bound(fs, kind, d)
    OBVIOUS
  <1>2. CASE /\ \A i \in k + 1 .. Len(fs) : fs[i].kind # kind
             /\ Restored(fs, k, kind, c) = c
    <2>1. Len(fs) \in k .. Len(fs)
      OBVIOUS
    <2>2. Bound(SubSeq(fs, 1, Len(fs)), kind, d) = Bound(SubSeq(fs, 1, k), kind, d)
      BY <1>2, <2>1, BoundPrefix
    <2> QED
      BY <1>1, <1>2, <2>2, SubSeqFull
  <1>3. CASE \E m \in k + 1 .. Len(fs) :
                /\ fs[m].kind = kind
                /\ \A i \in k + 1 .. m - 1 : fs[i].kind # kind
                /\ Restored(fs, k, kind, c) = fs[m].saved
    <2>1. PICK m \in k + 1 .. Len(fs) :
              /\ fs[m].kind = kind
              /\ \A i \in k + 1 .. m - 1 : fs[i].kind # kind
              /\ Restored(fs, k, kind, c) = fs[m].saved
      BY <1>3
    <2>2. m \in 1 .. Len(fs) /\ m - 1 \in k .. Len(fs)
      OBVIOUS
    <2>3. fs[m].saved = Bound(SubSeq(fs, 1, m - 1), kind, d)
      BY <2>1, <2>2 DEF Chained
    <2>4. Bound(SubSeq(fs, 1, m - 1), kind, d) = Bound(SubSeq(fs, 1, k), kind, d)
      BY <2>1, <2>2, BoundPrefix
    <2> QED
      BY <1>1, <2>1, <2>3, <2>4
  <1> QED
    BY <1>2, <1>3, RestoredIs

\* A prefix of chained frames is chained.
LEMMA ChainedPrefix ==
    ASSUME NEW fs \in Seq(FrameType), NEW kind, NEW d, NEW k \in 0 .. Len(fs),
           Chained(fs, kind, d)
    PROVE  Chained(SubSeq(fs, 1, k), kind, d)
  <1>1. PICK a : a = SubSeq(fs, 1, k)
    OBVIOUS
  <1>2. a \in Seq(FrameType) /\ Len(a) = k /\ \A i \in 1 .. k : a[i] = fs[i]
    BY <1>1, PrefixType
  <1>3. ASSUME NEW i \in 1 .. Len(a), a[i].kind = kind
        PROVE  a[i].saved = Bound(SubSeq(a, 1, i - 1), kind, d)
    <2>1. i \in 1 .. Len(fs) /\ i - 1 \in Nat /\ i - 1 <= Len(a) /\ i - 1 <= Len(fs)
      BY <1>2
    <2>2. SubSeq(a, 1, i - 1) = SubSeq(fs, 1, i - 1)
      BY <1>2, <2>1, SamePrefix
    <2>3. a[i] = fs[i]
      BY <1>2
    <2> QED
      BY <1>3, <2>1, <2>2, <2>3 DEF Chained
  <1> QED
    BY <1>1, <1>3 DEF Chained

\* Entering a block binds the field of its kind, and no other.
LEMMA BoundAppend ==
    ASSUME NEW fs \in Seq(FrameType), NEW f \in FrameType, NEW kind, NEW d
    PROVE  Bound(Append(fs, f), kind, d)
              = IF f.kind = kind THEN f.val ELSE Bound(fs, kind, d)
  <1>1. PICK a : a = Append(fs, f)
    OBVIOUS
  <1>2. /\ a \in Seq(FrameType) /\ Len(a) = Len(fs) + 1 /\ Len(fs) \in Nat
        /\ (\A i \in 1 .. Len(fs) : a[i] = fs[i]) /\ a[Len(fs) + 1] = f
    BY <1>1, AppendProperties
  <1>3. CASE f.kind = kind
    <2>1. Innermost(a, kind) = Len(fs) + 1
      BY <1>2, <1>3, InnermostEq
    <2> QED
      BY <1>1, <1>2, <1>3, <2>1 DEF Bound
  <1>4. CASE f.kind # kind
    <2>1. PICK j : j = Innermost(fs, kind)
      OBVIOUS
    <2>2. /\ j \in 0 .. Len(fs) /\ (j > 0 => fs[j].kind = kind)
          /\ \A i \in j + 1 .. Len(fs) : fs[i].kind # kind
      BY <2>1, InnermostIs
    <2>3. j \in 0 .. Len(a) /\ (j > 0 => a[j].kind = kind /\ a[j] = fs[j])
      BY <1>2, <2>2
    <2>4. \A i \in j + 1 .. Len(a) : a[i].kind # kind
      <3> TAKE i \in j + 1 .. Len(a)
      <3>1. i \in j + 1 .. Len(fs) \/ i = Len(fs) + 1
        BY <1>2, <2>2
      <3> QED
        BY <1>2, <1>4, <2>2, <3>1
    <2>5. Innermost(a, kind) = j
      BY <1>2, <2>3, <2>4, InnermostEq
    <2> QED
      BY <1>1, <1>4, <2>1, <2>2, <2>3, <2>5 DEF Bound
  <1> QED
    BY <1>3, <1>4

\* A frame that saves what it found keeps the chain.
LEMMA ChainedAppend ==
    ASSUME NEW fs \in Seq(FrameType), NEW f \in FrameType, NEW kind, NEW d,
           Chained(fs, kind, d), f.kind = kind => f.saved = Bound(fs, kind, d)
    PROVE  Chained(Append(fs, f), kind, d)
  <1>1. PICK a : a = Append(fs, f)
    OBVIOUS
  <1>2. /\ a \in Seq(FrameType) /\ Len(a) = Len(fs) + 1 /\ Len(fs) \in Nat
        /\ (\A i \in 1 .. Len(fs) : a[i] = fs[i]) /\ a[Len(fs) + 1] = f
    BY <1>1, AppendProperties
  <1>3. ASSUME NEW i \in 1 .. Len(a), a[i].kind = kind
        PROVE  a[i].saved = Bound(SubSeq(a, 1, i - 1), kind, d)
    <2>1. i - 1 \in Nat /\ i - 1 <= Len(a) /\ i - 1 <= Len(fs)
          /\ \A n \in 1 .. i - 1 : a[n] = fs[n]
      BY <1>2
    <2>2. SubSeq(a, 1, i - 1) = SubSeq(fs, 1, i - 1)
      BY <1>2, <2>1, SamePrefix
    <2>3. CASE i \in 1 .. Len(fs)
      BY <1>2, <1>3, <2>2, <2>3 DEF Chained
    <2>4. CASE i = Len(fs) + 1
      <3>1. a[i] = f /\ i - 1 = Len(fs)
        BY <1>2, <2>4
      <3>2. SubSeq(a, 1, i - 1) = fs
        BY <2>2, <3>1, SubSeqFull
      <3> QED
        BY <1>3, <3>1, <3>2
    <2> QED
      BY <1>2, <2>3, <2>4
  <1> QED
    BY <1>1, <1>3 DEF Chained

-----------------------------------------------------------------------------
(* Places in a script and the blocks around them.                          *)

\* A script: any sequence of statements whose blocks form a tree.
IsScript(p) == p \in Seq(Statement) /\ Tree(p)

\* The scripts the host fires are scripts.
LEMMA ProgramIsScript ==
    ASSUME NEW s \in Script
    PROVE  IsScript(Program[s])
  BY SleepAssumption DEF IsScript

\* What Tree says of a block, of two, and of an "end".
LEMMA BlockEnds ==
    ASSUME NEW p, IsScript(p), NEW j \in 1 .. Len(p), IsBlock(p, j)
    PROVE  /\ p[j].end \in j + 1 .. Len(p) /\ p[p[j].end].op = "end"
           /\ ~ IsBlock(p, p[j].end)
  BY DEF IsScript, Tree, IsBlock

\* Of two blocks the later lies inside the earlier, or behind it.
LEMMA BlocksApart ==
    ASSUME NEW p, IsScript(p), NEW j \in 1 .. Len(p), NEW k \in 1 .. Len(p),
           j < k, IsBlock(p, j), IsBlock(p, k)
    PROVE  p[j].end < k \/ p[k].end < p[j].end
  <1>1. k \in j + 1 .. Len(p)
    OBVIOUS
  <1> QED
    BY <1>1 DEF IsScript, Tree

\* Every end closes a block that is open at it.
LEMMA EndCloses ==
    ASSUME NEW p, IsScript(p), NEW i \in 1 .. Len(p), p[i].op = "end"
    PROVE  \E j \in Open(p, i) : p[j].end = i
  <1>1. PICK j \in 1 .. Len(p) : IsBlock(p, j) /\ p[j].end = i
    BY DEF IsScript, Tree
  <1>2. j < i
    BY <1>1, BlockEnds
  <1> QED
    BY <1>1, <1>2 DEF Open

\* What it is to be open.
LEMMA OpenIs ==
    ASSUME NEW p, IsScript(p), NEW i \in Int, NEW j \in Open(p, i)
    PROVE  /\ j \in 1 .. Len(p) /\ IsBlock(p, j) /\ j < i
           /\ p[j].end \in j + 1 .. Len(p) /\ p[j].end >= i
           /\ p[p[j].end].op = "end" /\ ~ IsBlock(p, p[j].end)
  BY BlockEnds DEF Open

\* A statement that is no block and no "end" leaves the same blocks open.
LEMMA OpenLeaf ==
    ASSUME NEW p, IsScript(p), NEW i \in 1 .. Len(p),
           ~ IsBlock(p, i), p[i].op # "end"
    PROVE  Open(p, i + 1) = Open(p, i)
  <1>1. ASSUME NEW j \in Open(p, i)
        PROVE  j \in Open(p, i + 1)
    <2>1. p[j].end # i
      BY OpenIs
    <2>2. /\ j \in 1 .. Len(p) /\ IsBlock(p, j) /\ j < i
          /\ p[j].end \in j + 1 .. Len(p) /\ p[j].end >= i
      BY OpenIs
    <2> QED
      BY <2>1, <2>2 DEF Open
  <1>2. ASSUME NEW j \in Open(p, i + 1)
        PROVE  j \in Open(p, i)
    <2>1. /\ j \in 1 .. Len(p) /\ IsBlock(p, j) /\ j < i + 1
          /\ p[j].end \in j + 1 .. Len(p) /\ p[j].end >= i + 1
      BY OpenIs
    <2>2. j # i
      BY <2>1
    <2> QED
      BY <2>1, <2>2 DEF Open
  <1> QED
    BY <1>1, <1>2

\* A block encloses what is right after its head, and its own "end".
LEMMA OpenInside ==
    ASSUME NEW p, IsScript(p), NEW i \in 1 .. Len(p), IsBlock(p, i),
           NEW q \in {i + 1, p[i].end}
    PROVE  Open(p, q) = Open(p, i) \cup {i}
  <1>1. p[i].end \in i + 1 .. Len(p) /\ ~ IsBlock(p, p[i].end)
    BY BlockEnds
  <1>2. q \in Int /\ i < q /\ q <= p[i].end
    BY <1>1
  <1>3. i \in Open(p, q)
    BY <1>1, <1>2 DEF Open
  <1>4. ASSUME NEW j \in Open(p, i)
        PROVE  j \in Open(p, q)
    <2>1. /\ j \in 1 .. Len(p) /\ IsBlock(p, j) /\ j < i
          /\ p[j].end \in j + 1 .. Len(p) /\ p[j].end >= i
      BY OpenIs
    <2>2. p[i].end < p[j].end
      BY <2>1, BlocksApart
    <2> QED
      BY <1>1, <1>2, <2>1, <2>2 DEF Open
  <1>5. ASSUME NEW j \in Open(p, q), j # i
        PROVE  j \in Open(p, i)
    <2>1. /\ j \in 1 .. Len(p) /\ IsBlock(p, j) /\ j < q
          /\ p[j].end \in j + 1 .. Len(p) /\ p[j].end >= q
      BY <1>2, OpenIs
    <2>2. ~ (i < j)
      <3>1. SUFFICES ASSUME i < j
                     PROVE  FALSE
        OBVIOUS
      <3>2. p[j].end < p[i].end
        BY <1>1, <1>2, <2>1, <3>1, BlocksApart
      <3>3. q = p[i].end
        BY <1>1, <2>1, <3>1
      <3> QED
        BY <1>1, <2>1, <3>2, <3>3
    <2> QED
      BY <1>2, <1>5, <2>1, <2>2 DEF Open
  <1> QED
    BY <1>3, <1>4, <1>5

\* Right after a block the blocks are open that were open before it: those
\* of the ones around a place inside it that close later.
LEMMA OpenAfter ==
    ASSUME NEW p, IsScript(p), NEW i \in Int, NEW l \in Open(p, i)
    PROVE  Open(p, p[l].end + 1) = {j \in Open(p, i) : p[j].end > p[l].end}
  <1>1. /\ l \in 1 .. Len(p) /\ IsBlock(p, l) /\ l < i
        /\ p[l].end \in l + 1 .. Len(p) /\ p[l].end >= i /\ ~ IsBlock(p, p[l].end)
    BY OpenIs
  <1>2. p[l].end + 1 \in Int
    BY <1>1
  <1>3. ASSUME NEW j \in Open(p, p[l].end + 1)
        PROVE  j \in Open(p, i) /\ p[j].end > p[l].end
    <2>1. /\ j \in 1 .. Len(p) /\ IsBlock(p, j) /\ j < p[l].end + 1
          /\ p[j].end \in j + 1 .. Len(p) /\ p[j].end >= p[l].end + 1
      BY <1>2, OpenIs
    <2>2. j # p[l].end
      BY <1>1, <2>1
    <2>3. ~ (l < j)
      BY <1>1, <2>1, <2>2, BlocksApart
    <2> QED
      BY <1>1, <2>1, <2>3 DEF Open
  <1>4. ASSUME NEW j \in Open(p, i), p[j].end > p[l].end
        PROVE  j \in Open(p, p[l].end + 1)
    <2>1. /\ j \in 1 .. Len(p) /\ IsBlock(p, j) /\ j < i
          /\ p[j].end \in j + 1 .. Len(p) /\ p[j].end >= i
      BY OpenIs
    <2> QED
      BY <1>1, <1>4, <2>1 DEF Open
  <1> QED
    BY <1>3, <1>4

-----------------------------------------------------------------------------
(* The frames of the blocks around a place.                                *)

\* What the frame at i stands for.
LEMMA FrameOpen ==
    ASSUME NEW p, IsScript(p), NEW q \in Int, NEW fs \in Seq(FrameType),
           Fits(p, q, fs), NEW i \in 1 .. Len(fs)
    PROVE  \E j \in Open(p, q) :
              /\ fs[i].end = p[j].end /\ fs[i].kind = p[j].op
              /\ fs[i].kind = "while" => fs[i].saved = j + 1
  BY DEF Fits

\* Two places within the same blocks have the same frames.
LEMMA FitsSame ==
    ASSUME NEW p, NEW q, NEW r, NEW fs, Fits(p, q, fs), Open(p, r) = Open(p, q)
    PROVE  Fits(p, r, fs)
  BY DEF Fits

\* Past the end of the script there are none.
LEMMA FitsAtEnd ==
    ASSUME NEW p, IsScript(p), NEW q \in Int, q > Len(p), NEW fs \in Seq(FrameType),
           Fits(p, q, fs)
    PROVE  fs = <<>>
  <1>1. Len(p) \in Nat
    BY DEF IsScript
  <1>2. ~ \E j \in Open(p, q) : TRUE
    <2>1. SUFFICES ASSUME NEW j \in Open(p, q)
                   PROVE  FALSE
      OBVIOUS
    <2>2. p[j].end \in j + 1 .. Len(p) /\ p[j].end >= q
      BY OpenIs
    <2> QED
      BY <1>1, <2>2
  <1>3. ~ \E i \in 1 .. Len(fs) : TRUE
    BY <1>2, FrameOpen
  <1>4. Len(fs) = 0
    BY <1>3
  <1> QED
    BY <1>4

\* At an "end" the top frame is that of the block it closes.
LEMMA TopAtEnd ==
    ASSUME NEW p, IsScript(p), NEW q \in 1 .. Len(p), p[q].op = "end",
           NEW fs \in Seq(FrameType), Fits(p, q, fs)
    PROVE  Len(fs) \in 1 .. Len(fs) /\ fs[Len(fs)].end = q
  <1>1. PICK j \in Open(p, q) : p[j].end = q
    BY EndCloses
  <1>2. PICK i \in 1 .. Len(fs) : fs[i].end = q
    BY <1>1 DEF Fits
  <1>3. PICK n : n = Len(fs)
    OBVIOUS
  <1>4. n \in 1 .. Len(fs)
    BY <1>2, <1>3
  <1>5. fs[n].end >= q /\ fs[n].end \in Int
    <2>1. PICK k \in Open(p, q) : fs[n].end = p[k].end
      BY <1>4, FrameOpen
    <2>2. p[k].end \in k + 1 .. Len(p) /\ p[k].end >= q /\ k \in 1 .. Len(p)
      BY OpenIs
    <2> QED
      BY <2>1, <2>2
  <1>6. n # i => fs[n].end < fs[i].end
    <2>1. HAVE n # i
    <2>2. n \in i + 1 .. Len(fs)
      BY <1>2, <1>3, <2>1
    <2> QED
      BY <2>2 DEF Fits
  <1>7. n = i
    BY <1>2, <1>5, <1>6
  <1> QED
    BY <1>2, <1>3, <1>4, <1>7

\* Leaving the block of a frame leaves the frames below it.
LEMMA FitsAfter ==
    ASSUME NEW p, IsScript(p), NEW q \in Int, NEW fs \in Seq(FrameType),
           Fits(p, q, fs), NEW c \in 1 .. Len(fs)
    PROVE  Fits(p, fs[c].end + 1, SubSeq(fs, 1, c - 1))
  <1>1. PICK l \in Open(p, q) : fs[c].end = p[l].end
    BY FrameOpen
  <1>2. Open(p, fs[c].end + 1) = {j \in Open(p, q) : p[j].end > p[l].end}
    BY <1>1, OpenAfter
  <1>3. c - 1 \in 0 .. Len(fs)
    OBVIOUS
  <1>4. PICK a : a = SubSeq(fs, 1, c - 1)
    OBVIOUS
  <1>5. /\ a \in Seq(FrameType) /\ Len(a) = c - 1
        /\ \A i \in 1 .. c - 1 : a[i] = fs[i]
    BY <1>3, <1>4, PrefixType
  <1>6. ASSUME NEW i \in 1 .. Len(fs)
        PROVE  /\ fs[i].end \in Int
               /\ \A k \in i + 1 .. Len(fs) : fs[k].end < fs[i].end
    <2>1. PICK j \in Open(p, q) : fs[i].end = p[j].end
      BY FrameOpen
    <2>2. p[j].end \in j + 1 .. Len(p) /\ j \in 1 .. Len(p)
      BY OpenIs
    <2>3. \A k \in i + 1 .. Len(fs) : fs[k].end < fs[i].end
      BY DEF Fits
    <2> QED
      BY <2>1, <2>2, <2>3
  <1>7. \A i \in 1 .. Len(a) : fs[i].end > p[l].end
    <2> TAKE i \in 1 .. Len(a)
    <2>1. i \in 1 .. Len(fs) /\ c \in i + 1 .. Len(fs)
      BY <1>5
    <2>2. fs[c].end < fs[i].end
      BY <1>6, <2>1
    <2> QED
      BY <1>1, <1>6, <2>1, <2>2
  <1>8. ASSUME NEW i \in 1 .. Len(a)
        PROVE  \E j \in Open(p, fs[c].end + 1) :
                  /\ a[i].end = p[j].end /\ a[i].kind = p[j].op
                  /\ a[i].kind = "while" => a[i].saved = j + 1
    <2>1. i \in 1 .. Len(fs) /\ a[i] = fs[i]
      BY <1>5
    <2>2. PICK j \in Open(p, q) :
              /\ fs[i].end = p[j].end /\ fs[i].kind = p[j].op
              /\ fs[i].kind = "while" => fs[i].saved = j + 1
      BY <2>1, FrameOpen
    <2>3. p[j].end > p[l].end
      BY <1>7, <2>2
    <2>4. j \in Open(p, fs[c].end + 1)
      BY <1>2, <2>3
    <2> QED
      BY <2>1, <2>2, <2>4
  <1>9. ASSUME NEW j \in Open(p, fs[c].end + 1)
        PROVE  \E i \in 1 .. Len(a) : a[i].end = p[j].end
    <2>1. j \in Open(p, q) /\ p[j].end > p[l].end
      BY <1>2
    <2>2. PICK i \in 1 .. Len(fs) : fs[i].end = p[j].end
      BY <2>1 DEF Fits
    <2>3. i # c /\ ~ (i > c)
      <3>1. i # c
        BY <1>1, <1>6, <2>1, <2>2
      <3>2. ~ (i > c)
        <4>1. SUFFICES ASSUME i > c
                       PROVE  FALSE
          OBVIOUS
        <4>2. i \in c + 1 .. Len(fs)
          BY <4>1
        <4>3. fs[i].end < fs[c].end
          BY <1>6, <4>2
        <4> QED
          BY <1>1, <1>6, <2>1, <2>2, <4>3
      <3> QED
        BY <3>1, <3>2
    <2>4. i \in 1 .. Len(a) /\ a[i] = fs[i]
      BY <1>5, <2>3
    <2> QED
      BY <2>2, <2>4
  <1>10. ASSUME NEW i \in 1 .. Len(a), NEW k \in i + 1 .. Len(a)
         PROVE  a[k].end < a[i].end
    <2>1. /\ i \in 1 .. Len(fs) /\ k \in i + 1 .. Len(fs)
          /\ a[i] = fs[i] /\ a[k] = fs[k]
      BY <1>5
    <2> QED
      BY <1>6, <2>1
  <1>11. Fits(p, fs[c].end + 1, a)
    BY <1>8, <1>9, <1>10 DEF Fits
  <1> QED
    BY <1>4, <1>11

\* Entering a block adds its frame.
LEMMA FitsEnter ==
    ASSUME NEW p, IsScript(p), NEW i \in 1 .. Len(p), IsBlock(p, i),
           NEW fs \in Seq(FrameType), Fits(p, i, fs),
           NEW f \in FrameType, f.end = p[i].end, f.kind = p[i].op,
           f.kind = "while" => f.saved = i + 1, NEW q \in {i + 1, p[i].end}
    PROVE  Fits(p, q, Append(fs, f))
  <1>1. Open(p, q) = Open(p, i) \cup {i}
    BY OpenInside
  <1>2. PICK a : a = Append(fs, f)
    OBVIOUS
  <1>3. /\ a \in Seq(FrameType) /\ Len(a) = Len(fs) + 1 /\ Len(fs) \in Nat
        /\ (\A n \in 1 .. Len(fs) : a[n] = fs[n]) /\ a[Len(fs) + 1] = f
    BY <1>2, AppendProperties
  <1>4. \A n \in 1 .. Len(a) : n \in 1 .. Len(fs) \/ n = Len(fs) + 1
    BY <1>3
  <1>5. ASSUME NEW n \in 1 .. Len(a)
        PROVE  \E j \in Open(p, q) :
                  /\ a[n].end = p[j].end /\ a[n].kind = p[j].op
                  /\ a[n].kind = "while" => a[n].saved = j + 1
    <2>1. CASE n \in 1 .. Len(fs)
      BY <1>1, <1>3, <2>1, FrameOpen
    <2>2. CASE n = Len(fs) + 1
      BY <1>1, <1>3, <2>2
    <2> QED
      BY <1>4, <2>1, <2>2
  <1>6. ASSUME NEW j \in Open(p, q)
        PROVE  \E n \in 1 .. Len(a) : a[n].end = p[j].end
    <2>1. CASE j \in Open(p, i)
      <3>1. PICK n \in 1 .. Len(fs) : fs[n].end = p[j].end
        BY <2>1 DEF Fits
      <3>2. n \in 1 .. Len(a) /\ a[n].end = p[j].end
        BY <1>3, <3>1
      <3> QED
        BY <3>2
    <2>2. CASE j = i
      <3>1. Len(fs) + 1 \in 1 .. Len(a)
        BY <1>3
      <3> QED
        BY <1>3, <2>2, <3>1
    <2> QED
      BY <1>1, <2>1, <2>2
  <1>7. ASSUME NEW n \in 1 .. Len(a), NEW k \in n + 1 .. Len(a)
        PROVE  a[k].end < a[n].end
    <2>1. n \in 1 .. Len(fs) /\ a[n] = fs[n]
      BY <1>3
    <2>2. CASE k \in n + 1 .. Len(fs)
      <3>1. fs[k].end < fs[n].end
        BY <2>1, <2>2 DEF Fits
      <3>2. a[k] = fs[k]
        BY <1>3, <2>1, <2>2
      <3> QED
        BY <2>1, <3>1, <3>2
    <2>3. CASE k = Len(fs) + 1
      <3>1. PICK j \in Open(p, i) : fs[n].end = p[j].end
        BY <2>1, FrameOpen
      <3>2. /\ j \in 1 .. Len(p) /\ IsBlock(p, j) /\ j < i
            /\ p[j].end \in j + 1 .. Len(p) /\ p[j].end >= i
        BY OpenIs
      <3>3. p[j].end < i \/ p[i].end < p[j].end
        BY <3>2, BlocksApart
      <3>4. p[i].end < p[j].end
        <4>1. p[j].end \in Int /\ ~ (p[j].end < i)
          BY <3>2
        <4> QED
          BY <3>3, <4>1
      <3> QED
        BY <1>3, <2>1, <2>3, <3>1, <3>4
    <2>4. k \in n + 1 .. Len(fs) \/ k = Len(fs) + 1
      BY <1>3
    <2> QED
      BY <2>2, <2>3, <2>4
  <1>8. Fits(p, q, a)
    BY <1>5, <1>6, <1>7 DEF Fits
  <1> QED
    BY <1>2, <1>8

\* The frames of a loop that goes round once more.
Spun(fs) == [fs EXCEPT ![Len(fs)].val = @ - 1]

\* A turn of a loop keeps the frames but for the count on top.
LEMMA SpunType ==
    ASSUME NEW fs \in Seq(FrameType), Len(fs) \in 1 .. Len(fs), Top(fs).val # 0
    PROVE  /\ Spun(fs) \in Seq(FrameType) /\ Len(Spun(fs)) = Len(fs)
           /\ \A i \in 1 .. Len(fs) - 1 : Spun(fs)[i] = fs[i]
           /\ \A i \in 1 .. Len(fs) :
                 /\ Spun(fs)[i].kind = fs[i].kind /\ Spun(fs)[i].end = fs[i].end
                 /\ Spun(fs)[i].saved = fs[i].saved
  <1>1. PICK n : n = Len(fs)
    OBVIOUS
  <1>2. PICK f : f = [fs[n] EXCEPT !.val = @ - 1]
    OBVIOUS
  <1>3. n \in 1 .. Len(fs) /\ fs[n] \in FrameType /\ fs[n].val # 0
    BY <1>1 DEF Top
  <1>4. fs[n] = [kind |-> fs[n].kind, val |-> fs[n].val,
                 saved |-> fs[n].saved, end |-> fs[n].end]
    BY <1>3 DEF FrameType
  <1>5. f = [kind |-> fs[n].kind, val |-> fs[n].val - 1,
             saved |-> fs[n].saved, end |-> fs[n].end]
    BY <1>2, <1>4
  <1>6. f \in FrameType
    BY <1>3, <1>5 DEF FrameType
  <1>7. Spun(fs) = [fs EXCEPT ![n] = f]
    BY <1>1, <1>2 DEF Spun
  <1> QED
    BY <1>1, <1>3, <1>5, <1>6, <1>7

\* Back at the first statement of a loop's body, its frames fit.
LEMMA FitsLoop ==
    ASSUME NEW p, IsScript(p), NEW q \in 1 .. Len(p), p[q].op = "end",
           NEW fs \in Seq(FrameType), Fits(p, q, fs),
           Top(fs).kind = "while", Top(fs).val # 0
    PROVE  Top(fs).saved \in Nat \ {0} /\ Fits(p, Top(fs).saved, Spun(fs))
  <1>1. PICK n : n = Len(fs)
    OBVIOUS
  <1>2. n \in 1 .. Len(fs) /\ fs[n].end = q
    BY <1>1, TopAtEnd
  <1>3. PICK j \in Open(p, q) : fs[n].end = p[j].end /\ fs[n].saved = j + 1
    BY <1>1, <1>2, FrameOpen DEF Top
  <1>4. j \in 1 .. Len(p) /\ IsBlock(p, j) /\ p[j].end = q
    BY <1>2, <1>3, OpenIs
  <1>5. Open(p, j + 1) = Open(p, q)
    <2>1. Open(p, j + 1) = Open(p, j) \cup {j}
      BY <1>4, OpenInside
    <2>2. Open(p, q) = Open(p, j) \cup {j}
      BY <1>4, OpenInside
    <2> QED
      BY <2>1, <2>2
  <1>6. Fits(p, j + 1, fs)
    BY <1>5, FitsSame
  <1>7. PICK a : a = Spun(fs)
    OBVIOUS
  <1>8. /\ Len(a) = Len(fs)
        /\ \A i \in 1 .. Len(fs) : /\ a[i].kind = fs[i].kind /\ a[i].end = fs[i].end
                                   /\ a[i].saved = fs[i].saved
    BY <1>1, <1>2, <1>7, SpunType
  <1>9. Fits(p, j + 1, a)
    <2>1. \A i \in 1 .. Len(a) : \E l \in Open(p, j + 1) :
             /\ a[i].end = p[l].end /\ a[i].kind = p[l].op
             /\ a[i].kind = "while" => a[i].saved = l + 1
      <3> TAKE i \in 1 .. Len(a)
      <3>1. i \in 1 .. Len(fs)
        BY <1>8
      <3>2. PICK l \in Open(p, j + 1) :
                /\ fs[i].end = p[l].end /\ fs[i].kind = p[l].op
                /\ fs[i].kind = "while" => fs[i].saved = l + 1
        BY <1>6, <3>1 DEF Fits
      <3> QED
        BY <1>8, <3>1, <3>2
    <2>2. \A l \in Open(p, j + 1) : \E i \in 1 .. Len(a) : a[i].end = p[l].end
      BY <1>6, <1>8 DEF Fits
    <2>3. ASSUME NEW i \in 1 .. Len(a), NEW k \in i + 1 .. Len(a)
          PROVE  a[k].end < a[i].end
      <3>1. i \in 1 .. Len(fs) /\ k \in i + 1 .. Len(fs) /\ k \in 1 .. Len(fs)
        BY <1>8
      <3>2. fs[k].end < fs[i].end
        BY <1>6, <3>1 DEF Fits
      <3> QED
        BY <1>8, <3>1, <3>2
    <2> QED
      BY <2>1, <2>2, <2>3 DEF Fits
  <1>10. Top(fs).saved = j + 1
    BY <1>1, <1>3 DEF Top
  <1> QED
    BY <1>4, <1>7, <1>9, <1>10

\* A loop binds nothing.
LEMMA SpunScope ==
    ASSUME NEW fs \in Seq(FrameType), Len(fs) \in 1 .. Len(fs), Top(fs).val # 0,
           Top(fs).kind = "while", NEW kind, kind # "while", NEW d
    PROVE  /\ Bound(Spun(fs), kind, d) = Bound(fs, kind, d)
           /\ Chained(fs, kind, d) => Chained(Spun(fs), kind, d)
  <1>1. PICK a : a = Spun(fs)
    OBVIOUS
  <1>2. /\ a \in Seq(FrameType) /\ Len(a) = Len(fs) /\ Len(fs) \in Nat
        /\ \A i \in 1 .. Len(fs) - 1 : a[i] = fs[i]
        /\ \A i \in 1 .. Len(fs) : a[i].kind = fs[i].kind /\ a[i].saved = fs[i].saved
    BY <1>1, SpunType
  <1>3. PICK k : k = Innermost(fs, kind)
    OBVIOUS
  <1>4. /\ k \in 0 .. Len(fs) /\ (k > 0 => fs[k].kind = kind)
        /\ \A i \in k + 1 .. Len(fs) : fs[i].kind # kind
    BY <1>3, InnermostIs
  <1>5. /\ k \in 0 .. Len(a) /\ (k > 0 => a[k].kind = kind)
        /\ \A i \in k + 1 .. Len(a) : a[i].kind # kind
    <2>1. \A i \in k + 1 .. Len(a) : i \in 1 .. Len(fs) /\ i \in k + 1 .. Len(fs)
      BY <1>2, <1>4
    <2>2. k > 0 => k \in 1 .. Len(fs)
      BY <1>4
    <2> QED
      BY <1>2, <1>4, <2>1, <2>2
  <1>6. Innermost(a, kind) = k
    BY <1>2, <1>5, InnermostEq
  <1>7. k > 0 => a[k] = fs[k]
    <2>1. HAVE k > 0
    <2>2. k # Len(fs)
      BY <1>4, <2>1 DEF Top
    <2> QED
      BY <1>2, <1>4, <2>1, <2>2
  <1>8. Bound(a, kind, d) = Bound(fs, kind, d)
    BY <1>3, <1>4, <1>6, <1>7 DEF Bound
  <1>9. ASSUME Chained(fs, kind, d), NEW i \in 1 .. Len(a), a[i].kind = kind
        PROVE  a[i].saved = Bound(SubSeq(a, 1, i - 1), kind, d)
    <2>1. /\ i \in 1 .. Len(fs) /\ i - 1 \in Nat /\ i - 1 <= Len(a)
          /\ i - 1 <= Len(fs) /\ \A n \in 1 .. i - 1 : a[n] = fs[n]
      BY <1>2
    <2>2. SubSeq(a, 1, i - 1) = SubSeq(fs, 1, i - 1)
      BY <1>2, <2>1, SamePrefix
    <2> QED
      BY <1>2, <1>9, <2>1, <2>2 DEF Chained
  <1>10. Chained(fs, kind, d) => Chained(a, kind, d)
    BY <1>9 DEF Chained
  <1> QED
    BY <1>1, <1>8, <1>10

-----------------------------------------------------------------------------
(* A step of the execution that runs.                                      *)

\* What ExecInv says of one execution.
Sound(e, x, r, b) ==
    /\ x.status = "running" <=> r = e
    /\ x.pending # None => e \in Resumable
    /\ x.status \in {"suspended", "raised"} => x.pending # None
    /\ x.pending = "preempted" => b > 0
    /\ IF x.status \in {"running", "suspended"}
       THEN x.script \in ScriptsFor[b] /\ Fits(Program[x.script], x.pc, x.frames)
       ELSE x.frames = <<>>
    /\ x.counted => /\ ~ (x.pc > Len(Program[x.script]))
                    /\ Program[x.script][x.pc].op # "end"

\* What the invariant says of one execution.
LEMMA EachSound ==
    ASSUME ExecInv, NEW e \in Exec
    PROVE  Sound(e, exec[e], running, budget) /\ exec[e] \in ExecType
  BY DEF ExecInv, Sound, Started, Code, Stmt, AtEnd

\* The state after a step of e, which is then x.
LEMMA PutSound ==
    ASSUME ExecInv, budget' = budget, NEW e \in Exec, NEW x \in ExecType,
           exec' = [exec EXCEPT ![e] = x], Sound(e, x, running', budget),
           running' \in Exec \cup {None},
           \A d \in Exec \ {e} : running' = d <=> running = d,
           slice' \in Nat, ctx' \in CtxType, doomed' \subseteq Resumable
    PROVE  ExecInv'
  <1>1. exec' \in [Exec -> ExecType] /\ budget' \in DOMAIN ScriptsFor
    BY DEF ExecInv
  <1>2. ASSUME NEW d \in Exec
        PROVE  Sound(d, exec'[d], running', budget')
    <2>1. CASE d = e
      <3>1. exec'[d] = x
        BY <2>1 DEF ExecInv
      <3> QED
        BY <2>1, <3>1
    <2>2. CASE d # e
      <3>1. exec'[d] = exec[d] /\ (running' = d <=> running = d)
        BY <2>2 DEF ExecInv
      <3>2. Sound(d, exec[d], running, budget)
        BY EachSound
      <3> QED
        BY <3>1, <3>2 DEF Sound
    <2> QED
      BY <2>1, <2>2
  <1> QED
    BY <1>1, <1>2 DEF ExecInv, Sound, Started, Code, Stmt, AtEnd

\* An execution, field by field.
Execution(status, script, pc, frames, pending, counted, base) ==
    [status |-> status, script |-> script, pc |-> pc, frames |-> frames,
     pending |-> pending, counted |-> counted, base |-> base]

\* An execution is made of its fields, and of nothing else.
LEMMA ExecutionIs ==
    ASSUME NEW x \in ExecType
    PROVE  x = Execution(x.status, x.script, x.pc, x.frames, x.pending, x.counted, x.base)
  BY DEF ExecType, Execution

\* The fields of an execution put together from its parts.
LEMMA ExecutionFields ==
    ASSUME NEW a, NEW b, NEW c, NEW d, NEW f, NEW g, NEW h
    PROVE  LET x == Execution(a, b, c, d, f, g, h)
           IN  /\ x.status = a /\ x.script = b /\ x.pc = c /\ x.frames = d
               /\ x.pending = f /\ x.counted = g /\ x.base = h
  BY DEF Execution

\* Parts of the right types make an execution.
LEMMA ExecutionType ==
    ASSUME NEW a \in {"idle", "running", "suspended", "raised"},
           NEW b \in Script \cup {None}, NEW c \in Nat \ {0},
           NEW d \in Seq(FrameType), NEW f \in {None, "sleep", "preempted"},
           NEW g \in BOOLEAN, NEW h \in Value
    PROVE  Execution(a, b, c, d, f, g, h) \in ExecType
  BY DEF Execution, ExecType

\* The types of the fields of an execution.
LEMMA FieldTypes ==
    ASSUME NEW x \in ExecType
    PROVE  /\ x.status \in {"idle", "running", "suspended", "raised"}
           /\ x.script \in Script \cup {None} /\ x.pc \in Nat \ {0}
           /\ x.frames \in Seq(FrameType) /\ x.pending \in {None, "sleep", "preempted"}
           /\ x.counted \in BOOLEAN /\ x.base \in Value
  BY DEF ExecType

\* Setting one field.
LEMMA SetPc ==
    ASSUME NEW a, NEW b, NEW c, NEW d, NEW f, NEW g, NEW h, NEW z
    PROVE  [Execution(a, b, c, d, f, g, h) EXCEPT !.pc = z] = Execution(a, b, z, d, f, g, h)
  BY DEF Execution

\* Setting the frames.
LEMMA SetFrames ==
    ASSUME NEW a, NEW b, NEW c, NEW d, NEW f, NEW g, NEW h, NEW z
    PROVE  [Execution(a, b, c, d, f, g, h) EXCEPT !.frames = z] = Execution(a, b, c, z, f, g, h)
  BY DEF Execution

\* Setting the mark of a statement that has been counted.
LEMMA SetCounted ==
    ASSUME NEW a, NEW b, NEW c, NEW d, NEW f, NEW g, NEW h, NEW z
    PROVE  [Execution(a, b, c, d, f, g, h) EXCEPT !.counted = z] = Execution(a, b, c, d, f, z, h)
  BY DEF Execution

\* Setting the status.
LEMMA SetStatus ==
    ASSUME NEW a, NEW b, NEW c, NEW d, NEW f, NEW g, NEW h, NEW z
    PROVE  [Execution(a, b, c, d, f, g, h) EXCEPT !.status = z] = Execution(z, b, c, d, f, g, h)
  BY DEF Execution

\* Setting what a resume waits for.
LEMMA SetPending ==
    ASSUME NEW a, NEW b, NEW c, NEW d, NEW f, NEW g, NEW h, NEW z
    PROVE  [Execution(a, b, c, d, f, g, h) EXCEPT !.pending = z] = Execution(a, b, c, d, z, g, h)
  BY DEF Execution

\* An execution elsewhere, with other frames.
At(x, pc, fs) == [x EXCEPT !.pc = pc, !.counted = FALSE, !.frames = fs]

\* An execution put elsewhere, by its parts.
LEMMA AtExecution ==
    ASSUME NEW x \in ExecType, NEW pc, NEW fs
    PROVE  At(x, pc, fs) = Execution(x.status, x.script, pc, fs, x.pending, FALSE, x.base)
  <1>1. PICK a, b, c, d, f, g, h :
            /\ a = x.status /\ b = x.script /\ c = x.pc /\ d = x.frames
            /\ f = x.pending /\ g = x.counted /\ h = x.base
    OBVIOUS
  <1>2. x = Execution(a, b, c, d, f, g, h)
    BY <1>1, ExecutionIs
  <1>3. PICK k : k = FALSE
    OBVIOUS
  <1>4. [x EXCEPT !.pc = pc] = Execution(a, b, pc, d, f, g, h)
    BY <1>2, SetPc
  <1>5. [Execution(a, b, pc, d, f, g, h) EXCEPT !.counted = k]
            = Execution(a, b, pc, d, f, k, h)
    BY SetCounted
  <1>6. [Execution(a, b, pc, d, f, k, h) EXCEPT !.frames = fs]
            = Execution(a, b, pc, fs, f, k, h)
    BY SetFrames
  <1>7. [x EXCEPT !.pc = pc, !.counted = k, !.frames = fs]
            = Execution(a, b, pc, fs, f, k, h)
    BY <1>4, <1>5, <1>6
  <1> QED
    BY <1>1, <1>3, <1>7 DEF At

\* An execution put elsewhere keeps its script, its status and its base.
LEMMA AtIs ==
    ASSUME NEW x \in ExecType, NEW pc \in Nat \ {0}, NEW fs \in Seq(FrameType)
    PROVE  /\ At(x, pc, fs) \in ExecType
           /\ At(x, pc, fs).pc = pc /\ At(x, pc, fs).frames = fs
           /\ At(x, pc, fs).counted = FALSE /\ At(x, pc, fs).status = x.status
           /\ At(x, pc, fs).script = x.script /\ At(x, pc, fs).pending = x.pending
           /\ At(x, pc, fs).base = x.base
  <1>1. PICK k \in BOOLEAN : k = FALSE
    OBVIOUS
  <1>2. At(x, pc, fs) = Execution(x.status, x.script, pc, fs, x.pending, k, x.base)
    BY <1>1, AtExecution
  <1>3. At(x, pc, fs) \in ExecType
    <2>1. PICK a, b, f, h : /\ a = x.status /\ b = x.script
                            /\ f = x.pending /\ h = x.base
      OBVIOUS
    <2>2. /\ a \in {"idle", "running", "suspended", "raised"}
          /\ b \in Script \cup {None} /\ f \in {None, "sleep", "preempted"}
          /\ h \in Value
      BY <2>1, FieldTypes
    <2>3. Execution(a, b, pc, fs, f, k, h) \in ExecType
      BY <2>2, ExecutionType
    <2> QED
      BY <1>2, <2>1, <2>3
  <1> QED
    BY <1>1, <1>2, <1>3, ExecutionFields

\* That the frames say what the fields are, given what they were before.
Scoped(fs, c, this, param) ==
    /\ Chained(fs, "with", this) /\ Chained(fs, "call", param)
    /\ c.this = Bound(fs, "with", this) /\ c.param = Bound(fs, "call", param)

\* e goes on running, at pc, with the frames fs.
Moved(e, pc, fs) ==
    /\ running = e /\ running' = e
    /\ pc \in Nat \ {0} /\ fs \in Seq(FrameType) /\ Fits(Code(e), pc, fs)
    /\ exec' = [exec EXCEPT ![e] = At(exec[e], pc, fs)]
    /\ ctx' \in CtxType
    /\ \A this, param : Scoped(exec[e].frames, ctx, this, param) =>
                            Scoped(fs, ctx', this, param)

\* It sets the timer, or leaves the flag as it is.
Timed(e) ==
    \/ ctx'.cancelled = ctx.cancelled /\ doomed' = doomed
    \/ /\ ~ AtEnd(e) /\ Stmt(e).op = "timeout"
       /\ ctx'.cancelled = TRUE /\ doomed' = doomed \cup Asleep

\* It is counted, or costs nothing, or is at the head of a loop.
Tallied(e) ==
    \/ /\ slice' = slice + 1 /\ ctx'.steps = Steps(e)
       /\ exec[e].counted \/ ~ Preempted(e)
    \/ slice' = slice /\ ctx'.steps = ctx.steps /\ exec[e].counted = FALSE
    \/ slice' = slice /\ \E i \in 1 .. Len(exec[e].frames) : exec[e].frames[i].kind = "while"

\* What is known of an execution that runs.
LEMMA RunningIs ==
    ASSUME ExecInv, NEW e \in Exec, running = e
    PROVE  /\ exec[e] \in ExecType /\ exec[e].status = "running"
           /\ exec[e].script \in ScriptsFor[budget] /\ IsScript(Code(e))
           /\ exec[e].pc \in Nat \ {0} /\ exec[e].frames \in Seq(FrameType)
           /\ Fits(Code(e), exec[e].pc, exec[e].frames)
           /\ ~ AtEnd(e) => /\ exec[e].pc \in 1 .. Len(Code(e))
                            /\ Stmt(e) = Code(e)[exec[e].pc]
                            /\ Stmt(e) \in Statement
  <1>1. Sound(e, exec[e], running, budget) /\ exec[e] \in ExecType
    BY EachSound
  <1>2. /\ exec[e].status = "running" /\ exec[e].script \in ScriptsFor[budget]
        /\ Fits(Code(e), exec[e].pc, exec[e].frames)
    BY <1>1 DEF Sound, Code
  <1>3. IsScript(Code(e))
    BY <1>2, ProgramIsScript, SleepAssumption DEF ExecInv, Code
  <1>4. exec[e].pc \in Nat \ {0} /\ exec[e].frames \in Seq(FrameType)
    BY <1>1 DEF ExecType
  <1>5. ~ AtEnd(e) => exec[e].pc \in 1 .. Len(Code(e))
    BY <1>3, <1>4 DEF AtEnd, IsScript
  <1> QED
    BY <1>1, <1>2, <1>3, <1>4, <1>5 DEF Stmt, IsScript

\* Counting a statement changes nothing but the counter.
LEMMA CountedIs ==
    ASSUME ExecInv, NEW e \in Exec, NEW op, Ready(e, op)
    PROVE  /\ Counted(e) \in CtxType /\ Counted(e).steps = Steps(e)
           /\ Counted(e).this = ctx.this /\ Counted(e).param = ctx.param
           /\ Counted(e).cancelled = ctx.cancelled
           /\ exec[e].counted \/ ~ Preempted(e)
  <1>1. PICK n : n = Steps(e)
    OBVIOUS
  <1>2. ctx \in CtxType /\ MaxSteps \in Nat
    BY SleepAssumption DEF ExecInv
  <1>3. ctx.steps \in 0 .. MaxSteps + 1
    BY <1>2 DEF CtxType
  <1>4. n \in 0 .. MaxSteps + 1
    BY <1>1, <1>2, <1>3 DEF Ready, Exhausted, Steps
  <1>5. ctx = [this |-> ctx.this, param |-> ctx.param, cancelled |-> ctx.cancelled,
               steps |-> ctx.steps, event |-> ctx.event]
    BY <1>2 DEF CtxType
  <1>6. Counted(e) = [this |-> ctx.this, param |-> ctx.param,
                      cancelled |-> ctx.cancelled, steps |-> n, event |-> ctx.event]
    BY <1>1, <1>5 DEF Counted
  <1>7. Counted(e) \in CtxType
    BY <1>2, <1>4, <1>6 DEF CtxType
  <1> QED
    BY <1>1, <1>6, <1>7 DEF Ready

\* Unwinding restores two fields and leaves the others.
LEMMA UnwoundIs ==
    ASSUME NEW c \in CtxType, NEW fs \in Seq(FrameType), NEW k \in 0 .. Len(fs)
    PROVE  /\ Unwound(c, fs, k) \in CtxType
           /\ Unwound(c, fs, k).this = Restored(fs, k, "with", c.this)
           /\ Unwound(c, fs, k).param = Restored(fs, k, "call", c.param)
           /\ Unwound(c, fs, k).cancelled = c.cancelled
           /\ Unwound(c, fs, k).steps = c.steps
           /\ Unwound(c, fs, k).event = c.event
  <1>1. PICK t, a : /\ t = Restored(fs, k, "with", c.this)
                    /\ a = Restored(fs, k, "call", c.param)
    OBVIOUS
  <1>2. \A i \in k + 1 .. Len(fs) : fs[i].saved \in Value
    <2> TAKE i \in k + 1 .. Len(fs)
    <2>1. i \in 1 .. Len(fs)
      OBVIOUS
    <2>2. fs[i] \in FrameType
      BY <2>1
    <2> QED
      BY <2>2 DEF FrameType
  <1>3. t \in Value
    BY <1>1, <1>2, RestoredIs DEF CtxType
  <1>4. a \in Value
    BY <1>1, <1>2, RestoredIs DEF CtxType
  <1>5. c = [this |-> c.this, param |-> c.param, cancelled |-> c.cancelled,
             steps |-> c.steps, event |-> c.event]
    BY DEF CtxType
  <1>6. [c EXCEPT !.this = t] = [this |-> t, param |-> c.param,
                                 cancelled |-> c.cancelled, steps |-> c.steps,
                                 event |-> c.event]
    BY <1>5
  <1>7. [[this |-> t, param |-> c.param, cancelled |-> c.cancelled,
          steps |-> c.steps, event |-> c.event] EXCEPT !.param = a] =
            [this |-> t, param |-> a, cancelled |-> c.cancelled,
             steps |-> c.steps, event |-> c.event]
    OBVIOUS
  <1>8. Unwound(c, fs, k) = [c EXCEPT !.this = t, !.param = a]
    BY <1>1, <1>5 DEF Unwound
  <1>9. Unwound(c, fs, k) = [this |-> t, param |-> a, cancelled |-> c.cancelled,
                             steps |-> c.steps, event |-> c.event]
    BY <1>6, <1>7, <1>8
  <1>10. Unwound(c, fs, k) \in CtxType
    BY <1>3, <1>4, <1>9 DEF CtxType
  <1> QED
    BY <1>1, <1>9, <1>10

-----------------------------------------------------------------------------
(* Where the steps of a running execution take it.                         *)

\* e leaves its statement.
LEMMA GoIs ==
    ASSUME ExecInv, NEW e \in Exec, NEW pc, NEW k
    PROVE  Go(e, pc, k) = [exec EXCEPT ![e] =
                              At(exec[e], pc, SubSeq(exec[e].frames, 1, k))]
  <1>1. PICK x : x = exec
    OBVIOUS
  <1>2. x \in [Exec -> ExecType]
    BY <1>1 DEF ExecInv
  <1>3. PICK y : y = SubSeq(x[e].frames, 1, k)
    OBVIOUS
  <1>4. [x EXCEPT ![e].pc = pc, ![e].counted = FALSE, ![e].frames = SubSeq(@, 1, k)]
          = [x EXCEPT ![e] = [x[e] EXCEPT !.pc = pc, !.counted = FALSE, !.frames = y]]
    BY <1>2, <1>3
  <1> QED
    BY <1>1, <1>3, <1>4 DEF Go, At

\* e enters a block.
LEMMA EnterIs ==
    ASSUME ExecInv, NEW e \in Exec, NEW f
    PROVE  Enter(e, f) = [exec EXCEPT ![e] =
                             At(exec[e], exec[e].pc + 1, Append(exec[e].frames, f))]
  <1>1. PICK x : x = exec
    OBVIOUS
  <1>2. x \in [Exec -> ExecType]
    BY <1>1 DEF ExecInv
  <1>3. PICK y, z : y = Append(x[e].frames, f) /\ z = x[e].pc + 1
    OBVIOUS
  <1>4. [x EXCEPT ![e].pc = @ + 1, ![e].counted = FALSE, ![e].frames = Append(@, f)]
          = [x EXCEPT ![e] = [x[e] EXCEPT !.pc = z, !.counted = FALSE, !.frames = y]]
    BY <1>2, <1>3
  <1> QED
    BY <1>1, <1>3, <1>4 DEF Enter, At

\* Only the place differs.
LEMMA AtElsewhere ==
    ASSUME NEW x \in ExecType, NEW pc, NEW fs, NEW z
    PROVE  [At(x, pc, fs) EXCEPT !.pc = z] = At(x, z, fs)
  <1>1. PICK a, b, f, k, h : /\ a = x.status /\ b = x.script /\ f = x.pending
                             /\ k = FALSE /\ h = x.base
    OBVIOUS
  <1>2. /\ At(x, pc, fs) = Execution(a, b, pc, fs, f, k, h)
        /\ At(x, z, fs) = Execution(a, b, z, fs, f, k, h)
    BY <1>1, AtExecution
  <1> QED
    BY <1>2, SetPc

\* A loop is entered by one change of its execution.
LEMMA EnterLoopIs ==
    ASSUME ExecInv, NEW e \in Exec, NEW f, NEW z
    PROVE  [Enter(e, f) EXCEPT ![e].pc = z]
              = [exec EXCEPT ![e] = At(exec[e], z, Append(exec[e].frames, f))]
  <1>1. PICK x : x = exec
    OBVIOUS
  <1>2. x \in [Exec -> ExecType]
    BY <1>1 DEF ExecInv
  <1>3. PICK y, w : /\ y = At(x[e], x[e].pc + 1, Append(x[e].frames, f))
                    /\ w = At(x[e], z, Append(x[e].frames, f))
    OBVIOUS
  <1>4. [y EXCEPT !.pc = z] = w
    BY <1>2, <1>3, AtElsewhere
  <1>5. [[x EXCEPT ![e] = y] EXCEPT ![e].pc = z] = [x EXCEPT ![e] = [y EXCEPT !.pc = z]]
    BY <1>2
  <1> QED
    BY <1>1, <1>3, <1>4, <1>5, EnterIs

\* e goes round a loop.
LEMMA SpinIs ==
    ASSUME NEW x \in [Exec -> ExecType], NEW e \in Exec, x[e].counted = FALSE, NEW z
    PROVE  [x EXCEPT ![e].pc = z, ![e].frames[Len(x[e].frames)].val = @ - 1]
              = [x EXCEPT ![e] = At(x[e], z, Spun(x[e].frames))]
  <1>1. x[e] \in ExecType
    OBVIOUS
  <1>2. PICK gs : gs = [x[e].frames EXCEPT ![Len(x[e].frames)].val = @ - 1]
    OBVIOUS
  <1>3. [x EXCEPT ![e].pc = z, ![e].frames[Len(x[e].frames)].val = @ - 1]
          = [x EXCEPT ![e] = [x[e] EXCEPT !.pc = z, !.frames = gs]]
    BY <1>2
  <1>4. PICK a, b, c, d, f, k, h :
            /\ a = x[e].status /\ b = x[e].script /\ c = x[e].pc /\ d = x[e].frames
            /\ f = x[e].pending /\ k = x[e].counted /\ h = x[e].base
    OBVIOUS
  <1>5. x[e] = Execution(a, b, c, d, f, k, h)
    BY <1>1, <1>4, ExecutionIs
  <1>6. [x[e] EXCEPT !.pc = z] = Execution(a, b, z, d, f, k, h)
    BY <1>5, SetPc
  <1>7. [Execution(a, b, z, d, f, k, h) EXCEPT !.frames = gs]
            = Execution(a, b, z, gs, f, k, h)
    BY SetFrames
  <1>8. [x[e] EXCEPT !.pc = z, !.frames = gs] = Execution(a, b, z, gs, f, k, h)
    BY <1>6, <1>7
  <1>9. At(x[e], z, gs) = Execution(a, b, z, gs, f, k, h)
    BY <1>1, <1>4, AtExecution
  <1>10. gs = Spun(x[e].frames)
    BY <1>2 DEF Spun
  <1> QED
    BY <1>3, <1>8, <1>9, <1>10

\* A leaf statement: on to the next one, in the same blocks.
LEMMA LeafMoves ==
    ASSUME ExecInv, NEW e \in Exec, running = e, ~ AtEnd(e),
           Stmt(e).op \notin {"while", "with", "call", "end"},
           exec' = Go(e, exec[e].pc + 1, Len(exec[e].frames)), running' = running,
           ctx' \in CtxType, ctx'.this = ctx.this, ctx'.param = ctx.param
    PROVE  Moved(e, exec[e].pc + 1, exec[e].frames)
  <1>1. PICK p, i, fs : p = Code(e) /\ i = exec[e].pc /\ fs = exec[e].frames
    OBVIOUS
  <1>2. /\ IsScript(p) /\ i \in 1 .. Len(p) /\ fs \in Seq(FrameType)
        /\ Fits(p, i, fs) /\ p[i].op \notin {"while", "with", "call", "end"}
    BY <1>1, RunningIs
  <1>3. Fits(p, i + 1, fs)
    BY <1>2, OpenLeaf, FitsSame DEF IsBlock
  <1>4. exec' = [exec EXCEPT ![e] = At(exec[e], i + 1, fs)]
    <2>1. SubSeq(fs, 1, Len(fs)) = fs
      BY <1>2, SubSeqFull
    <2>2. Go(e, i + 1, Len(fs)) =
              [exec EXCEPT ![e] = At(exec[e], i + 1, SubSeq(exec[e].frames, 1, Len(fs)))]
      BY GoIs
    <2> QED
      BY <1>1, <2>1, <2>2
  <1>5. \A this, param : Scoped(fs, ctx, this, param) => Scoped(fs, ctx', this, param)
    BY DEF Scoped
  <1>6. i + 1 \in Nat \ {0}
    BY <1>2
  <1> QED
    BY <1>1, <1>2, <1>3, <1>4, <1>5, <1>6 DEF Moved

\* The head of a block that binds a field, or of a loop, which binds none.
LEMMA EnterMoves ==
    ASSUME ExecInv, NEW e \in Exec, running = e, ~ AtEnd(e),
           NEW f \in FrameType, f.kind = Stmt(e).op, f.end = Stmt(e).end,
           f.kind = "while" => f.saved = exec[e].pc + 1,
           NEW q \in {exec[e].pc + 1, Stmt(e).end},
           exec' = [exec EXCEPT ![e] = At(exec[e], q, Append(exec[e].frames, f))],
           running' = running, ctx' \in CtxType,
           IF f.kind = "with" THEN f.saved = ctx.this /\ ctx'.this = f.val
                              ELSE ctx'.this = ctx.this,
           IF f.kind = "call" THEN f.saved = ctx.param /\ ctx'.param = f.val
                              ELSE ctx'.param = ctx.param
    PROVE  Moved(e, q, Append(exec[e].frames, f))
  <1>1. PICK p, i, fs : p = Code(e) /\ i = exec[e].pc /\ fs = exec[e].frames
    OBVIOUS
  <1>2. /\ IsScript(p) /\ i \in 1 .. Len(p) /\ fs \in Seq(FrameType)
        /\ Fits(p, i, fs) /\ Stmt(e) = p[i]
    BY <1>1, RunningIs
  <1>3. IsBlock(p, i)
    BY <1>2 DEF FrameType, IsBlock
  <1>4. Fits(p, q, Append(fs, f))
    BY <1>1, <1>2, <1>3, FitsEnter
  <1>5. q \in Nat \ {0}
    BY <1>1, <1>2, <1>3, BlockEnds
  <1>6. Append(fs, f) \in Seq(FrameType)
    BY <1>2, AppendProperties
  <1>7. ASSUME NEW this, NEW param, Scoped(fs, ctx, this, param)
        PROVE  Scoped(Append(fs, f), ctx', this, param)
    <2>1. /\ Chained(fs, "with", this) /\ Chained(fs, "call", param)
          /\ ctx.this = Bound(fs, "with", this) /\ ctx.param = Bound(fs, "call", param)
      BY <1>7 DEF Scoped
    <2>2. Chained(Append(fs, f), "with", this)
      BY <1>2, <2>1, ChainedAppend
    <2>3. Chained(Append(fs, f), "call", param)
      BY <1>2, <2>1, ChainedAppend
    <2>4. ctx'.this = Bound(Append(fs, f), "with", this)
      BY <1>2, <2>1, BoundAppend
    <2>5. ctx'.param = Bound(Append(fs, f), "call", param)
      BY <1>2, <2>1, BoundAppend
    <2> QED
      BY <2>2, <2>3, <2>4, <2>5 DEF Scoped
  <1> QED
    BY <1>1, <1>4, <1>5, <1>6, <1>7 DEF Moved

\* Frames c and above are done with, and their finally clauses have run.
LEMMA LeaveMoves ==
    ASSUME ExecInv, NEW e \in Exec, running = e, ~ AtEnd(e),
           NEW c \in 1 .. Len(exec[e].frames), NEW before \in CtxType,
           before.this = ctx.this, before.param = ctx.param,
           exec' = Go(e, exec[e].frames[c].end + 1, c - 1), running' = running,
           ctx' = Unwound(before, exec[e].frames, c - 1)
    PROVE  Moved(e, exec[e].frames[c].end + 1, SubSeq(exec[e].frames, 1, c - 1))
  <1>1. PICK p, i, fs : p = Code(e) /\ i = exec[e].pc /\ fs = exec[e].frames
    OBVIOUS
  <1>2. /\ IsScript(p) /\ i \in 1 .. Len(p) /\ fs \in Seq(FrameType)
        /\ Fits(p, i, fs) /\ c \in 1 .. Len(fs) /\ c - 1 \in 0 .. Len(fs)
    BY <1>1, RunningIs
  <1>3. PICK gs : gs = SubSeq(fs, 1, c - 1)
    OBVIOUS
  <1>4. gs \in Seq(FrameType) /\ Fits(p, fs[c].end + 1, gs)
    BY <1>2, <1>3, PrefixType, FitsAfter
  <1>5. fs[c].end + 1 \in Nat \ {0}
    <2>1. fs[c] \in FrameType
      BY <1>2
    <2> QED
      BY <2>1 DEF FrameType
  <1>6. /\ ctx' \in CtxType
        /\ ctx'.this = Restored(fs, c - 1, "with", ctx.this)
        /\ ctx'.param = Restored(fs, c - 1, "call", ctx.param)
    BY <1>1, <1>2, UnwoundIs
  <1>7. exec' = [exec EXCEPT ![e] = At(exec[e], fs[c].end + 1, gs)]
    BY <1>1, <1>3, GoIs
  <1>8. ASSUME NEW this, NEW param, Scoped(fs, ctx, this, param)
        PROVE  Scoped(gs, ctx', this, param)
    <2>1. /\ Chained(fs, "with", this) /\ Chained(fs, "call", param)
          /\ ctx.this = Bound(fs, "with", this) /\ ctx.param = Bound(fs, "call", param)
      BY <1>8 DEF Scoped
    <2>2. ctx'.this = Bound(gs, "with", this) /\ ctx'.param = Bound(gs, "call", param)
      BY <1>2, <1>3, <1>6, <2>1, RestoredBound
    <2>3. Chained(gs, "with", this) /\ Chained(gs, "call", param)
      BY <1>2, <1>3, <2>1, ChainedPrefix
    <2> QED
      BY <2>2, <2>3 DEF Scoped
  <1> QED
    BY <1>1, <1>3, <1>4, <1>5, <1>6, <1>7, <1>8 DEF Moved

\* A step after which e still runs.
Goes(e) == (\E pc, fs : Moved(e, pc, fs)) /\ Timed(e) /\ Tallied(e)

\* What a statement that is counted does to the flag and the counter.
LEMMA CountedGoes ==
    ASSUME ExecInv, NEW e \in Exec, NEW op, Ready(e, op), Executed,
           ctx'.steps = Steps(e), ctx'.cancelled = ctx.cancelled, UNCHANGED doomed,
           \E pc, fs : Moved(e, pc, fs)
    PROVE  Goes(e)
  <1>1. Timed(e)
    BY DEF Timed
  <1>2. Tallied(e)
    BY CountedIs DEF Tallied, Executed
  <1> QED
    BY <1>1, <1>2 DEF Goes

\* A plain statement.
LEMMA ActGoes ==
    ASSUME ExecInv, NEW e \in Exec, Act(e)
    PROVE  Goes(e)
  <1>1. /\ Ready(e, "act") /\ ctx' = Counted(e) /\ Executed /\ UNCHANGED doomed
        /\ exec' = Go(e, exec[e].pc + 1, Len(exec[e].frames))
    BY DEF Act
  <1>2. running = e /\ ~ AtEnd(e) /\ Stmt(e).op = "act" /\ running' = running
    BY <1>1 DEF Ready, Executed
  <1>3. /\ ctx' \in CtxType /\ ctx'.this = ctx.this /\ ctx'.param = ctx.param
        /\ ctx'.steps = Steps(e) /\ ctx'.cancelled = ctx.cancelled
    BY <1>1, CountedIs
  <1>4. Moved(e, exec[e].pc + 1, exec[e].frames)
    BY <1>1, <1>2, <1>3, LeafMoves
  <1> QED
    BY <1>1, <1>3, <1>4, CountedGoes

\* timeout= sets the timer and cancels what sleeps.
LEMMA TimeoutGoes ==
    ASSUME ExecInv, NEW e \in Exec, Timeout(e)
    PROVE  Goes(e)
  <1>1. /\ Ready(e, "timeout") /\ ctx' = [Counted(e) EXCEPT !.cancelled = TRUE]
        /\ exec' = Go(e, exec[e].pc + 1, Len(exec[e].frames))
        /\ doomed' = doomed \cup Asleep /\ Executed
    BY DEF Timeout
  <1>2. running = e /\ ~ AtEnd(e) /\ Stmt(e).op = "timeout" /\ running' = running
    BY <1>1 DEF Ready, Executed
  <1>3. PICK c : c = Counted(e)
    OBVIOUS
  <1>4. /\ c \in CtxType /\ c.this = ctx.this /\ c.param = ctx.param
        /\ c.steps = Steps(e)
        /\ exec[e].counted \/ ~ Preempted(e)
    BY <1>1, <1>3, CountedIs
  <1>5. PICK k \in BOOLEAN : k = TRUE
    OBVIOUS
  <1>6. c = [this |-> c.this, param |-> c.param, cancelled |-> c.cancelled,
             steps |-> c.steps, event |-> c.event]
    BY <1>4 DEF CtxType
  <1>7. ctx' = [this |-> c.this, param |-> c.param, cancelled |-> k,
                steps |-> c.steps, event |-> c.event]
    <2>1. [c EXCEPT !.cancelled = k] =
              [this |-> c.this, param |-> c.param, cancelled |-> k,
               steps |-> c.steps, event |-> c.event]
      BY <1>6
    <2> QED
      BY <1>1, <1>3, <1>5, <2>1
  <1>8. /\ ctx' \in CtxType /\ ctx'.this = c.this /\ ctx'.param = c.param
        /\ ctx'.steps = c.steps /\ ctx'.cancelled = k
    BY <1>4, <1>7 DEF CtxType
  <1>9. Moved(e, exec[e].pc + 1, exec[e].frames)
    BY <1>1, <1>2, <1>4, <1>8, LeafMoves
  <1>10. Timed(e)
    BY <1>1, <1>2, <1>5, <1>8 DEF Timed
  <1>11. Tallied(e)
    <2>1. slice' = slice + 1
      BY <1>1 DEF Executed
    <2>2. ctx'.steps = Steps(e)
      BY <1>4, <1>8
    <2> QED
      BY <1>4, <2>1, <2>2 DEF Tallied
  <1> QED
    BY <1>9, <1>10, <1>11 DEF Goes

\* A frame with typed fields.
LEMMA FrameIs ==
    ASSUME NEW kind \in {"while", "with", "call"}, NEW val \in Nat,
           NEW saved \in Value, NEW end \in Nat
    PROVE  LET f == Frame(kind, val, saved, end)
           IN  /\ f \in FrameType /\ f.kind = kind /\ f.val = val
               /\ f.saved = saved /\ f.end = end
  BY DEF Frame, FrameType

\* A with block binds this and remembers what it was.
LEMMA WithGoes ==
    ASSUME ExecInv, NEW e \in Exec, With(e)
    PROVE  Goes(e)
  <1>1. PICK arg, end, this, f : /\ arg = Stmt(e).arg /\ end = Stmt(e).end
                                 /\ this = ctx.this /\ f = Frame("with", arg, this, end)
    OBVIOUS
  <1>2. /\ Ready(e, "with") /\ ctx' = [Counted(e) EXCEPT !.this = arg]
        /\ exec' = Enter(e, f) /\ Executed /\ UNCHANGED doomed
    BY <1>1 DEF With
  <1>3. running = e /\ ~ AtEnd(e) /\ Stmt(e).op = "with" /\ running' = running
    BY <1>2 DEF Ready, Executed
  <1>4. arg \in Nat /\ end \in Nat
    BY <1>1, <1>3, RunningIs DEF Statement
  <1>5. this \in Value
    BY <1>1 DEF ExecInv, CtxType
  <1>6. /\ f \in FrameType /\ f.kind = "with" /\ f.val = arg
        /\ f.saved = this /\ f.end = end
    BY <1>1, <1>4, <1>5, FrameIs
  <1>7. PICK c : c = Counted(e)
    OBVIOUS
  <1>8. /\ c \in CtxType /\ c.this = ctx.this /\ c.param = ctx.param
        /\ c.steps = Steps(e) /\ c.cancelled = ctx.cancelled
    BY <1>2, <1>7, CountedIs
  <1>9. c = [this |-> c.this, param |-> c.param, cancelled |-> c.cancelled,
             steps |-> c.steps, event |-> c.event]
    BY <1>8 DEF CtxType
  <1>10. ctx' = [this |-> arg, param |-> c.param, cancelled |-> c.cancelled,
                 steps |-> c.steps, event |-> c.event]
    BY <1>2, <1>7, <1>9
  <1>11. arg \in Value
    BY <1>4 DEF Value
  <1>12. /\ ctx' \in CtxType /\ ctx'.this = arg /\ ctx'.param = ctx.param
         /\ ctx'.steps = Steps(e) /\ ctx'.cancelled = ctx.cancelled
    BY <1>8, <1>10, <1>11 DEF CtxType
  <1>13. exec' = [exec EXCEPT ![e] =
                     At(exec[e], exec[e].pc + 1, Append(exec[e].frames, f))]
    BY <1>2, EnterIs
  <1>14. Moved(e, exec[e].pc + 1, Append(exec[e].frames, f))
    BY <1>1, <1>3, <1>6, <1>12, <1>13, EnterMoves
  <1> QED
    BY <1>2, <1>12, <1>14, CountedGoes

\* A call binds its parameter and remembers what it was.
LEMMA CallGoes ==
    ASSUME ExecInv, NEW e \in Exec, Call(e)
    PROVE  Goes(e)
  <1>1. PICK arg, end, param, f : /\ arg = Stmt(e).arg /\ end = Stmt(e).end
                                  /\ param = ctx.param
                                  /\ f = Frame("call", arg, param, end)
    OBVIOUS
  <1>2. /\ Ready(e, "call") /\ ctx' = [Counted(e) EXCEPT !.param = arg]
        /\ exec' = Enter(e, f) /\ Executed /\ UNCHANGED doomed
    BY <1>1 DEF Call
  <1>3. running = e /\ ~ AtEnd(e) /\ Stmt(e).op = "call" /\ running' = running
    BY <1>2 DEF Ready, Executed
  <1>4. arg \in Nat /\ end \in Nat
    BY <1>1, <1>3, RunningIs DEF Statement
  <1>5. param \in Value
    BY <1>1 DEF ExecInv, CtxType
  <1>6. /\ f \in FrameType /\ f.kind = "call" /\ f.val = arg
        /\ f.saved = param /\ f.end = end
    BY <1>1, <1>4, <1>5, FrameIs
  <1>7. PICK c : c = Counted(e)
    OBVIOUS
  <1>8. /\ c \in CtxType /\ c.this = ctx.this /\ c.param = ctx.param
        /\ c.steps = Steps(e) /\ c.cancelled = ctx.cancelled
    BY <1>2, <1>7, CountedIs
  <1>9. c = [this |-> c.this, param |-> c.param, cancelled |-> c.cancelled,
             steps |-> c.steps, event |-> c.event]
    BY <1>8 DEF CtxType
  <1>10. ctx' = [this |-> c.this, param |-> arg, cancelled |-> c.cancelled,
                 steps |-> c.steps, event |-> c.event]
    BY <1>2, <1>7, <1>9
  <1>11. arg \in Value
    BY <1>4 DEF Value
  <1>12. /\ ctx' \in CtxType /\ ctx'.this = ctx.this /\ ctx'.param = arg
         /\ ctx'.steps = Steps(e) /\ ctx'.cancelled = ctx.cancelled
    BY <1>8, <1>10, <1>11 DEF CtxType
  <1>13. exec' = [exec EXCEPT ![e] =
                     At(exec[e], exec[e].pc + 1, Append(exec[e].frames, f))]
    BY <1>2, EnterIs
  <1>14. Moved(e, exec[e].pc + 1, Append(exec[e].frames, f))
    BY <1>1, <1>3, <1>6, <1>12, <1>13, EnterMoves
  <1> QED
    BY <1>2, <1>12, <1>14, CountedGoes

\* A while loop is entered or passed over.
LEMMA WhileGoes ==
    ASSUME ExecInv, NEW e \in Exec, While(e)
    PROVE  Goes(e)
  <1>1. PICK arg, end, pc, f : /\ arg = Stmt(e).arg /\ end = Stmt(e).end
                               /\ pc = exec[e].pc
                               /\ f = Frame("while", arg, pc + 1, end)
    OBVIOUS
  <1>2. /\ Ready(e, "while") /\ ctx' = Counted(e)
        /\ exec' = [Enter(e, f) EXCEPT ![e].pc = end] /\ Executed /\ UNCHANGED doomed
    BY <1>1 DEF While
  <1>3. running = e /\ ~ AtEnd(e) /\ Stmt(e).op = "while" /\ running' = running
    BY <1>2 DEF Ready, Executed
  <1>4. arg \in Nat /\ end \in Nat /\ pc \in Nat
    BY <1>1, <1>3, RunningIs DEF Statement
  <1>5. pc + 1 \in Value
    BY <1>4 DEF Value
  <1>6. /\ f \in FrameType /\ f.kind = "while" /\ f.val = arg
        /\ f.saved = pc + 1 /\ f.end = end
    BY <1>1, <1>4, <1>5, FrameIs
  <1>7. /\ ctx' \in CtxType /\ ctx'.this = ctx.this /\ ctx'.param = ctx.param
        /\ ctx'.steps = Steps(e) /\ ctx'.cancelled = ctx.cancelled
    BY <1>2, CountedIs
  <1>8. exec' = [exec EXCEPT ![e] = At(exec[e], end, Append(exec[e].frames, f))]
    BY <1>2, EnterLoopIs
  <1>9. Moved(e, end, Append(exec[e].frames, f))
    BY <1>1, <1>3, <1>6, <1>7, <1>8, EnterMoves
  <1> QED
    BY <1>2, <1>7, <1>9, CountedGoes

\* At an "end", control is that of the top frame, and nothing waits.
LEMMA EndIs ==
    ASSUME ExecInv, NEW e \in Exec, running = e, ~ AtEnd(e), Stmt(e).op = "end"
    PROVE  /\ Len(exec[e].frames) \in 1 .. Len(exec[e].frames)
           /\ exec[e].frames[Len(exec[e].frames)].end = exec[e].pc
           /\ exec[e].counted = FALSE
  <1>1. /\ IsScript(Code(e)) /\ exec[e].pc \in 1 .. Len(Code(e))
        /\ Code(e)[exec[e].pc].op = "end" /\ exec[e].frames \in Seq(FrameType)
        /\ Fits(Code(e), exec[e].pc, exec[e].frames)
    BY RunningIs
  <1>2. exec[e].counted = FALSE
    BY EachSound DEF Sound, ExecType, Stmt, Code
  <1> QED
    BY <1>1, <1>2, TopAtEnd

\* The end of a block drops its frame and restores what that saved.
LEMMA EndBlockGoes ==
    ASSUME ExecInv, NEW e \in Exec, EndBlock(e)
    PROVE  Goes(e)
  <1>1. PICK n : n = Len(exec[e].frames)
    OBVIOUS
  <1>2. /\ running = e /\ ~ AtEnd(e) /\ Stmt(e).op = "end"
        /\ ctx' = Unwound(ctx, exec[e].frames, n - 1)
        /\ exec' = Go(e, exec[e].pc + 1, n - 1)
        /\ UNCHANGED <<running, doomed, slice>>
    BY <1>1 DEF EndBlock
  <1>3. /\ n \in 1 .. Len(exec[e].frames) /\ exec[e].frames[n].end = exec[e].pc
        /\ exec[e].counted = FALSE
    BY <1>1, <1>2, EndIs
  <1>4. ctx \in CtxType
    BY DEF ExecInv
  <1>5. Moved(e, exec[e].frames[n].end + 1, SubSeq(exec[e].frames, 1, n - 1))
    BY <1>2, <1>3, <1>4, LeaveMoves
  <1>6. ctx'.steps = ctx.steps /\ ctx'.cancelled = ctx.cancelled
    BY <1>2, <1>3, <1>4, RunningIs, UnwoundIs
  <1>7. Timed(e)
    BY <1>2, <1>6 DEF Timed
  <1>8. Tallied(e)
    BY <1>2, <1>3, <1>6 DEF Tallied
  <1> QED
    BY <1>5, <1>7, <1>8 DEF Goes

\* The head of a loop turns it once more, or leaves it.
LEMMA LoopHeadGoes ==
    ASSUME ExecInv, NEW e \in Exec, LoopHead(e)
    PROVE  Goes(e)
  <1>1. PICK n, fs : n = Len(exec[e].frames) /\ fs = exec[e].frames
    OBVIOUS
  <1>2. /\ running = e /\ ~ AtEnd(e) /\ Stmt(e).op = "end"
        /\ Top(fs).kind = "while" /\ UNCHANGED <<running, doomed, slice>>
    BY <1>1 DEF LoopHead
  <1>3. /\ n \in 1 .. Len(fs) /\ fs[n].end = exec[e].pc /\ exec[e].counted = FALSE
        /\ fs \in Seq(FrameType) /\ n = Len(fs) /\ Top(fs) = fs[n]
    BY <1>1, <1>2, EndIs, RunningIs DEF Top
  <1>4. ctx \in CtxType
    BY DEF ExecInv
  <1>5. Tallied(e)
    BY <1>1, <1>2, <1>3 DEF Tallied
  <1>6. CASE Top(fs).val = 0
    <2>1. exec' = Go(e, exec[e].pc + 1, n - 1) /\ ctx' = ctx
      BY <1>1, <1>6 DEF LoopHead
    <2>2. /\ Restored(fs, n - 1, "with", ctx.this) = ctx.this
          /\ Restored(fs, n - 1, "call", ctx.param) = ctx.param
      <3>1. n - 1 \in 0 .. Len(fs) /\ \A i \in n - 1 + 1 .. Len(fs) : fs[i].kind = "while"
        BY <1>2, <1>3
      <3>2. /\ \A i \in n - 1 + 1 .. Len(fs) : fs[i].kind # "with"
            /\ \A i \in n - 1 + 1 .. Len(fs) : fs[i].kind # "call"
        BY <3>1
      <3>3. Restored(fs, n - 1, "with", ctx.this) = ctx.this
        BY <1>3, <3>1, <3>2, RestoredIs
      <3>4. Restored(fs, n - 1, "call", ctx.param) = ctx.param
        BY <1>3, <3>1, <3>2, RestoredIs
      <3> QED
        BY <3>3, <3>4
    <2>3. Unwound(ctx, fs, n - 1) = ctx
      <3>1. PICK u : u = Unwound(ctx, fs, n - 1)
        OBVIOUS
      <3>2. n - 1 \in 0 .. Len(fs)
        BY <1>3
      <3>3. /\ u \in CtxType /\ u.this = ctx.this /\ u.param = ctx.param
            /\ u.cancelled = ctx.cancelled /\ u.steps = ctx.steps /\ u.event = ctx.event
        BY <1>3, <1>4, <2>2, <3>1, <3>2, UnwoundIs
      <3>4. u = [this |-> u.this, param |-> u.param, cancelled |-> u.cancelled,
                 steps |-> u.steps, event |-> u.event]
        BY <3>3 DEF CtxType
      <3>5. ctx = [this |-> ctx.this, param |-> ctx.param,
                   cancelled |-> ctx.cancelled, steps |-> ctx.steps,
                   event |-> ctx.event]
        BY <1>4 DEF CtxType
      <3> QED
        BY <3>1, <3>3, <3>4, <3>5
    <2>4. Moved(e, exec[e].frames[n].end + 1, SubSeq(exec[e].frames, 1, n - 1))
      BY <1>1, <1>2, <1>3, <1>4, <2>1, <2>3, LeaveMoves
    <2>5. Timed(e)
      BY <1>2, <2>1 DEF Timed
    <2> QED
      BY <1>5, <2>4, <2>5 DEF Goes
  <1>7. CASE Top(fs).val # 0
    <2>1. /\ ~ Exhausted(e) /\ ctx' = [ctx EXCEPT !.steps = HeadSteps(e)]
          /\ exec' = [exec EXCEPT ![e].pc = Top(exec[e].frames).saved,
                          ![e].frames[Len(exec[e].frames)].val = @ - 1]
      BY <1>1, <1>7 DEF LoopHead
    <2>2. exec \in [Exec -> ExecType]
      BY DEF ExecInv
    <2>3. exec' = [exec EXCEPT ![e] = At(exec[e], Top(fs).saved, Spun(fs))]
      <3>1. PICK z : z = Top(exec[e].frames).saved
        OBVIOUS
      <3>2. [exec EXCEPT ![e].pc = z, ![e].frames[Len(exec[e].frames)].val = @ - 1]
               = [exec EXCEPT ![e] = At(exec[e], z, Spun(exec[e].frames))]
        BY <1>3, <2>2, SpinIs
      <3> QED
        BY <1>1, <2>1, <3>1, <3>2
    <2>4. Top(fs).saved \in Nat \ {0} /\ Fits(Code(e), Top(fs).saved, Spun(fs))
      BY <1>1, <1>2, <1>3, <1>7, RunningIs, FitsLoop
    <2>5. Spun(fs) \in Seq(FrameType)
      BY <1>3, <1>7, SpunType
    <2>6. PICK h : h = HeadSteps(e)
      OBVIOUS
    <2>7. h \in 0 .. MaxSteps + 1
      <3>1. ctx.steps \in 0 .. MaxSteps + 1 /\ MaxSteps \in Nat
        BY <1>4, SleepAssumption DEF CtxType
      <3> QED
        BY <2>1, <2>6, <3>1 DEF HeadSteps, Exhausted
    <2>8. ctx = [this |-> ctx.this, param |-> ctx.param, cancelled |-> ctx.cancelled,
                 steps |-> ctx.steps, event |-> ctx.event]
      BY <1>4 DEF CtxType
    <2>9. ctx' = [this |-> ctx.this, param |-> ctx.param, cancelled |-> ctx.cancelled,
                  steps |-> h, event |-> ctx.event]
      BY <2>1, <2>6, <2>8
    <2>10. /\ ctx' \in CtxType /\ ctx'.this = ctx.this /\ ctx'.param = ctx.param
           /\ ctx'.cancelled = ctx.cancelled
      BY <1>4, <2>7, <2>9 DEF CtxType
    <2>11. ASSUME NEW this, NEW param, Scoped(fs, ctx, this, param)
           PROVE  Scoped(Spun(fs), ctx', this, param)
      <3>1. /\ Bound(Spun(fs), "with", this) = Bound(fs, "with", this)
            /\ Chained(fs, "with", this) => Chained(Spun(fs), "with", this)
        BY <1>2, <1>3, <1>7, SpunScope
      <3>2. /\ Bound(Spun(fs), "call", param) = Bound(fs, "call", param)
            /\ Chained(fs, "call", param) => Chained(Spun(fs), "call", param)
        BY <1>2, <1>3, <1>7, SpunScope
      <3> QED
        BY <2>10, <2>11, <3>1, <3>2 DEF Scoped
    <2>12. Moved(e, Top(fs).saved, Spun(fs))
      BY <1>1, <1>2, <2>3, <2>4, <2>5, <2>10, <2>11 DEF Moved
    <2>13. Timed(e)
      BY <1>2, <2>10 DEF Timed
    <2> QED
      BY <1>5, <2>12, <2>13 DEF Goes
  <1> QED
    BY <1>6, <1>7

\* break, return and sleep unwind to the frame that catches them.
LEMMA SignalGoes ==
    ASSUME ExecInv, NEW e \in Exec, NEW op \in {"break", "return", "sleep"},
           Ready(e, op), NEW kind, Signal(e, kind)
    PROVE  Goes(e)
  <1>1. PICK fs, k : fs = exec[e].frames /\ k = Innermost(fs, kind)
    OBVIOUS
  <1>2. PICK c : c = IF k = 0 THEN 1 ELSE k
    OBVIOUS
  <1>3. /\ IF fs = <<>>
           THEN exec' = Go(e, exec[e].pc + 1, 0) /\ ctx' = Counted(e)
           ELSE /\ exec' = Go(e, fs[c].end + 1, c - 1)
                /\ ctx' = Unwound(Counted(e), fs, c - 1)
        /\ Executed /\ UNCHANGED doomed
    BY <1>1, <1>2 DEF Signal
  <1>4. running = e /\ ~ AtEnd(e) /\ Stmt(e).op = op /\ running' = running
    BY <1>3 DEF Ready, Executed
  <1>5. fs \in Seq(FrameType)
    BY <1>1, <1>4, RunningIs
  <1>6. PICK b : b = Counted(e)
    OBVIOUS
  <1>7. /\ b \in CtxType /\ b.this = ctx.this /\ b.param = ctx.param
        /\ b.steps = Steps(e) /\ b.cancelled = ctx.cancelled
    BY <1>6, CountedIs
  <1>8. CASE fs = <<>>
    <2>1. exec' = Go(e, exec[e].pc + 1, Len(exec[e].frames)) /\ ctx' = b
      BY <1>1, <1>3, <1>6, <1>8
    <2>2. Moved(e, exec[e].pc + 1, exec[e].frames)
      BY <1>4, <1>7, <2>1, LeafMoves
    <2> QED
      BY <1>3, <1>7, <2>1, <2>2, CountedGoes
  <1>9. CASE fs # <<>>
    <2>1. c \in 1 .. Len(fs)
      <3>1. Len(fs) \in Nat /\ Len(fs) # 0
        BY <1>5, <1>9
      <3>2. k \in 0 .. Len(fs)
        BY <1>1, <1>5, InnermostIs
      <3> QED
        BY <1>2, <3>1, <3>2
    <2>2. exec' = Go(e, fs[c].end + 1, c - 1) /\ ctx' = Unwound(b, fs, c - 1)
      BY <1>3, <1>6, <1>9
    <2>3. Moved(e, exec[e].frames[c].end + 1, SubSeq(exec[e].frames, 1, c - 1))
      BY <1>1, <1>4, <1>7, <2>1, <2>2, LeaveMoves
    <2>4. c - 1 \in 0 .. Len(fs)
      BY <2>1
    <2>5. ctx'.steps = Steps(e) /\ ctx'.cancelled = ctx.cancelled
      BY <1>5, <1>7, <2>2, <2>4, UnwoundIs
    <2> QED
      BY <1>3, <2>3, <2>5, CountedGoes
  <1> QED
    BY <1>8, <1>9

\* A sleep in a synchronous run goes on behind it, or leaves the loop it is in.
LEMMA SyncSleepGoes ==
    ASSUME ExecInv, NEW e \in Exec, SyncSleep(e)
    PROVE  Goes(e)
  <1>1. Ready(e, "sleep")
    BY DEF SyncSleep
  <1>2. CASE Signal(e, "while")
    BY <1>1, <1>2, SignalGoes
  <1>3. CASE /\ ctx' = Counted(e) /\ Executed /\ UNCHANGED doomed
             /\ exec' = Go(e, exec[e].pc + 1, Len(exec[e].frames))
    <2>1. running = e /\ ~ AtEnd(e) /\ Stmt(e).op = "sleep" /\ running' = running
      BY <1>1, <1>3 DEF Ready, Executed
    <2>2. /\ ctx' \in CtxType /\ ctx'.this = ctx.this /\ ctx'.param = ctx.param
          /\ ctx'.steps = Steps(e) /\ ctx'.cancelled = ctx.cancelled
      BY <1>1, <1>3, CountedIs
    <2>3. Moved(e, exec[e].pc + 1, exec[e].frames)
      BY <1>3, <2>1, <2>2, LeafMoves
    <2> QED
      BY <1>1, <1>3, <2>2, <2>3, CountedGoes
  <1> QED
    BY <1>2, <1>3 DEF SyncSleep

-----------------------------------------------------------------------------
(* The other steps, by what they do to the execution that takes them.      *)

\* e was running and is suspended, in the scopes it was in.
Suspends(e) ==
    /\ running = e /\ running' = None /\ e \in Resumable
    /\ \E x \in ExecType :
          /\ exec' = [exec EXCEPT ![e] = x] /\ Sound(e, x, None, budget)
          /\ x.status = "suspended" /\ x.frames = exec[e].frames
          /\ x.base = exec[e].base
    /\ ctx' \in CtxType /\ ctx'.cancelled = FALSE
    /\ ctx'.this = ctx.this /\ ctx'.param = ctx.param
    /\ doomed' = doomed /\ slice' \in Nat

\* e was running and is done with, its scopes undone.
Ends(e) ==
    /\ running = e /\ running' = None
    /\ \E x \in ExecType :
          /\ exec' = [exec EXCEPT ![e] = x] /\ Sound(e, x, None, budget)
          /\ x.status \in {"idle", "raised"}
    /\ ctx' \in CtxType /\ ctx'.cancelled = ctx.cancelled
    /\ \A this, param : Scoped(exec[e].frames, ctx, this, param) =>
                            ctx'.this = this /\ ctx'.param = param
    /\ doomed' = doomed /\ slice' = slice

\* e was idle and starts.
Starts(e) ==
    /\ running = None /\ running' = e /\ exec[e].status = "idle"
    /\ \E x \in ExecType :
          /\ exec' = [exec EXCEPT ![e] = x] /\ Sound(e, x, e, budget)
          /\ x.status = "running" /\ x.frames = <<>>
          /\ x.base = ctx.this /\ x.counted = FALSE
    /\ ctx' \in CtxType /\ ctx'.cancelled = ctx.cancelled
    /\ ctx'.this = ctx.this /\ ctx'.param = ctx.param
    /\ doomed' = doomed /\ slice' = 0

\* e was suspended, not cancelled, and goes on.
Wakes(e) ==
    /\ running = None /\ running' = e /\ exec[e].status = "suspended"
    /\ ctx.cancelled = FALSE
    /\ \E x \in ExecType :
          /\ exec' = [exec EXCEPT ![e] = x] /\ Sound(e, x, e, budget)
          /\ x.status = "running" /\ x.frames = exec[e].frames
          /\ x.base = exec[e].base /\ x.counted = exec[e].counted
    /\ ctx' \in CtxType /\ ctx'.cancelled = FALSE
    /\ ctx'.this = ctx.this /\ ctx'.param = ctx.param
    /\ exec[e].counted => ctx'.steps = 1
    /\ doomed' = doomed /\ slice' = 0

\* e was pending and is closed, its scopes undone.
Closes(e) ==
    /\ running = None /\ running' = None
    /\ exec[e].status \in {"suspended", "raised"}
    /\ \E x \in ExecType :
          /\ exec' = [exec EXCEPT ![e] = x] /\ Sound(e, x, None, budget)
          /\ x.status = "idle"
    /\ ctx' \in CtxType
    /\ ctx'.cancelled = FALSE \/ ctx'.cancelled = ctx.cancelled
    /\ \A this, param : Scoped(exec[e].frames, ctx, this, param) =>
                            ctx'.this = this /\ ctx'.param = param
    /\ doomed' = doomed \ {e} /\ slice' = slice

\* The finally clauses of all frames restore what was there before them.
LEMMA UnwoundAll ==
    ASSUME NEW c \in CtxType, NEW fs \in Seq(FrameType), NEW this, NEW param,
           Scoped(fs, c, this, param)
    PROVE  Unwound(c, fs, 0).this = this /\ Unwound(c, fs, 0).param = param
  <1>1. 0 \in 0 .. Len(fs) /\ SubSeq(fs, 1, 0) = <<>>
    BY SubSeqEmpty
  <1>2. /\ Unwound(c, fs, 0).this = Restored(fs, 0, "with", c.this)
        /\ Unwound(c, fs, 0).param = Restored(fs, 0, "call", c.param)
    BY <1>1, UnwoundIs
  <1>3. \A kind, d : Chained(fs, kind, d) =>
            Restored(fs, 0, kind, Bound(fs, kind, d)) = Bound(<<>>, kind, d)
    <2>1. PICK k : k = 0
      OBVIOUS
    <2>2. ASSUME NEW kind, NEW d, Chained(fs, kind, d)
          PROVE  Restored(fs, k, kind, Bound(fs, kind, d))
                    = Bound(SubSeq(fs, 1, k), kind, d)
      BY <1>1, <2>1, <2>2, RestoredBound
    <2> QED
      BY <1>1, <2>1, <2>2
  <1>4. \A kind, d : Bound(<<>>, kind, d) = d
    BY NoneBound
  <1> QED
    BY <1>2, <1>3, <1>4 DEF Scoped

\* Before an event and after it an execution is idle.
LEMMA IdleIs ==
    /\ Idle \in ExecType /\ Idle.status = "idle" /\ Idle.frames = <<>>
    /\ Idle.pending = None /\ Idle.counted = FALSE /\ Idle.script = None
    /\ Idle.pc = 1
  <1>1. PICK k \in BOOLEAN : k = FALSE
    OBVIOUS
  <1>2. Idle = Execution("idle", None, 1, <<>>, None, k, Npc)
    BY <1>1 DEF Idle, Execution
  <1>3. <<>> \in Seq(FrameType) /\ Npc \in Value /\ 1 \in Nat \ {0}
    BY DEF Value
  <1>4. Idle \in ExecType
    BY <1>2, <1>3, ExecutionType
  <1> QED
    BY <1>1, <1>2, <1>4, ExecutionFields

\* An idle execution is sound.
LEMMA IdleSound ==
    ASSUME NEW e \in Exec, NEW b
    PROVE  Sound(e, Idle, None, b)
  <1>1. None # e /\ None # "preempted"
    BY SleepAssumption
  <1> QED
    BY <1>1, IdleIs DEF Sound

\* run_event starts an execution that was idle.
LEMMA FireStarts ==
    ASSUME ExecInv, NEW e \in Exec, NEW s \in ScriptsFor[budget], Fire(e, s)
    PROVE  Starts(e)
  <1>1. PICK this, x : this = ctx.this /\ x = [Idle EXCEPT !.status = "running",
                                                           !.script = s, !.base = this]
    OBVIOUS
  <1>2. /\ running = None /\ exec[e].status = "idle"
        /\ exec' = [exec EXCEPT ![e] = x] /\ ctx' = [ctx EXCEPT !.event = s]
        /\ running' = e /\ slice' = 0 /\ doomed' = doomed
    BY <1>1 DEF Fire
  <1>3. s \in Script /\ IsScript(Program[s])
    BY ProgramIsScript, SleepAssumption DEF ExecInv
  <1>4. ctx \in CtxType /\ this \in Value
    BY <1>1 DEF ExecInv, CtxType
  <1>5. PICK k \in BOOLEAN : k = FALSE
    OBVIOUS
  <1>6. x = Execution("running", s, 1, <<>>, None, k, this)
    BY <1>1, <1>5 DEF Idle, Execution
  <1>7. <<>> \in Seq(FrameType) /\ 1 \in Nat \ {0}
    OBVIOUS
  <1>8. x \in ExecType
    BY <1>3, <1>4, <1>6, <1>7, ExecutionType
  <1>9. /\ x.status = "running" /\ x.script = s /\ x.pc = 1 /\ x.frames = <<>>
        /\ x.pending = None /\ x.counted = FALSE /\ x.base = this
    BY <1>5, <1>6, ExecutionFields
  <1>10. Fits(Program[s], 1, <<>>)
    <2>1. ~ \E j \in Open(Program[s], 1) : TRUE
      BY DEF Open
    <2> QED
      BY <2>1 DEF Fits
  <1>11. Sound(e, x, e, budget)
    BY <1>9, <1>10, SleepAssumption DEF Sound
  <1>12. ctx = [this |-> ctx.this, param |-> ctx.param, cancelled |-> ctx.cancelled,
                steps |-> ctx.steps, event |-> ctx.event]
    BY <1>4 DEF CtxType
  <1>13. ctx' = [this |-> ctx.this, param |-> ctx.param, cancelled |-> ctx.cancelled,
                 steps |-> ctx.steps, event |-> s]
    BY <1>2, <1>12
  <1>14. /\ ctx' \in CtxType /\ ctx'.cancelled = ctx.cancelled
         /\ ctx'.this = ctx.this /\ ctx'.param = ctx.param
    BY <1>3, <1>4, <1>13 DEF CtxType
  <1> QED
    BY <1>1, <1>2, <1>8, <1>9, <1>11, <1>14 DEF Starts

\* Yielding gives up the flag; c is the Context it was reached with.
LEMMA YieldIs ==
    ASSUME NEW c \in CtxType, Yield(c)
    PROVE  /\ ctx' \in CtxType /\ ctx'.cancelled = FALSE /\ ctx'.this = c.this
           /\ ctx'.param = c.param /\ running' = None /\ doomed' = doomed
  <1>1. PICK k \in BOOLEAN : k = FALSE
    OBVIOUS
  <1>2. ctx' = [c EXCEPT !.cancelled = k] /\ running' = None /\ doomed' = doomed
    BY <1>1 DEF Yield
  <1>3. c = [this |-> c.this, param |-> c.param, cancelled |-> c.cancelled,
             steps |-> c.steps, event |-> c.event]
    BY DEF CtxType
  <1>4. ctx' = [this |-> c.this, param |-> c.param, cancelled |-> k,
                steps |-> c.steps, event |-> c.event]
    BY <1>2, <1>3
  <1> QED
    BY <1>1, <1>2, <1>4 DEF CtxType

\* A sleep leaves its execution suspended.
LEMMA SleepSuspends ==
    ASSUME ExecInv, NEW e \in Exec, Sleep(e)
    PROVE  Suspends(e)
  <1>1. PICK p, i, fs : p = Code(e) /\ i = exec[e].pc /\ fs = exec[e].frames
    OBVIOUS
  <1>2. /\ e \in Resumable /\ Ready(e, "sleep") /\ Yield(Counted(e))
        /\ exec' = [Go(e, i + 1, Len(fs)) EXCEPT ![e].status = "suspended",
                                                 ![e].pending = "sleep"]
        /\ slice' = slice + 1
    BY <1>1 DEF Sleep
  <1>3. running = e /\ ~ AtEnd(e) /\ Stmt(e).op = "sleep"
    BY <1>2 DEF Ready
  <1>4. /\ IsScript(p) /\ i \in 1 .. Len(p) /\ fs \in Seq(FrameType)
        /\ Fits(p, i, fs) /\ p[i].op = "sleep"
    BY <1>1, <1>3, RunningIs
  <1>5. Fits(p, i + 1, fs) /\ i + 1 \in Nat \ {0}
    BY <1>4, OpenLeaf, FitsSame DEF IsBlock
  <1>6. PICK y, x : /\ y = At(exec[e], i + 1, fs)
                    /\ x = [y EXCEPT !.status = "suspended", !.pending = "sleep"]
    OBVIOUS
  <1>7. Go(e, i + 1, Len(fs)) = [exec EXCEPT ![e] = y]
    <2>1. Go(e, i + 1, Len(fs)) =
              [exec EXCEPT ![e] = At(exec[e], i + 1, SubSeq(exec[e].frames, 1, Len(fs)))]
      BY GoIs
    <2>2. SubSeq(fs, 1, Len(fs)) = fs
      BY <1>4, SubSeqFull
    <2> QED
      BY <1>1, <1>6, <2>1, <2>2
  <1>8. exec \in [Exec -> ExecType] /\ exec[e] \in ExecType
    BY DEF ExecInv
  <1>9. exec' = [exec EXCEPT ![e] = x]
    <2>1. [[exec EXCEPT ![e] = y] EXCEPT ![e].status = "suspended",
                                         ![e].pending = "sleep"]
             = [exec EXCEPT ![e] = [y EXCEPT !.status = "suspended",
                                             !.pending = "sleep"]]
      BY <1>8
    <2> QED
      BY <1>2, <1>6, <1>7, <2>1
  <1>10. PICK a, b, f, k, h :
             /\ a = exec[e].status /\ b = exec[e].script /\ f = exec[e].pending
             /\ k = FALSE /\ h = exec[e].base
    OBVIOUS
  <1>11. y = Execution(a, b, i + 1, fs, f, k, h)
    BY <1>6, <1>8, <1>10, AtExecution
  <1>12. x = Execution("suspended", b, i + 1, fs, "sleep", k, h)
    <2>1. [y EXCEPT !.status = "suspended"]
             = Execution("suspended", b, i + 1, fs, f, k, h)
      BY <1>11, SetStatus
    <2>2. [Execution("suspended", b, i + 1, fs, f, k, h) EXCEPT !.pending = "sleep"]
             = Execution("suspended", b, i + 1, fs, "sleep", k, h)
      BY SetPending
    <2> QED
      BY <1>6, <2>1, <2>2
  <1>13. /\ b \in Script \cup {None} /\ h \in Value /\ k \in BOOLEAN
    BY <1>8, <1>10, FieldTypes
  <1>14. x \in ExecType
    BY <1>4, <1>5, <1>12, <1>13, ExecutionType
  <1>15. /\ x.status = "suspended" /\ x.script = b /\ x.pc = i + 1 /\ x.frames = fs
         /\ x.pending = "sleep" /\ x.counted = FALSE /\ x.base = h
    BY <1>10, <1>12, ExecutionFields
  <1>16. Sound(e, x, None, budget)
    <2>1. b \in ScriptsFor[budget] /\ Program[b] = p
      BY <1>1, <1>3, <1>10, RunningIs DEF Code
    <2>2. None # "sleep" /\ None # e
      BY SleepAssumption
    <2> QED
      BY <1>2, <1>5, <1>15, <2>1, <2>2 DEF Sound
  <1>17. PICK c : c = Counted(e)
    OBVIOUS
  <1>18. c \in CtxType /\ c.this = ctx.this /\ c.param = ctx.param
    BY <1>2, <1>17, CountedIs
  <1>19. /\ ctx' \in CtxType /\ ctx'.cancelled = FALSE /\ ctx'.this = ctx.this
         /\ ctx'.param = ctx.param /\ running' = None /\ doomed' = doomed
    BY <1>2, <1>17, <1>18, YieldIs
  <1>20. slice' \in Nat
    BY <1>2 DEF ExecInv
  <1> QED
    BY <1>1, <1>2, <1>3, <1>9, <1>10, <1>14, <1>15, <1>16, <1>19, <1>20 DEF Suspends

\* So does the end of a slice.
LEMMA PreemptSuspends ==
    ASSUME ExecInv, NEW e \in Exec, Preempt(e)
    PROVE  Suspends(e)
  <1>1. PICK x, k : /\ k = TRUE
                    /\ x = [exec[e] EXCEPT !.status = "suspended",
                                           !.pending = "preempted", !.counted = k]
    OBVIOUS
  <1>2. /\ running = e /\ ~ AtEnd(e) /\ Stmt(e).op # "end" /\ Preempted(e)
        /\ Yield([ctx EXCEPT !.steps = 0]) /\ slice' = slice
    BY DEF Preempt
  <1>3. exec \in [Exec -> ExecType] /\ exec[e] \in ExecType
    BY DEF ExecInv
  <1>4. exec' = [exec EXCEPT ![e] = x]
    <2>1. [exec EXCEPT ![e].status = "suspended", ![e].pending = "preempted",
                       ![e].counted = k]
             = [exec EXCEPT ![e] = x]
      BY <1>1, <1>3
    <2> QED
      BY <1>1, <2>1 DEF Preempt
  <1>5. PICK a, b, i, fs, f, g, h :
            /\ a = exec[e].status /\ b = exec[e].script /\ i = exec[e].pc
            /\ fs = exec[e].frames /\ f = exec[e].pending /\ g = exec[e].counted
            /\ h = exec[e].base
    OBVIOUS
  <1>6. exec[e] = Execution(a, b, i, fs, f, g, h)
    BY <1>3, <1>5, ExecutionIs
  <1>7. x = Execution("suspended", b, i, fs, "preempted", k, h)
    <2>1. [exec[e] EXCEPT !.status = "suspended"]
             = Execution("suspended", b, i, fs, f, g, h)
      BY <1>6, SetStatus
    <2>2. [Execution("suspended", b, i, fs, f, g, h) EXCEPT !.pending = "preempted"]
             = Execution("suspended", b, i, fs, "preempted", g, h)
      BY SetPending
    <2>3. [Execution("suspended", b, i, fs, "preempted", g, h) EXCEPT !.counted = k]
             = Execution("suspended", b, i, fs, "preempted", k, h)
      BY SetCounted
    <2> QED
      BY <1>1, <2>1, <2>2, <2>3
  <1>8. /\ b \in Script \cup {None} /\ i \in Nat \ {0} /\ fs \in Seq(FrameType)
        /\ h \in Value /\ k \in BOOLEAN
    BY <1>1, <1>3, <1>5, FieldTypes
  <1>9. x \in ExecType
    BY <1>7, <1>8, ExecutionType
  <1>10. /\ x.status = "suspended" /\ x.script = b /\ x.pc = i /\ x.frames = fs
         /\ x.pending = "preempted" /\ x.base = h
    BY <1>7, ExecutionFields
  <1>11. e \in Resumable /\ budget > 0
    BY <1>2 DEF Preempted
  <1>12. Sound(e, x, None, budget)
    <2>1. /\ b \in ScriptsFor[budget] /\ Fits(Program[b], i, fs)
          /\ ~ (i > Len(Program[b])) /\ Program[b][i].op # "end"
      BY <1>2, <1>5, RunningIs DEF Code, AtEnd, Stmt
    <2>2. None # "preempted" /\ None # e
      BY SleepAssumption
    <2> QED
      BY <1>10, <1>11, <2>1, <2>2 DEF Sound
  <1>13. PICK c : c = [ctx EXCEPT !.steps = 0]
    OBVIOUS
  <1>14. c \in CtxType /\ c.this = ctx.this /\ c.param = ctx.param
    <2>1. ctx \in CtxType /\ 0 \in 0 .. MaxSteps + 1
      BY SleepAssumption DEF ExecInv
    <2>2. ctx = [this |-> ctx.this, param |-> ctx.param, cancelled |-> ctx.cancelled,
                 steps |-> ctx.steps, event |-> ctx.event]
      BY <2>1 DEF CtxType
    <2>3. c = [this |-> ctx.this, param |-> ctx.param, cancelled |-> ctx.cancelled,
               steps |-> 0, event |-> ctx.event]
      BY <1>13, <2>2
    <2> QED
      BY <2>1, <2>3 DEF CtxType
  <1>15. /\ ctx' \in CtxType /\ ctx'.cancelled = FALSE /\ ctx'.this = ctx.this
         /\ ctx'.param = ctx.param /\ running' = None /\ doomed' = doomed
    BY <1>2, <1>13, <1>14, YieldIs
  <1>16. slice' \in Nat
    BY <1>2 DEF ExecInv
  <1> QED
    BY <1>2, <1>4, <1>5, <1>9, <1>10, <1>11, <1>12, <1>15, <1>16 DEF Suspends

\* The step limit unwinds, and leaves a generator that has yielded exhausted.
LEMMA StepLimitEnds ==
    ASSUME ExecInv, NEW e \in Exec, StepLimit(e)
    PROVE  Ends(e)
  <1>1. PICK y, u : /\ y = exec[e] /\ u = Unwound(ctx, y.frames, 0)
    OBVIOUS
  <1>2. PICK x : x = IF y.pending = None THEN Idle
                     ELSE [Idle EXCEPT !.status = "raised", !.script = y.script,
                                       !.pending = y.pending]
    OBVIOUS
  <1>3. /\ running = e /\ running' = None /\ exec' = [exec EXCEPT ![e] = x]
        /\ ctx' = [u EXCEPT !.steps = MaxSteps + 1]
        /\ doomed' = doomed /\ slice' = slice
    BY <1>1, <1>2 DEF StepLimit
  <1>4. y \in ExecType /\ Sound(e, y, running, budget)
    BY <1>1, EachSound
  <1>5. y.frames \in Seq(FrameType) /\ y.script \in Script \cup {None}
        /\ y.pending \in {None, "sleep", "preempted"}
    BY <1>4, FieldTypes
  <1>6. ctx \in CtxType /\ MaxSteps \in Nat /\ 0 \in 0 .. Len(y.frames)
    BY <1>5, SleepAssumption DEF ExecInv
  <1>7. u \in CtxType /\ u.cancelled = ctx.cancelled
    BY <1>1, <1>5, <1>6, UnwoundIs
  <1>8. u = [this |-> u.this, param |-> u.param, cancelled |-> u.cancelled,
             steps |-> u.steps, event |-> u.event]
    BY <1>7 DEF CtxType
  <1>9. ctx' = [this |-> u.this, param |-> u.param, cancelled |-> u.cancelled,
                steps |-> MaxSteps + 1, event |-> u.event]
    BY <1>3, <1>8
  <1>10. MaxSteps + 1 \in 0 .. MaxSteps + 1
    BY <1>6
  <1>11. /\ ctx' \in CtxType /\ ctx'.cancelled = ctx.cancelled
         /\ ctx'.this = u.this /\ ctx'.param = u.param
    BY <1>7, <1>9, <1>10 DEF CtxType
  <1>12. \A this, param : Scoped(y.frames, ctx, this, param) =>
            ctx'.this = this /\ ctx'.param = param
    BY <1>1, <1>5, <1>6, <1>11, UnwoundAll
  <1>13. CASE y.pending = None
    <2>1. x = Idle
      BY <1>2, <1>13
    <2> QED
      BY <1>1, <1>3, <1>11, <1>12, <2>1, IdleIs, IdleSound DEF Ends
  <1>14. CASE y.pending # None
    <2>1. PICK k \in BOOLEAN : k = FALSE
      OBVIOUS
    <2>2. PICK s, q : s = y.script /\ q = y.pending
      OBVIOUS
    <2>3. Idle = Execution("idle", None, 1, <<>>, None, k, Npc)
      BY <2>1 DEF Idle, Execution
    <2>4. x = [Idle EXCEPT !.status = "raised", !.script = s, !.pending = q]
      BY <1>2, <1>14, <2>2
    <2>5. x = Execution("raised", s, 1, <<>>, q, k, Npc)
      BY <2>1, <2>4 DEF Idle, Execution
    <2>6. <<>> \in Seq(FrameType) /\ Npc \in Value /\ 1 \in Nat \ {0}
      BY DEF Value
    <2>7. x \in ExecType
      BY <1>5, <2>2, <2>5, <2>6, ExecutionType
    <2>8. /\ x.status = "raised" /\ x.frames = <<>> /\ x.pending = q
          /\ x.counted = FALSE
      BY <2>1, <2>5, ExecutionFields
    <2>9. Sound(e, x, None, budget)
      <3>1. None # e
        BY SleepAssumption
      <3>2. q # None /\ e \in Resumable /\ (q = "preempted" => budget > 0)
        BY <1>4, <1>14, <2>2 DEF Sound
      <3> QED
        BY <2>8, <3>1, <3>2 DEF Sound
    <2> QED
      BY <1>1, <1>3, <1>11, <1>12, <2>7, <2>8, <2>9 DEF Ends
  <1> QED
    BY <1>13, <1>14

\* A script that has run to its end leaves nothing behind.
LEMMA FinishEnds ==
    ASSUME ExecInv, NEW e \in Exec, Finish(e)
    PROVE  Ends(e)
  <1>1. /\ running = e /\ AtEnd(e) /\ exec' = [exec EXCEPT ![e] = Idle]
        /\ running' = None /\ ctx' = ctx /\ doomed' = doomed /\ slice' = slice
    BY DEF Finish
  <1>2. exec[e].frames = <<>>
    BY <1>1, RunningIs, FitsAtEnd DEF AtEnd
  <1>3. \A this, param : Scoped(exec[e].frames, ctx, this, param) =>
            ctx'.this = this /\ ctx'.param = param
    BY <1>1, <1>2, NoneBound DEF Scoped
  <1>4. ctx \in CtxType
    BY DEF ExecInv
  <1> QED
    BY <1>1, <1>3, <1>4, IdleIs, IdleSound DEF Ends

\* A pending execution is in the scopes of its frames, and closing it undoes
\* them.
LEMMA PendingUnwound ==
    ASSUME ExecInv, NEW e \in Exec
    PROVE  LET u == Unwound(ctx, exec[e].frames, 0)
           IN  /\ u \in CtxType /\ u.cancelled = ctx.cancelled
               /\ \A this, param : Scoped(exec[e].frames, ctx, this, param) =>
                                       u.this = this /\ u.param = param
  <1>1. exec[e].frames \in Seq(FrameType) /\ ctx \in CtxType
    BY FieldTypes DEF ExecInv
  <1>2. 0 \in 0 .. Len(exec[e].frames)
    BY <1>1
  <1> QED
    BY <1>1, <1>2, UnwoundIs, UnwoundAll

\* A resume that finds its execution cancelled closes it.
LEMMA ResumeCancelledCloses ==
    ASSUME ExecInv, NEW e \in Exec, ResumeCancelled(e)
    PROVE  Closes(e)
  <1>1. PICK u, k : u = Unwound(ctx, exec[e].frames, 0) /\ k = FALSE
    OBVIOUS
  <1>2. /\ running = None /\ exec[e].status \in {"suspended", "raised"}
        /\ ctx' = [u EXCEPT !.cancelled = k]
        /\ exec' = [exec EXCEPT ![e] = Idle] /\ doomed' = doomed \ {e}
        /\ running' = None /\ slice' = slice
    BY <1>1 DEF ResumeCancelled, Discarded
  <1>3. /\ u \in CtxType
        /\ \A this, param : Scoped(exec[e].frames, ctx, this, param) =>
                                u.this = this /\ u.param = param
    BY <1>1, PendingUnwound
  <1>4. u = [this |-> u.this, param |-> u.param, cancelled |-> u.cancelled,
             steps |-> u.steps, event |-> u.event]
    BY <1>3 DEF CtxType
  <1>5. ctx' = [this |-> u.this, param |-> u.param, cancelled |-> k,
                steps |-> u.steps, event |-> u.event]
    BY <1>2, <1>4
  <1>6. k \in BOOLEAN
    BY <1>1
  <1>7. ctx' \in CtxType /\ ctx'.this = u.this /\ ctx'.param = u.param
        /\ ctx'.cancelled = k
    BY <1>3, <1>5, <1>6 DEF CtxType
  <1> QED
    BY <1>1, <1>2, <1>3, <1>7, IdleIs, IdleSound DEF Closes

\* A host that drops an execution closes it.
LEMMA DropCloses ==
    ASSUME ExecInv, NEW e \in Exec, Drop(e)
    PROVE  Closes(e)
  <1>1. PICK u : u = Unwound(ctx, exec[e].frames, 0)
    OBVIOUS
  <1>2. /\ running = None /\ exec[e].status \in {"suspended", "raised"}
        /\ ctx' = u /\ exec' = [exec EXCEPT ![e] = Idle] /\ doomed' = doomed \ {e}
        /\ running' = None /\ slice' = slice
    BY <1>1 DEF Drop, Discarded
  <1>3. /\ u \in CtxType /\ u.cancelled = ctx.cancelled
        /\ \A this, param : Scoped(exec[e].frames, ctx, this, param) =>
                                u.this = this /\ u.param = param
    BY <1>1, PendingUnwound
  <1> QED
    BY <1>2, <1>3, IdleIs, IdleSound DEF Closes

\* A resume wakes its execution, or closes it.
LEMMA ResumeGoes ==
    ASSUME ExecInv, NEW e \in Exec, Resume(e)
    PROVE  Wakes(e) \/ Closes(e)
  <1>1. running = None /\ ~ ctx.cancelled /\ ctx \in CtxType
    BY DEF Resume, ExecInv
  <1>2. ctx.cancelled = FALSE
    BY <1>1 DEF CtxType
  <1>3. exec \in [Exec -> ExecType] /\ exec[e] \in ExecType
        /\ Sound(e, exec[e], running, budget)
    BY EachSound DEF ExecInv
  <1>4. CASE /\ exec[e].status = "suspended"
             /\ exec' = [exec EXCEPT ![e].status = "running"]
             /\ ctx' = IF exec[e].counted THEN [ctx EXCEPT !.steps = 1] ELSE ctx
             /\ running' = e /\ slice' = 0 /\ UNCHANGED doomed
    <2>1. PICK x : x = [exec[e] EXCEPT !.status = "running"]
      OBVIOUS
    <2>2. exec' = [exec EXCEPT ![e] = x]
      BY <1>3, <1>4, <2>1
    <2>3. PICK a, b, i, fs, f, g, h :
              /\ a = exec[e].status /\ b = exec[e].script /\ i = exec[e].pc
              /\ fs = exec[e].frames /\ f = exec[e].pending /\ g = exec[e].counted
              /\ h = exec[e].base
      OBVIOUS
    <2>4. exec[e] = Execution(a, b, i, fs, f, g, h)
      BY <1>3, <2>3, ExecutionIs
    <2>5. x = Execution("running", b, i, fs, f, g, h)
      BY <2>1, <2>4, SetStatus
    <2>6. /\ b \in Script \cup {None} /\ i \in Nat \ {0} /\ fs \in Seq(FrameType)
          /\ f \in {None, "sleep", "preempted"} /\ g \in BOOLEAN /\ h \in Value
      BY <1>3, <2>3, FieldTypes
    <2>7. x \in ExecType
      BY <2>5, <2>6, ExecutionType
    <2>8. /\ x.status = "running" /\ x.script = b /\ x.pc = i /\ x.frames = fs
          /\ x.pending = f /\ x.counted = g /\ x.base = h
      BY <2>5, ExecutionFields
    <2>9. Sound(e, x, e, budget)
      BY <1>3, <1>4, <2>3, <2>8 DEF Sound
    <2>10. /\ ctx' \in CtxType /\ ctx'.cancelled = FALSE /\ ctx'.this = ctx.this
           /\ ctx'.param = ctx.param /\ (exec[e].counted => ctx'.steps = 1)
      <3>1. CASE exec[e].counted
        <4>1. ctx' = [ctx EXCEPT !.steps = 1]
          BY <1>4, <3>1
        <4>2. ctx = [this |-> ctx.this, param |-> ctx.param,
                     cancelled |-> ctx.cancelled, steps |-> ctx.steps,
                     event |-> ctx.event]
          BY <1>1 DEF CtxType
        <4>3. ctx' = [this |-> ctx.this, param |-> ctx.param,
                      cancelled |-> ctx.cancelled, steps |-> 1, event |-> ctx.event]
          BY <4>1, <4>2
        <4>4. 1 \in 0 .. MaxSteps + 1
          BY SleepAssumption
        <4> QED
          BY <1>1, <1>2, <4>3, <4>4 DEF CtxType
      <3>2. CASE ~ exec[e].counted
        BY <1>1, <1>2, <1>4, <3>2
      <3> QED
        BY <3>1, <3>2
    <2>11. Wakes(e)
      BY <1>1, <1>2, <1>4, <2>2, <2>3, <2>7, <2>8, <2>9, <2>10 DEF Wakes
    <2> QED
      BY <2>11
  <1>5. CASE /\ exec[e].status = "raised" /\ Discarded(e)
             /\ UNCHANGED <<ctx, running, slice>>
    <2>1. exec[e].frames = <<>>
      BY <1>3, <1>5 DEF Sound
    <2>2. \A this, param : Scoped(exec[e].frames, ctx, this, param) =>
              ctx'.this = this /\ ctx'.param = param
      BY <1>5, <2>1, NoneBound DEF Scoped
    <2>3. Closes(e)
      BY <1>1, <1>5, <2>2, IdleIs, IdleSound DEF Closes, Discarded
    <2> QED
      BY <2>3
  <1> QED
    BY <1>4, <1>5 DEF Resume

\* Every step is of one of the six kinds.
LEMMA StepIs ==
    ASSUME ExecInv, Next
    PROVE  /\ budget' = budget
           /\ \E e \in Exec : \/ Goes(e) \/ Suspends(e) \/ Ends(e)
                              \/ Starts(e) \/ Wakes(e) \/ Closes(e)
  <1>1. budget' = budget
    BY DEF Next
  <1>2. PICK e \in Exec : \/ \E s \in ScriptsFor[budget] : Fire(e, s)
                          \/ Run(e) \/ ResumeCancelled(e) \/ Resume(e) \/ Drop(e)
    BY DEF Next
  <1>3. CASE \E s \in ScriptsFor[budget] : Fire(e, s)
    BY <1>1, <1>3, FireStarts
  <1>4. CASE Act(e)
    BY <1>1, <1>4, ActGoes
  <1>5. CASE Timeout(e)
    BY <1>1, <1>5, TimeoutGoes
  <1>6. CASE With(e)
    BY <1>1, <1>6, WithGoes
  <1>7. CASE Call(e)
    BY <1>1, <1>7, CallGoes
  <1>8. CASE While(e)
    BY <1>1, <1>8, WhileGoes
  <1>9. CASE EndBlock(e)
    BY <1>1, <1>9, EndBlockGoes
  <1>10. CASE LoopHead(e)
    BY <1>1, <1>10, LoopHeadGoes
  <1>11. CASE Break(e)
    BY <1>1, <1>11, SignalGoes DEF Break
  <1>12. CASE Return(e)
    BY <1>1, <1>12, SignalGoes DEF Return
  <1>13. CASE SyncSleep(e)
    BY <1>1, <1>13, SyncSleepGoes
  <1>14. CASE Sleep(e)
    BY <1>1, <1>14, SleepSuspends
  <1>15. CASE Preempt(e)
    BY <1>1, <1>15, PreemptSuspends
  <1>16. CASE StepLimit(e)
    BY <1>1, <1>16, StepLimitEnds
  <1>17. CASE Finish(e)
    BY <1>1, <1>17, FinishEnds
  <1>18. CASE ResumeCancelled(e)
    BY <1>1, <1>18, ResumeCancelledCloses
  <1>19. CASE Resume(e)
    BY <1>1, <1>19, ResumeGoes
  <1>20. CASE Drop(e)
    BY <1>1, <1>20, DropCloses
  <1> QED
    BY <1>2, <1>3, <1>4, <1>5, <1>6, <1>7, <1>8, <1>9, <1>10, <1>11, <1>12, <1>13,
       <1>14, <1>15, <1>16, <1>17, <1>18, <1>19, <1>20 DEF Run

-----------------------------------------------------------------------------
(* The first invariant: what every execution is, in every state.           *)

\* Nothing is suspended or doomed at the start.
LEMMA InitExec == Init => ExecInv
  <1> SUFFICES ASSUME Init
               PROVE  ExecInv
    OBVIOUS
  <1>1. /\ budget \in DOMAIN ScriptsFor /\ slice = 0 /\ running = None
        /\ exec = [e \in Exec |-> Idle] /\ doomed = {}
    BY DEF Init
  <1>2. PICK k \in BOOLEAN : k = FALSE
    OBVIOUS
  <1>3. ctx = [this |-> Npc, param |-> None, cancelled |-> k, steps |-> 0,
               event |-> None]
    BY <1>2 DEF Init
  <1>4. Npc \in Value /\ None \in Value /\ 0 \in 0 .. MaxSteps + 1
    BY SleepAssumption DEF Value
  <1>5. ctx \in CtxType
    BY <1>3, <1>4 DEF CtxType
  <1>6. exec \in [Exec -> ExecType] /\ \A e \in Exec : exec[e] = Idle
    BY <1>1, IdleIs
  <1>7. \A e \in Exec : Sound(e, exec[e], running, budget)
    BY <1>1, <1>6, IdleSound
  <1> QED
    BY <1>1, <1>5, <1>6, <1>7 DEF ExecInv, Sound, Started, Code, Stmt, AtEnd

\* An execution that has yielded is resumable.
LEMMA AsleepResumable ==
    ASSUME ExecInv
    PROVE  /\ Asleep \subseteq Resumable
           /\ \A e \in Exec : exec[e].status = "suspended" => e \in Resumable
  <1>1. \A e \in Exec : exec[e].status = "suspended" => e \in Resumable
    BY EachSound DEF Sound
  <1> QED
    BY <1>1 DEF Asleep

\* What a step that goes on makes of its execution.
LEMMA GoesIs ==
    ASSUME ExecInv, budget' = budget, NEW e \in Exec, Goes(e)
    PROVE  \E x \in ExecType :
              /\ exec' = [exec EXCEPT ![e] = x] /\ Sound(e, x, e, budget)
              /\ x.status = "running" /\ x.base = exec[e].base /\ x.counted = FALSE
              /\ ctx' \in CtxType
              /\ \A this, param : Scoped(exec[e].frames, ctx, this, param) =>
                                      Scoped(x.frames, ctx', this, param)
  <1>1. PICK pc, fs : Moved(e, pc, fs)
    BY DEF Goes
  <1>2. /\ running = e /\ running' = e /\ pc \in Nat \ {0} /\ fs \in Seq(FrameType)
        /\ Fits(Code(e), pc, fs) /\ ctx' \in CtxType
        /\ exec' = [exec EXCEPT ![e] = At(exec[e], pc, fs)]
        /\ \A this, param : Scoped(exec[e].frames, ctx, this, param) =>
                                Scoped(fs, ctx', this, param)
    BY <1>1 DEF Moved
  <1>3. /\ exec[e] \in ExecType /\ exec[e].status = "running"
        /\ exec[e].script \in ScriptsFor[budget]
    BY <1>2, RunningIs
  <1>4. PICK x : x = At(exec[e], pc, fs)
    OBVIOUS
  <1>5. /\ x \in ExecType /\ x.pc = pc /\ x.frames = fs /\ x.counted = FALSE
        /\ x.status = "running" /\ x.script = exec[e].script
        /\ x.pending = exec[e].pending /\ x.base = exec[e].base
    <2>1. PICK z : z = exec[e]
      OBVIOUS
    <2>2. z \in ExecType /\ z.status = "running" /\ x = At(z, pc, fs)
      BY <1>3, <1>4, <2>1
    <2>3. PICK y : y = At(z, pc, fs)
      OBVIOUS
    <2>4. /\ y \in ExecType /\ y.pc = pc /\ y.frames = fs /\ y.counted = FALSE
          /\ y.status = z.status /\ y.script = z.script
          /\ y.pending = z.pending /\ y.base = z.base
      <3>1. pc \in Nat \ {0} /\ fs \in Seq(FrameType) /\ z \in ExecType
        BY <1>2, <2>2
      <3>2. At(z, pc, fs) \in ExecType
        BY <3>1, AtIs
      <3>3. At(z, pc, fs).pc = pc /\ At(z, pc, fs).frames = fs
        BY <3>1, AtIs
      <3>4. At(z, pc, fs).counted = FALSE
        BY <3>1, AtIs
      <3>5. At(z, pc, fs).status = z.status
        BY <3>1, AtIs
      <3>6. At(z, pc, fs).script = z.script
        BY <3>1, AtIs
      <3>7. At(z, pc, fs).pending = z.pending
        BY <3>1, AtIs
      <3>8. At(z, pc, fs).base = z.base
        BY <3>1, AtIs
      <3> QED
        BY <2>3, <3>2, <3>3, <3>4, <3>5, <3>6, <3>7, <3>8
    <2>5. x = y
      BY <2>2, <2>3
    <2> QED
      BY <2>1, <2>2, <2>4, <2>5
  <1>6. Sound(e, x, e, budget)
    <2>1. Sound(e, exec[e], e, budget)
      BY <1>2, EachSound
    <2> QED
      BY <1>2, <1>3, <1>5, <2>1 DEF Sound, Code
  <1> QED
    BY <1>2, <1>4, <1>5, <1>6

\* Every step leaves each execution sound.
LEMMA StepExec == ExecInv /\ [Next]_vars => ExecInv'
  <1> SUFFICES ASSUME ExecInv, [Next]_vars
               PROVE  ExecInv'
    OBVIOUS
  <1>1. CASE UNCHANGED vars
    BY <1>1 DEF ExecInv, vars, Started, Code, Stmt, AtEnd
  <1>2. CASE Next
    <2>1. budget' = budget
      BY <1>2, StepIs
    <2>2. PICK e \in Exec : \/ Goes(e) \/ Suspends(e) \/ Ends(e)
                            \/ Starts(e) \/ Wakes(e) \/ Closes(e)
      BY <1>2, StepIs
    <2>3. None \notin Exec /\ slice \in Nat /\ doomed \subseteq Resumable
      BY SleepAssumption DEF ExecInv
    <2>4. CASE Goes(e)
      <3>1. running = e /\ running' = e
        BY <2>4 DEF Goes, Moved
      <3>2. doomed' \subseteq Resumable
        BY <2>3, <2>4, AsleepResumable DEF Goes, Timed
      <3>3. slice' \in Nat
        BY <2>3, <2>4 DEF Goes, Tallied
      <3>4. PICK x \in ExecType :
                exec' = [exec EXCEPT ![e] = x] /\ Sound(e, x, e, budget)
                /\ ctx' \in CtxType
        BY <2>1, <2>4, GoesIs
      <3> QED
        BY <2>1, <3>1, <3>2, <3>3, <3>4, PutSound
    <2>5. CASE Suspends(e)
      <3>1. /\ running = e /\ running' = None /\ slice' \in Nat /\ ctx' \in CtxType
            /\ doomed' \subseteq Resumable
        BY <2>3, <2>5 DEF Suspends
      <3>2. PICK x \in ExecType :
                exec' = [exec EXCEPT ![e] = x] /\ Sound(e, x, None, budget)
        BY <2>5 DEF Suspends
      <3> QED
        BY <2>1, <2>3, <3>1, <3>2, PutSound
    <2>6. CASE Ends(e)
      <3>1. /\ running = e /\ running' = None /\ slice' \in Nat /\ ctx' \in CtxType
            /\ doomed' \subseteq Resumable
        BY <2>3, <2>6 DEF Ends
      <3>2. PICK x \in ExecType :
                exec' = [exec EXCEPT ![e] = x] /\ Sound(e, x, None, budget)
        BY <2>6 DEF Ends
      <3> QED
        BY <2>1, <2>3, <3>1, <3>2, PutSound
    <2>7. CASE Starts(e)
      <3>1. /\ running = None /\ running' = e /\ slice' \in Nat /\ ctx' \in CtxType
            /\ doomed' \subseteq Resumable
        BY <2>3, <2>7 DEF Starts
      <3>2. PICK x \in ExecType :
                exec' = [exec EXCEPT ![e] = x] /\ Sound(e, x, e, budget)
        BY <2>7 DEF Starts
      <3> QED
        BY <2>1, <2>3, <3>1, <3>2, PutSound
    <2>8. CASE Wakes(e)
      <3>1. /\ running = None /\ running' = e /\ slice' \in Nat /\ ctx' \in CtxType
            /\ doomed' \subseteq Resumable
        BY <2>3, <2>8 DEF Wakes
      <3>2. PICK x \in ExecType :
                exec' = [exec EXCEPT ![e] = x] /\ Sound(e, x, e, budget)
        BY <2>8 DEF Wakes
      <3> QED
        BY <2>1, <2>3, <3>1, <3>2, PutSound
    <2>9. CASE Closes(e)
      <3>1. /\ running = None /\ running' = None /\ slice' \in Nat /\ ctx' \in CtxType
            /\ doomed' \subseteq Resumable
        BY <2>3, <2>9 DEF Closes
      <3>2. PICK x \in ExecType :
                exec' = [exec EXCEPT ![e] = x] /\ Sound(e, x, None, budget)
        BY <2>9 DEF Closes
      <3> QED
        BY <2>1, <2>3, <3>1, <3>2, PutSound
    <2> QED
      BY <2>2, <2>4, <2>5, <2>6, <2>7, <2>8, <2>9
  <1> QED
    BY <1>1, <1>2

\* Whatever the host fires, resumes and drops: an execution runs if and only if
\* it is on the stack, the frames of one that runs or waits are those of the
\* blocks its script has open where it stands, and one that waits for its slice
\* stands before a statement (Interpreter._gx, ResumableExecution).
THEOREM ExecutionsFit == Spec => []ExecInv
  <1>1. Init => ExecInv
    BY InitExec
  <1>2. ExecInv /\ [Next]_vars => ExecInv'
    BY StepExec
  <1> QED
    BY <1>1, <1>2, PTL DEF Spec

\* The type invariant: one execution at a time is on the stack, only a
\* resumable one is ever suspended, and the step counter stays within one of
\* its limit.
THEOREM SleepTypeCorrect == Spec => []TypeOK
  <1>1. ExecInv => TypeOK
    <2> SUFFICES ASSUME ExecInv
                 PROVE  TypeOK
      OBVIOUS
    <2>1. ctx.steps \in 0 .. MaxSteps + 1 /\ ctx.cancelled \in BOOLEAN
      BY DEF ExecInv, CtxType
    <2>2. running \in Exec \cup {None} /\ doomed \subseteq Resumable
      BY DEF ExecInv
    <2>3. ASSUME NEW e \in Exec
          PROVE  /\ exec[e].status = "running" <=> running = e
                 /\ exec[e].status = "suspended" => e \in Resumable
                 /\ exec[e].frames # <<>> => exec[e].status
                                               \in {"running", "suspended"}
      BY EachSound DEF Sound
    <2> QED
      BY <2>1, <2>2, <2>3 DEF TypeOK
  <1> QED
    BY <1>1, ExecutionsFit, PTL

-----------------------------------------------------------------------------
(* The flag that cancels a sleep.                                          *)

\* The host keeps at most one resumable execution per Context.
OneResumable == \A d, e \in Resumable : d = e

\* No script that the host fires under a statement budget has a statement op.
Without(op) ==
    \A b \in DOMAIN ScriptsFor : b > 0 =>
        \A s \in ScriptsFor[b] : \A i \in 1 .. Len(Program[s]) : Program[s][i].op # op

\* A step changes the execution it is of and no other.
LEMMA OthersStay ==
    ASSUME ExecInv, NEW e \in Exec, NEW x \in ExecType,
           exec' = [exec EXCEPT ![e] = x]
    PROVE  exec'[e] = x /\ \A d \in Exec : d # e => exec'[d] = exec[d]
  BY DEF ExecInv

\* Only a step that sets the timer dooms anything, and only what is asleep.
LEMMA StepDoom ==
    ASSUME OneResumable, ExecInv, DoomInv, Next
    PROVE  DoomInv'
  <1>1. PICK e \in Exec : \/ Goes(e) \/ Suspends(e) \/ Ends(e)
                          \/ Starts(e) \/ Wakes(e) \/ Closes(e)
    BY StepIs
  <1>2. budget' = budget /\ doomed \subseteq Resumable /\ Resumable \subseteq Exec
        /\ ctx.cancelled \in BOOLEAN
    BY StepIs DEF ExecInv, Exec, CtxType
  <1>3. running = e => exec[e].status = "running"
    BY EachSound DEF Sound
  <1>4. CASE Goes(e)
    <2>1. PICK x \in ExecType : exec' = [exec EXCEPT ![e] = x] /\ x.status = "running"
      BY <1>2, <1>4, GoesIs
    <2>2. exec[e].status = "running"
      BY <1>3, <1>4 DEF Goes, Moved
    <2>3. \A d \in Exec : exec[d].status = "suspended" => exec'[d] = exec[d]
      BY <2>1, <2>2, OthersStay
    <2>4. CASE ctx'.cancelled = ctx.cancelled /\ doomed' = doomed
      BY <1>2, <2>3, <2>4 DEF DoomInv
    <2>5. CASE ctx'.cancelled = TRUE /\ doomed' = doomed \cup Asleep
      BY <1>2, <2>3, <2>5 DEF DoomInv, Asleep
    <2> QED
      BY <1>4, <2>4, <2>5 DEF Goes, Timed
  <1>5. CASE Suspends(e)
    <2>1. e \in Resumable /\ exec[e].status = "running" /\ doomed' = doomed
      BY <1>3, <1>5 DEF Suspends
    <2>2. doomed = {}
      <3> SUFFICES ASSUME NEW d \in doomed
                   PROVE  FALSE
        OBVIOUS
      <3>1. d = e /\ exec[d].status = "suspended"
        BY <1>2, <2>1 DEF DoomInv, OneResumable
      <3> QED
        BY <2>1, <3>1
    <2> QED
      BY <2>1, <2>2 DEF DoomInv
  <1>6. CASE Ends(e)
    <2>1. PICK x \in ExecType : exec' = [exec EXCEPT ![e] = x]
      BY <1>6 DEF Ends
    <2>2. /\ exec[e].status = "running" /\ doomed' = doomed
          /\ ctx'.cancelled = ctx.cancelled
      BY <1>3, <1>6 DEF Ends
    <2> QED
      BY <1>2, <2>1, <2>2, OthersStay DEF DoomInv
  <1>7. CASE Starts(e)
    <2>1. PICK x \in ExecType : exec' = [exec EXCEPT ![e] = x]
      BY <1>7 DEF Starts
    <2>2. /\ exec[e].status = "idle" /\ doomed' = doomed
          /\ ctx'.cancelled = ctx.cancelled
      BY <1>7 DEF Starts
    <2> QED
      BY <1>2, <2>1, <2>2, OthersStay DEF DoomInv
  <1>8. CASE Wakes(e)
    <2>1. ctx.cancelled = FALSE /\ doomed' = doomed
      BY <1>8 DEF Wakes
    <2>2. doomed = {}
      BY <2>1 DEF DoomInv
    <2> QED
      BY <2>1, <2>2 DEF DoomInv
  <1>9. CASE Closes(e)
    <2>1. exec[e].status \in {"suspended", "raised"} /\ doomed' = doomed \ {e}
      BY <1>9 DEF Closes
    <2>2. e \in Resumable
      BY <2>1, EachSound DEF Sound
    <2>3. doomed' = {}
      BY <1>2, <2>1, <2>2 DEF OneResumable
    <2> QED
      BY <2>3 DEF DoomInv
  <1> QED
    BY <1>1, <1>4, <1>5, <1>6, <1>7, <1>8, <1>9

\* "reassigning the NPC's timer erases any resumable sleep left pending by a
\* DIFFERENT, already-suspended execution": with one resumable execution, one
\* that was asleep when another set the timer never runs again (_st_Assign,
\* ResumableExecution.resume).  It is doomed only as long as it is suspended
\* and the flag still stands; a second resumable execution's yield clears it.
THEOREM CancelErasesSleep ==
    ASSUME OneResumable
    PROVE  Spec => []CancelErases
  <1>1. Init => ExecInv /\ DoomInv
    BY InitExec DEF Init, DoomInv
  <1>2. ExecInv /\ DoomInv /\ [Next]_vars => (ExecInv /\ DoomInv)'
    <2> SUFFICES ASSUME ExecInv, DoomInv, [Next]_vars
                 PROVE  ExecInv' /\ DoomInv'
      OBVIOUS
    <2>1. ExecInv'
      BY StepExec
    <2>2. CASE Next
      BY <2>1, <2>2, StepDoom
    <2>3. CASE UNCHANGED vars
      BY <2>1, <2>3 DEF DoomInv, vars
    <2> QED
      BY <2>2, <2>3
  <1>3. ExecInv /\ DoomInv => CancelErases
    <2> SUFFICES ASSUME ExecInv, DoomInv, running \in doomed
                 PROVE  FALSE
      BY DEF CancelErases
    <2>1. running \in Exec
      BY DEF ExecInv, Exec
    <2>2. exec[running].status = "running"
      BY <2>1, EachSound DEF Sound
    <2> QED
      BY <2>2 DEF DoomInv
  <1> QED
    BY <1>1, <1>2, <1>3, PTL DEF Spec

\* Under a budget no statement that runs is an op, if no script has one.
LEMMA WithoutOp ==
    ASSUME ExecInv, NEW e \in Exec, running = e, budget > 0, NEW op, Without(op)
    PROVE  \A i \in 1 .. Len(Code(e)) : Code(e)[i].op # op
  <1>1. exec[e].script \in ScriptsFor[budget] /\ budget \in DOMAIN ScriptsFor
    BY RunningIs DEF ExecInv
  <1> QED
    BY <1>1 DEF Without, Code

\* A step that sets the flag dooms all that is suspended.
LEMMA StepFlag ==
    ASSUME Without("timeout"), ExecInv, FlagInv, Next
    PROVE  FlagInv'
  <1>1. PICK e \in Exec : \/ Goes(e) \/ Suspends(e) \/ Ends(e)
                          \/ Starts(e) \/ Wakes(e) \/ Closes(e)
    BY StepIs
  <1>2. ctx.cancelled \in BOOLEAN
    BY DEF ExecInv, CtxType
  <1>3. CASE Goes(e)
    <2>1. PICK x \in ExecType : exec' = [exec EXCEPT ![e] = x] /\ x.status = "running"
      BY <1>3, StepIs, GoesIs
    <2>2. \A d \in Exec : exec'[d].status = "suspended" => exec'[d] = exec[d]
      BY <2>1, OthersStay
    <2>3. CASE ctx'.cancelled = ctx.cancelled /\ doomed' = doomed
      BY <2>2, <2>3 DEF FlagInv
    <2>4. CASE /\ ~ AtEnd(e) /\ Stmt(e).op = "timeout"
               /\ ctx'.cancelled = TRUE /\ doomed' = doomed \cup Asleep
      <3>1. running = e
        BY <1>3 DEF Goes, Moved
      <3>2. ~ (budget > 0)
        <4>1. exec[e].pc \in 1 .. Len(Code(e)) /\ Code(e)[exec[e].pc].op = "timeout"
          BY <2>4, <3>1, RunningIs
        <4> QED
          BY <3>1, <4>1, WithoutOp
      <3>3. ASSUME NEW d \in Exec, exec'[d].status = "suspended"
            PROVE  d \in doomed'
        <4>1. exec[d].status = "suspended"
          BY <2>2, <3>3
        <4>2. exec[d].pending # None /\ exec[d].pending # "preempted"
          BY <3>2, <4>1, EachSound DEF Sound
        <4>3. exec[d].pending = "sleep"
          BY <4>2, EachSound, FieldTypes
        <4> QED
          BY <2>4, <4>1, <4>3 DEF Asleep
      <3> QED
        BY <3>3 DEF FlagInv
    <2> QED
      BY <1>3, <2>3, <2>4 DEF Goes, Timed
  <1>4. CASE Suspends(e)
    BY <1>4 DEF Suspends, FlagInv
  <1>5. CASE Ends(e)
    <2>1. PICK x \in ExecType :
              exec' = [exec EXCEPT ![e] = x] /\ x.status \in {"idle", "raised"}
      BY <1>5 DEF Ends
    <2>2. doomed' = doomed /\ ctx'.cancelled = ctx.cancelled
      BY <1>5 DEF Ends
    <2> QED
      BY <2>1, <2>2, OthersStay DEF FlagInv
  <1>6. CASE Starts(e)
    <2>1. PICK x \in ExecType : exec' = [exec EXCEPT ![e] = x] /\ x.status = "running"
      BY <1>6 DEF Starts
    <2>2. doomed' = doomed /\ ctx'.cancelled = ctx.cancelled
      BY <1>6 DEF Starts
    <2> QED
      BY <2>1, <2>2, OthersStay DEF FlagInv
  <1>7. CASE Wakes(e)
    BY <1>7 DEF Wakes, FlagInv
  <1>8. CASE Closes(e)
    <2>1. PICK x \in ExecType : exec' = [exec EXCEPT ![e] = x] /\ x.status = "idle"
      BY <1>8 DEF Closes
    <2>2. /\ doomed' = doomed \ {e}
          /\ ctx'.cancelled = FALSE \/ ctx'.cancelled = ctx.cancelled
      BY <1>8 DEF Closes
    <2> QED
      BY <2>1, <2>2, OthersStay DEF FlagInv
  <1> QED
    BY <1>1, <1>3, <1>4, <1>5, <1>6, <1>7, <1>8

\* Only a sleep that another execution's timer assignment erased is cancelled:
\* not one whose own script set the timer before it, nor one that fell asleep
\* after the assignment (_advance clears the flag, resume consumes it).  A
\* script that sets the timer under a statement budget would also cancel what
\* the budget had suspended.
THEOREM CancelsOnlyErased ==
    ASSUME Without("timeout")
    PROVE  Spec => CancelOnlyDoomed
  <1>1. Init => ExecInv /\ FlagInv
    <2> SUFFICES ASSUME Init
                 PROVE  ExecInv /\ FlagInv
      OBVIOUS
    <2>1. PICK k : k = FALSE
      OBVIOUS
    <2>2. ctx = [this |-> Npc, param |-> None, cancelled |-> k, steps |-> 0,
                 event |-> None]
      BY <2>1 DEF Init
    <2>3. ctx.cancelled = k
      BY <2>2
    <2> QED
      BY <2>1, <2>3, InitExec DEF FlagInv
  <1>2. ExecInv /\ FlagInv /\ [Next]_vars => (ExecInv /\ FlagInv)'
    <2> SUFFICES ASSUME ExecInv, FlagInv, [Next]_vars
                 PROVE  ExecInv' /\ FlagInv'
      OBVIOUS
    <2>1. ExecInv'
      BY StepExec
    <2>2. CASE Next
      BY <2>1, <2>2, StepFlag
    <2>3. CASE UNCHANGED vars
      BY <2>1, <2>3 DEF FlagInv, vars
    <2> QED
      BY <2>2, <2>3
  <1>3. ExecInv /\ FlagInv /\ [Next]_vars =>
            [\A e \in Exec : exec[e].status = "suspended" /\ ResumeCancelled(e)
                                => e \in doomed]_vars
    BY DEF FlagInv, ResumeCancelled
  <1> QED
    BY <1>1, <1>2, <1>3, PTL DEF Spec, CancelOnlyDoomed

-----------------------------------------------------------------------------
(* The statement budget.                                                   *)

\* Without a loop nothing a slice runs escapes the counter.
LEMMA StepSlice ==
    ASSUME Without("while"), ExecInv, SliceInv, Next
    PROVE  SliceInv'
  <1> SUFFICES ASSUME running' \in Resumable, budget' > 0
               PROVE  /\ IF exec'[running'].counted
                         THEN slice' = 0 /\ ctx'.steps = 1
                         ELSE slice' <= ctx'.steps
                      /\ slice' <= budget'
    BY DEF SliceInv
  <1>1. PICK e \in Exec : \/ Goes(e) \/ Suspends(e) \/ Ends(e)
                          \/ Starts(e) \/ Wakes(e) \/ Closes(e)
    BY StepIs
  <1>2. /\ budget' = budget /\ budget \in Nat /\ slice \in Nat
        /\ ctx.steps \in Nat /\ None \notin Resumable
    BY StepIs, SleepAssumption DEF ExecInv, CtxType, Exec
  <1>3. CASE Goes(e)
    <2>1. PICK x \in ExecType : exec' = [exec EXCEPT ![e] = x] /\ x.counted = FALSE
      BY <1>2, <1>3, GoesIs
    <2>2. running = e /\ running' = e /\ e \in Resumable
      BY <1>3 DEF Goes, Moved
    <2>3. exec'[e].counted = FALSE
      BY <2>1, OthersStay
    <2>4. IF exec[e].counted THEN slice = 0 /\ ctx.steps = 1 ELSE slice <= ctx.steps
      BY <1>2, <2>2 DEF SliceInv
    <2>5. slice <= budget
      BY <1>2, <2>2 DEF SliceInv
    <2>6. CASE /\ slice' = slice + 1 /\ ctx'.steps = Steps(e)
               /\ exec[e].counted \/ ~ Preempted(e)
      <3>1. CASE exec[e].counted
        <4>1. slice' = 1 /\ ctx'.steps = 1
          BY <2>4, <2>6, <3>1 DEF Steps
        <4> QED
          BY <1>2, <2>2, <2>3, <4>1
      <3>2. CASE ~ exec[e].counted
        <4>1. /\ slice' = slice + 1 /\ ctx'.steps = ctx.steps + 1
              /\ slice <= ctx.steps /\ ctx.steps + 1 <= budget
          BY <1>2, <2>2, <2>4, <2>6, <3>2 DEF Steps, Preempted
        <4> QED
          BY <1>2, <2>2, <2>3, <4>1
      <3> QED
        BY <3>1, <3>2
    <2>7. CASE slice' = slice /\ ctx'.steps = ctx.steps /\ exec[e].counted = FALSE
      BY <1>2, <2>2, <2>3, <2>4, <2>5, <2>7
    <2>8. CASE \E i \in 1 .. Len(exec[e].frames) : exec[e].frames[i].kind = "while"
      <3>1. PICK i \in 1 .. Len(exec[e].frames) : exec[e].frames[i].kind = "while"
        BY <2>8
      <3>2. /\ IsScript(Code(e)) /\ exec[e].pc \in Int
            /\ exec[e].frames \in Seq(FrameType)
            /\ Fits(Code(e), exec[e].pc, exec[e].frames)
        BY <2>2, RunningIs
      <3>3. PICK j \in Open(Code(e), exec[e].pc) : Code(e)[j].op = "while"
        BY <3>1, <3>2, FrameOpen
      <3>4. j \in 1 .. Len(Code(e))
        BY <3>3 DEF Open
      <3> QED
        BY <1>2, <2>2, <3>3, <3>4, WithoutOp
    <2> QED
      BY <1>3, <2>6, <2>7, <2>8 DEF Goes, Tallied
  <1>4. CASE Suspends(e) \/ Ends(e) \/ Closes(e)
    BY <1>2, <1>4 DEF Suspends, Ends, Closes
  <1>5. CASE Starts(e)
    <2>1. PICK x \in ExecType : exec' = [exec EXCEPT ![e] = x] /\ x.counted = FALSE
      BY <1>5 DEF Starts
    <2>2. running' = e /\ slice' = 0 /\ ctx' \in CtxType
      BY <1>5 DEF Starts
    <2>3. ctx'.steps \in Nat
      BY <2>2, SleepAssumption DEF CtxType
    <2>4. exec'[e].counted = FALSE
      BY <2>1, OthersStay
    <2> QED
      BY <1>2, <2>2, <2>3, <2>4
  <1>6. CASE Wakes(e)
    <2>1. PICK x \in ExecType :
              exec' = [exec EXCEPT ![e] = x] /\ x.counted = exec[e].counted
      BY <1>6 DEF Wakes
    <2>2. running' = e /\ slice' = 0 /\ ctx' \in CtxType
          /\ (exec[e].counted => ctx'.steps = 1)
      BY <1>6 DEF Wakes
    <2>3. ctx'.steps \in Nat
      BY <2>2, SleepAssumption DEF CtxType
    <2>4. exec'[e].counted = exec[e].counted
      BY <2>1, OthersStay
    <2> QED
      BY <1>2, <2>2, <2>3, <2>4
  <1> QED
    BY <1>1, <1>3, <1>4, <1>5, <1>6

\* The statement budget bounds what a resumable execution runs between two
\* points where the host has control, for scripts without a while loop: the
\* head of one calls _step and ignores what it answers (_gx of While).
THEOREM BudgetHolds ==
    ASSUME Without("while")
    PROVE  Spec => []SliceBounded
  <1>1. Init => ExecInv /\ SliceInv
    BY InitExec, SleepAssumption DEF Init, SliceInv, Exec
  <1>2. ExecInv /\ SliceInv /\ [Next]_vars => (ExecInv /\ SliceInv)'
    <2> SUFFICES ASSUME ExecInv, SliceInv, [Next]_vars
                 PROVE  ExecInv' /\ SliceInv'
      OBVIOUS
    <2>1. ExecInv'
      BY StepExec
    <2>2. CASE Next
      BY <2>1, <2>2, StepSlice
    <2>3. CASE UNCHANGED vars
      BY <2>1, <2>3 DEF SliceInv, vars
    <2> QED
      BY <2>2, <2>3
  <1>3. SliceInv => SliceBounded
    BY DEF SliceInv, SliceBounded
  <1> QED
    BY <1>1, <1>2, <1>3, PTL DEF Spec

-----------------------------------------------------------------------------
(* What the scripts see of the shared Context.                             *)

\* What the one suspended execution left, if there is one.
LEMMA LeftIs ==
    ASSUME OneResumable, NEW kind, NEW d
    PROVE  /\ \A r \in Resumable : exec[r].status = "suspended" =>
                  Left(kind, d) = Bound(exec[r].frames, kind, d)
           /\ ~ (\E r \in Resumable : exec[r].status = "suspended") => Left(kind, d) = d
  <1>1. ASSUME NEW r \in Resumable, exec[r].status = "suspended"
        PROVE  Left(kind, d) = Bound(exec[r].frames, kind, d)
    <2>1. PICK q : q = CHOOSE p \in Resumable : exec[p].status = "suspended"
      OBVIOUS
    <2>2. q \in Resumable
      BY <1>1, <2>1
    <2>3. q = r
      BY <2>2 DEF OneResumable
    <2> QED
      BY <1>1, <2>1, <2>3 DEF Left
  <1> QED
    BY <1>1 DEF Left

\* What a binding will be once what is suspended is closed, in the next state.
LEMMA LeftIsNext ==
    ASSUME OneResumable, NEW kind, NEW d
    PROVE  /\ \A r \in Resumable : exec'[r].status = "suspended" =>
                  Left(kind, d)' = Bound(exec'[r].frames, kind, d)
           /\ ~ (\E r \in Resumable : exec'[r].status = "suspended") => Left(kind, d)' = d
  <1>1. ASSUME NEW r \in Resumable, exec'[r].status = "suspended"
        PROVE  Left(kind, d)' = Bound(exec'[r].frames, kind, d)
    <2>1. PICK q : q = CHOOSE p \in Resumable : exec'[p].status = "suspended"
      OBVIOUS
    <2>2. q \in Resumable
      BY <1>1, <2>1
    <2>3. q = r
      BY <2>2 DEF OneResumable
    <2> QED
      BY <1>1, <2>1, <2>3 DEF Left
  <1> QED
    BY <1>1 DEF Left

\* It stays so while what is suspended does.
LEMMA LeftKept ==
    ASSUME OneResumable, ExecInv, NEW e \in Exec, NEW x \in ExecType,
           exec' = [exec EXCEPT ![e] = x],
           x.status # "suspended", exec[e].status # "suspended", NEW kind, NEW d
    PROVE  Left(kind, d)' = Left(kind, d)
  <1>1. Resumable \subseteq Exec
    BY DEF Exec
  <1>2. /\ \A r \in Resumable : exec'[r].status = "suspended" => exec'[r] = exec[r]
        /\ \A r \in Resumable : exec[r].status = "suspended" => exec'[r] = exec[r]
    BY <1>1, OthersStay
  <1>3. CASE \E r \in Resumable : exec[r].status = "suspended"
    <2>1. PICK r \in Resumable : exec[r].status = "suspended"
      BY <1>3
    <2>2. exec'[r] = exec[r]
      BY <1>2, <2>1
    <2>3. Left(kind, d) = Bound(exec[r].frames, kind, d)
      BY <2>1, LeftIs
    <2>4. Left(kind, d)' = Bound(exec'[r].frames, kind, d)
      BY <2>1, <2>2, LeftIsNext
    <2> QED
      BY <2>2, <2>3, <2>4
  <1>4. CASE ~ \E r \in Resumable : exec[r].status = "suspended"
    <2>1. ~ \E r \in Resumable : exec'[r].status = "suspended"
      BY <1>2, <1>4
    <2> QED
      BY <1>4, <2>1, LeftIs, LeftIsNext
  <1> QED
    BY <1>3, <1>4

\* What ScopeInv says of what runs.
LEMMA RunningScoped ==
    ASSUME ExecInv, ScopeInv, NEW e \in Exec, running = e
    PROVE  /\ exec[e].base = Left("with", Npc)
           /\ Scoped(exec[e].frames, ctx, Left("with", Npc), Left("call", None))
  <1>1. running # None
    BY SleepAssumption
  <1> QED
    BY <1>1 DEF ScopeInv, Scoped

\* What to show of a step: of the one suspended execution, of the Context when
\* nothing runs, and of what runs.
LEMMA PutScope ==
    ASSUME \A r \in Resumable : exec'[r].status = "suspended" =>
               /\ exec'[r].base = Npc
               /\ Chained(exec'[r].frames, "with", Npc)
               /\ Chained(exec'[r].frames, "call", None),
           running' = None => /\ ctx'.this = Left("with", Npc)'
                              /\ ctx'.param = Left("call", None)',
           running' # None =>
               /\ exec'[running'].base = Left("with", Npc)'
               /\ Scoped(exec'[running'].frames, ctx', Left("with", Npc)',
                         Left("call", None)')
    PROVE  ScopeInv'
  BY DEF ScopeInv, Scoped

\* What runs goes on in the scopes of its own frames, around whatever is
\* suspended.
LEMMA GoesScope ==
    ASSUME OneResumable, ExecInv, ScopeInv, budget' = budget, NEW e \in Exec, Goes(e)
    PROVE  ScopeInv'
  <1>1. running = e /\ running' = e
    BY DEF Goes, Moved
  <1>2. PICK x \in ExecType :
            /\ exec' = [exec EXCEPT ![e] = x] /\ x.status = "running"
            /\ x.base = exec[e].base
            /\ \A this, param : Scoped(exec[e].frames, ctx, this, param) =>
                                    Scoped(x.frames, ctx', this, param)
    BY GoesIs
  <1>3. exec[e].status = "running"
    BY <1>1, RunningIs
  <1>4. \A kind, d : Left(kind, d)' = Left(kind, d)
    BY <1>2, <1>3, LeftKept
  <1>5. exec'[e] = x /\ \A d \in Exec : d # e => exec'[d] = exec[d]
    BY <1>2, OthersStay
  <1>6. /\ x.base = Left("with", Npc)'
        /\ Scoped(x.frames, ctx', Left("with", Npc)', Left("call", None)')
    BY <1>1, <1>2, <1>4, RunningScoped
  <1>7. Resumable \subseteq Exec /\ e # None
    BY SleepAssumption DEF Exec
  <1>8. \A r \in Resumable : exec'[r].status = "suspended" => exec'[r] = exec[r]
    BY <1>2, <1>5, <1>7
  <1>9. \A r \in Resumable : exec'[r].status = "suspended" =>
            /\ exec'[r].base = Npc
            /\ Chained(exec'[r].frames, "with", Npc)
            /\ Chained(exec'[r].frames, "call", None)
    BY <1>8 DEF ScopeInv
  <1> QED
    BY <1>1, <1>5, <1>6, <1>7, <1>9, PutScope

\* A resumable execution that yields was alone: its frames start from the NPC.
LEMMA SuspendsScope ==
    ASSUME OneResumable, ExecInv, ScopeInv, NEW e \in Exec, Suspends(e)
    PROVE  ScopeInv'
  <1>1. /\ running = e /\ running' = None /\ e \in Resumable
        /\ ctx'.this = ctx.this /\ ctx'.param = ctx.param
    BY DEF Suspends
  <1>2. PICK x \in ExecType :
            /\ exec' = [exec EXCEPT ![e] = x] /\ x.status = "suspended"
            /\ x.frames = exec[e].frames /\ x.base = exec[e].base
    BY DEF Suspends
  <1>3. exec'[e] = x
    BY <1>2, OthersStay
  <1>4. ~ \E r \in Resumable : exec[r].status = "suspended"
    <2>1. exec[e].status = "running"
      BY <1>1, RunningIs
    <2> QED
      BY <1>1, <2>1 DEF OneResumable
  <1>5. Left("with", Npc) = Npc /\ Left("call", None) = None
    BY <1>4, LeftIs
  <1>6. exec[e].base = Npc /\ Scoped(exec[e].frames, ctx, Npc, None)
    BY <1>1, <1>5, RunningScoped
  <1>7. /\ Left("with", Npc)' = Bound(x.frames, "with", Npc)
        /\ Left("call", None)' = Bound(x.frames, "call", None)
    BY <1>1, <1>2, <1>3, LeftIsNext
  <1>8. \A r \in Resumable : exec'[r] = x
    BY <1>1, <1>3 DEF OneResumable
  <1>9. \A r \in Resumable : exec'[r].status = "suspended" =>
            /\ exec'[r].base = Npc
            /\ Chained(exec'[r].frames, "with", Npc)
            /\ Chained(exec'[r].frames, "call", None)
    BY <1>2, <1>6, <1>8 DEF Scoped
  <1>10. ctx'.this = Left("with", Npc)' /\ ctx'.param = Left("call", None)'
    BY <1>1, <1>2, <1>6, <1>7 DEF Scoped
  <1> QED
    BY <1>1, <1>9, <1>10, PutScope

\* One that ends undoes its scopes, around whatever is suspended.
LEMMA EndsScope ==
    ASSUME OneResumable, ExecInv, ScopeInv, NEW e \in Exec, Ends(e)
    PROVE  ScopeInv'
  <1>1. /\ running = e /\ running' = None
        /\ \A this, param : Scoped(exec[e].frames, ctx, this, param) =>
                                ctx'.this = this /\ ctx'.param = param
    BY DEF Ends
  <1>2. PICK x \in ExecType :
            exec' = [exec EXCEPT ![e] = x] /\ x.status \in {"idle", "raised"}
    BY DEF Ends
  <1>3. exec[e].status = "running"
    BY <1>1, RunningIs
  <1>4. \A kind, d : Left(kind, d)' = Left(kind, d)
    BY <1>2, <1>3, LeftKept
  <1>5. ctx'.this = Left("with", Npc)' /\ ctx'.param = Left("call", None)'
    BY <1>1, <1>4, RunningScoped
  <1>6. Resumable \subseteq Exec
    BY DEF Exec
  <1>7. \A r \in Resumable : exec'[r].status = "suspended" => exec'[r] = exec[r]
    BY <1>2, <1>6, OthersStay
  <1>8. \A r \in Resumable : exec'[r].status = "suspended" =>
            /\ exec'[r].base = Npc
            /\ Chained(exec'[r].frames, "with", Npc)
            /\ Chained(exec'[r].frames, "call", None)
    BY <1>7 DEF ScopeInv
  <1> QED
    BY <1>1, <1>5, <1>8, PutScope

\* One that starts begins where the suspended one left off.
LEMMA StartsScope ==
    ASSUME OneResumable, ExecInv, ScopeInv, NEW e \in Exec, Starts(e)
    PROVE  ScopeInv'
  <1>1. /\ running = None /\ running' = e /\ exec[e].status = "idle"
        /\ ctx'.this = ctx.this /\ ctx'.param = ctx.param
    BY DEF Starts
  <1>2. PICK x \in ExecType :
            /\ exec' = [exec EXCEPT ![e] = x] /\ x.status = "running"
            /\ x.frames = <<>> /\ x.base = ctx.this
    BY DEF Starts
  <1>3. \A kind, d : Left(kind, d)' = Left(kind, d)
    BY <1>1, <1>2, LeftKept
  <1>4. ctx.this = Left("with", Npc) /\ ctx.param = Left("call", None)
    BY <1>1 DEF ScopeInv
  <1>5. Scoped(x.frames, ctx', Left("with", Npc)', Left("call", None)')
    BY <1>1, <1>2, <1>3, <1>4, NoneBound DEF Scoped
  <1>6. exec'[e] = x /\ Resumable \subseteq Exec /\ e # None
    BY <1>2, OthersStay, SleepAssumption DEF Exec
  <1>7. \A r \in Resumable : exec'[r].status = "suspended" => exec'[r] = exec[r]
    BY <1>2, <1>6, OthersStay
  <1>8. \A r \in Resumable : exec'[r].status = "suspended" =>
            /\ exec'[r].base = Npc
            /\ Chained(exec'[r].frames, "with", Npc)
            /\ Chained(exec'[r].frames, "call", None)
    BY <1>7 DEF ScopeInv
  <1> QED
    BY <1>1, <1>2, <1>3, <1>4, <1>5, <1>6, <1>8, PutScope

\* One that goes on finds the Context in its own scopes, whatever ran since.
LEMMA WakesScope ==
    ASSUME OneResumable, ExecInv, ScopeInv, NEW e \in Exec, Wakes(e)
    PROVE  ScopeInv'
  <1>1. /\ running = None /\ running' = e /\ exec[e].status = "suspended"
        /\ ctx'.this = ctx.this /\ ctx'.param = ctx.param
    BY DEF Wakes
  <1>2. PICK x \in ExecType :
            /\ exec' = [exec EXCEPT ![e] = x] /\ x.status = "running"
            /\ x.frames = exec[e].frames /\ x.base = exec[e].base
    BY DEF Wakes
  <1>3. e \in Resumable /\ e # None
    BY <1>1, AsleepResumable, SleepAssumption
  <1>4. exec'[e] = x
    BY <1>2, OthersStay
  <1>5. /\ ctx.this = Bound(exec[e].frames, "with", Npc)
        /\ ctx.param = Bound(exec[e].frames, "call", None)
    BY <1>1, <1>3, LeftIs DEF ScopeInv
  <1>6. /\ exec[e].base = Npc /\ Chained(exec[e].frames, "with", Npc)
        /\ Chained(exec[e].frames, "call", None)
    BY <1>1, <1>3 DEF ScopeInv
  <1>7. \A r \in Resumable : exec'[r].status # "suspended"
    BY <1>2, <1>3, <1>4 DEF OneResumable
  <1>8. Left("with", Npc)' = Npc /\ Left("call", None)' = None
    BY <1>7, LeftIsNext
  <1>9. /\ x.base = Left("with", Npc)'
        /\ Scoped(x.frames, ctx', Left("with", Npc)', Left("call", None)')
    BY <1>1, <1>2, <1>5, <1>6, <1>8 DEF Scoped
  <1> QED
    BY <1>1, <1>3, <1>4, <1>7, <1>9, PutScope

\* One that is closed undoes its scopes.
LEMMA ClosesScope ==
    ASSUME OneResumable, ExecInv, ScopeInv, NEW e \in Exec, Closes(e)
    PROVE  ScopeInv'
  <1>1. /\ running = None /\ running' = None
        /\ exec[e].status \in {"suspended", "raised"}
        /\ \A this, param : Scoped(exec[e].frames, ctx, this, param) =>
                                ctx'.this = this /\ ctx'.param = param
    BY DEF Closes
  <1>2. PICK x \in ExecType : exec' = [exec EXCEPT ![e] = x] /\ x.status = "idle"
    BY DEF Closes
  <1>3. e \in Resumable /\ exec'[e] = x
    BY <1>1, <1>2, EachSound, OthersStay DEF Sound
  <1>4. \A r \in Resumable : exec'[r].status # "suspended"
    BY <1>2, <1>3 DEF OneResumable
  <1>5. Left("with", Npc)' = Npc /\ Left("call", None)' = None
    BY <1>4, LeftIsNext
  <1>6. ctx.this = Left("with", Npc) /\ ctx.param = Left("call", None)
    BY <1>1 DEF ScopeInv
  <1>7. CASE exec[e].status = "suspended"
    <2>1. Scoped(exec[e].frames, ctx, Npc, None)
      BY <1>3, <1>6, <1>7, LeftIs DEF ScopeInv, Scoped
    <2> QED
      BY <1>1, <1>4, <1>5, <2>1, PutScope
  <1>8. CASE exec[e].status = "raised"
    <2>1. exec[e].frames = <<>>
      BY <1>8, EachSound DEF Sound
    <2>2. ~ \E r \in Resumable : exec[r].status = "suspended"
      BY <1>3, <1>8 DEF OneResumable
    <2>3. ctx.this = Npc /\ ctx.param = None
      BY <1>6, <2>2, LeftIs
    <2>4. Scoped(exec[e].frames, ctx, Npc, None)
      BY <2>1, <2>3, NoneBound DEF Scoped
    <2> QED
      BY <1>1, <1>4, <1>5, <2>4, PutScope
  <1> QED
    BY <1>1, <1>7, <1>8

\* So the invariant, of which both properties follow.
LEMMA ScopeHolds ==
    ASSUME OneResumable
    PROVE  Spec => [](ExecInv /\ ScopeInv)
  <1>1. Init => ExecInv /\ ScopeInv
    <2> SUFFICES ASSUME Init
                 PROVE  ExecInv /\ ScopeInv
      OBVIOUS
    <2>1. /\ running = None /\ exec = [e \in Exec |-> Idle]
          /\ ctx = [this |-> Npc, param |-> None, cancelled |-> FALSE, steps |-> 0,
                    event |-> None]
      BY DEF Init
    <2>2. ctx.this = Npc /\ ctx.param = None
      BY <2>1
    <2>3. \A r \in Resumable : exec[r].status # "suspended"
      BY <2>1, IdleIs DEF Exec
    <2>4. Left("with", Npc) = Npc /\ Left("call", None) = None
      BY <2>3, LeftIs
    <2> QED
      BY <2>1, <2>2, <2>3, <2>4, InitExec DEF ScopeInv
  <1>2. ExecInv /\ ScopeInv /\ [Next]_vars => (ExecInv /\ ScopeInv)'
    <2> SUFFICES ASSUME ExecInv, ScopeInv, [Next]_vars
                 PROVE  ExecInv' /\ ScopeInv'
      OBVIOUS
    <2>1. ExecInv'
      BY StepExec
    <2>2. CASE Next
      <3>1. PICK e \in Exec : \/ Goes(e) \/ Suspends(e) \/ Ends(e)
                              \/ Starts(e) \/ Wakes(e) \/ Closes(e)
        BY <2>2, StepIs
      <3>2. budget' = budget
        BY <2>2, StepIs
      <3> QED
        BY <2>1, <3>1, <3>2, GoesScope, SuspendsScope, EndsScope, StartsScope,
           WakesScope, ClosesScope
    <2>3. CASE UNCHANGED vars
      BY <2>1, <2>3 DEF ScopeInv, Left, vars
    <2> QED
      BY <2>2, <2>3
  <1> QED
    BY <1>1, <1>2, PTL DEF Spec

\* With one resumable execution, a script finds the object of its with block
\* and the parameter of its function as it left them, whatever events ran to
\* their end while it slept (_gx of With, _gcall_user).
THEOREM ScopesKept ==
    ASSUME OneResumable
    PROVE  Spec => []ScopeIntact
  <1>1. ExecInv /\ ScopeInv => ScopeIntact
    <2> SUFFICES ASSUME ExecInv, ScopeInv, running \in Exec
                 PROVE  /\ ctx.this = ThisOf(running)
                        /\ LET k == Innermost(exec[running].frames, "call")
                           IN  k > 0 => ctx.param = exec[running].frames[k].val
      BY DEF ScopeIntact
    <2>1. /\ exec[running].base = Left("with", Npc)
          /\ Scoped(exec[running].frames, ctx, Left("with", Npc), Left("call", None))
      BY RunningScoped
    <2>2. ctx.this = ThisOf(running)
      BY <2>1 DEF Scoped, Bound, ThisOf
    <2>3. exec[running].frames \in Seq(FrameType)
      BY RunningIs
    <2>4. Innermost(exec[running].frames, "call") \in 0 .. Len(exec[running].frames)
      BY <2>3, InnermostIs
    <2> QED
      BY <2>1, <2>2, <2>4 DEF Scoped, Bound
  <1> QED
    BY <1>1, ScopeHolds, PTL

\* With one resumable execution, once nothing runs and nothing is suspended the
\* Context stands as it was, also after a cancel, a drop, a signal through
\* several blocks or the step limit: the finally clauses lose nothing.
THEOREM NothingBound ==
    ASSUME OneResumable
    PROVE  Spec => []Unbound
  <1>1. ExecInv /\ ScopeInv => Unbound
    <2> SUFFICES ASSUME ExecInv, ScopeInv,
                        \A e \in Exec : exec[e].status \in {"idle", "raised"}
                 PROVE  ctx.this = Npc /\ ctx.param = None
      BY DEF Unbound
    <2>1. running = None
      <3>1. ASSUME NEW e \in Exec, running = e
            PROVE  FALSE
        BY <3>1, RunningIs
      <3> QED
        BY <3>1 DEF ExecInv
    <2>2. ~ \E r \in Resumable : exec[r].status = "suspended"
      BY DEF Exec
    <2> QED
      BY <2>1, <2>2, LeftIs DEF ScopeInv
  <1> QED
    BY <1>1, ScopeHolds, PTL

=============================================================================
