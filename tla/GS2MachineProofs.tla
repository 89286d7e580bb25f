-------------------------- MODULE GS2MachineProofs --------------------------
(***************************************************************************)
(* For every set of scripts, classes and coroutines, every budget and any  *)
(* depth of calls: the mode tells a host callback rightly whether it may   *)
(* wait; and as long as no machine is entered while it has a frame, every  *)
(* run counts its own instructions and stays within the budget, but for a  *)
(* coroutine whose machine was used while it waited.                       *)
(***************************************************************************)
EXTENDS GS2Machine, WellFoundedInduction, TLAPS

USE MachineAssumption

-----------------------------------------------------------------------------
(* Induction without an operator parameter.                                *)

\* Induction over a set: a set of naturals that holds 0 and is closed under
\* the successor is all of Nat.
LEMMA NatSet ==
    ASSUME NEW S, 0 \in S, \A n \in Nat : n \in S => n + 1 \in S
    PROVE  Nat \subseteq S
  <1> DEFINE R == {ss \in Nat \X Nat : ss[1] < ss[2]}
             T == Nat \ S
  <1>1. SUFFICES ASSUME T # {} PROVE FALSE
    BY DEF T
  <1>2. IsWellFoundedOn(R, Nat)
    BY NatLessThanWellFounded, Zenon DEF OpToRel
  <1>3. T \subseteq Nat
    BY DEF T
  <1> HIDE DEF T, R
  <1>4. PICK x \in T : \A y \in T : ~ (<<y, x>> \in R)
    BY <1>1, <1>2, <1>3, WFMin
  <1>5. x \in Nat /\ x # 0 /\ x - 1 \in Nat
    BY <1>3 DEF T
  <1>6. x - 1 \in S => FALSE
    BY <1>5 DEF T
  <1>7. x - 1 \in T
    BY <1>5, <1>6 DEF T
  <1>8. <<x - 1, x>> \in R
    BY <1>5 DEF R
  <1> QED
    BY <1>4, <1>7, <1>8

-----------------------------------------------------------------------------
(* Stacks of frames.                                                       *)

Stacks == Seq(FrameType)

\* A stack without its innermost frame.
LEMMA FrontType ==
    ASSUME NEW s \in Stacks, s # <<>>
    PROVE  /\ Len(s) \in Nat /\ Len(s) >= 1 /\ Len(s) \in 1 .. Len(s)
           /\ Front(s) \in Stacks /\ Len(Front(s)) = Len(s) - 1
           /\ \A i \in 1 .. Len(s) - 1 : Front(s)[i] = s[i]
           /\ Last(s) = s[Len(s)] /\ Last(s) \in FrameType
  <1>1. Len(s) \in Nat /\ Len(s) >= 1 /\ Len(s) \in 1 .. Len(s)
    BY DEF Stacks
  <1>2. PICK n \in Nat : n = Len(s) - 1
    BY <1>1
  <1>3. Front(s) = SubSeq(s, 1, n)
    BY <1>2 DEF Front
  <1>4. SubSeq(s, 1, n) \in Stacks /\ Len(SubSeq(s, 1, n)) = n
        /\ \A i \in 1 .. n : SubSeq(s, 1, n)[i] = s[i]
    BY <1>1, <1>2 DEF Stacks
  <1> QED
    BY <1>1, <1>2, <1>3, <1>4 DEF Last, Stacks

\* A stack with one more frame.
LEMMA AppendType ==
    ASSUME NEW s \in Stacks, NEW f \in FrameType
    PROVE  /\ Append(s, f) \in Stacks /\ Len(Append(s, f)) = Len(s) + 1
           /\ \A i \in 1 .. Len(s) : Append(s, f)[i] = s[i]
           /\ Append(s, f)[Len(s) + 1] = f /\ Len(s) \in Nat
  BY DEF Stacks

\* The fields of a frame.
LEMMA FrameFields ==
    ASSUME NEW f \in FrameType
    PROVE  /\ f.vm \in VM /\ f.kind \in Kinds /\ f.coro \in Coro \cup {None}
           /\ f.used \in Nat /\ f.failed \in Nat /\ f.saved \in BOOLEAN
  BY DEF FrameType

\* A new frame.
LEMMA FrameNew ==
    ASSUME NEW vm \in VM, NEW kind \in Kinds, NEW coro \in Coro \cup {None}
    PROVE  /\ Frame(vm, kind, coro) \in FrameType
           /\ Frame(vm, kind, coro).vm = vm /\ Frame(vm, kind, coro).kind = kind
           /\ Frame(vm, kind, coro).coro = coro /\ Frame(vm, kind, coro).used = 0
  BY DEF Frame, FrameType

\* Two stacks whose frames differ in their counts at most.
Alike(s, t) ==
    /\ Len(s) = Len(t)
    /\ \A i \in 1 .. Len(s) : /\ s[i].vm = t[i].vm /\ s[i].kind = t[i].kind
                              /\ s[i].coro = t[i].coro /\ s[i].saved = t[i].saved

\* Frames lie on each other as they did.
LEMMA AlikeNested ==
    ASSUME NEW s \in Stacks, NEW t \in Stacks, Alike(s, t), Nested(s)
    PROVE  Nested(t)
  <1>1. Len(s) \in Nat /\ Len(t) = Len(s)
    BY DEF Alike, Stacks
  <1>2. \A i \in 1 .. Len(t) : t[i].kind = "event" <=> i = 1
    BY <1>1 DEF Alike, Nested
  <1>3. ASSUME NEW i \in 2 .. Len(t)
        PROVE  IF t[i - 1].kind = "host" THEN t[i].kind = "sync" /\ t[i].coro = None
               ELSE /\ t[i].kind # "sync" /\ t[i].coro = t[i - 1].coro
                    /\ t[i].kind # "joined" => t[i].vm = t[i - 1].vm
    <2>1. i \in 1 .. Len(s) /\ i - 1 \in 1 .. Len(s) /\ i \in 2 .. Len(s)
      BY <1>1
    <2>2. PICK f : f = t[i - 1]
      OBVIOUS
    <2>3. PICK g : g = t[i]
      OBVIOUS
    <2>4. /\ s[i].vm = g.vm /\ s[i].kind = g.kind /\ s[i].coro = g.coro
          /\ s[i - 1].vm = f.vm /\ s[i - 1].kind = f.kind /\ s[i - 1].coro = f.coro
      BY <2>1, <2>2, <2>3 DEF Alike
    <2>5. IF f.kind = "host" THEN g.kind = "sync" /\ g.coro = None
          ELSE /\ g.kind # "sync" /\ g.coro = f.coro
               /\ g.kind # "joined" => g.vm = f.vm
      BY <2>1, <2>4 DEF Nested
    <2> QED
      BY <2>2, <2>3, <2>5
  <1> QED
    BY <1>2, <1>3 DEF Nested

\* Counting does not break a run.
LEMMA AlikeUnbroken ==
    ASSUME NEW s \in Stacks, NEW t \in Stacks, Alike(s, t), Unbroken(s)
    PROVE  Unbroken(t)
  <1>1. Len(s) \in Nat /\ Len(t) = Len(s)
    BY DEF Alike, Stacks
  <1>2. ASSUME NEW i \in 1 .. Len(t), t[i].coro # None, NEW j \in 1 .. i
        PROVE  t[j].kind # "sync" /\ t[j].coro = t[i].coro
    <2>1. i \in 1 .. Len(s) /\ j \in 1 .. Len(s)
      BY <1>1
    <2> QED
      BY <1>2, <2>1 DEF Alike, Unbroken
  <1> QED
    BY <1>2 DEF Unbroken

\* Nor does it change which modes are right.
LEMMA AlikeMode ==
    ASSUME NEW s \in Stacks, NEW t \in Stacks, Alike(s, t), NEW m, ModeKept(s, m)
    PROVE  ModeKept(t, m)
  <1>1. Len(s) \in Nat /\ Len(t) = Len(s)
    BY DEF Alike, Stacks
  <1>2. \A vm : \A i \in 1 .. Len(s) : HostOf(s, i, vm) <=> HostOf(t, i, vm)
    BY <1>1 DEF Alike, HostOf
  <1>3. ASSUME NEW i \in 1 .. Len(t), NEW k \in i .. Len(t), NEW vm
        PROVE  NoHost(s, i + 1, k, vm) <=> NoHost(t, i + 1, k, vm)
    BY <1>1, <1>2 DEF NoHost
  <1>4. ASSUME NEW i \in 1 .. Len(t), t[i].kind = "host"
        PROVE  NoHost(t, i + 1, Len(t), t[i].vm) => (m[t[i].vm] <=> t[i].coro # None)
    <2>1. i \in 1 .. Len(s) /\ Len(t) \in i .. Len(t)
      BY <1>1
    <2>2. s[i].vm = t[i].vm /\ s[i].kind = "host" /\ s[i].coro = t[i].coro
      BY <1>4, <2>1 DEF Alike
    <2>3. NoHost(s, i + 1, Len(s), s[i].vm) => (m[s[i].vm] <=> s[i].coro # None)
      BY <2>1, <2>2 DEF ModeKept
    <2> QED
      BY <1>1, <1>3, <2>1, <2>2, <2>3
  <1>5. ASSUME NEW i \in 1 .. Len(t), t[i].kind = "host", NEW k \in i + 1 .. Len(t),
               HostOf(t, k, t[i].vm), NoHost(t, i + 1, k - 1, t[i].vm)
        PROVE  t[k].saved <=> t[i].coro # None
    <2>1. i \in 1 .. Len(s) /\ k \in 1 .. Len(s) /\ k - 1 \in i .. Len(t)
          /\ k \in i + 1 .. Len(s)
      BY <1>1
    <2>2. s[i].vm = t[i].vm /\ s[i].kind = "host" /\ s[i].coro = t[i].coro
          /\ s[k].saved = t[k].saved
      BY <1>5, <2>1 DEF Alike
    <2>3. HostOf(s, k, s[i].vm) /\ NoHost(s, i + 1, k - 1, s[i].vm)
      BY <1>2, <1>3, <1>5, <2>1, <2>2
    <2> QED
      BY <2>1, <2>2, <2>3 DEF ModeKept
  <1> QED
    BY <1>4, <1>5 DEF ModeKept

-----------------------------------------------------------------------------
(* Frames that are left and frames that are entered.                       *)

\* Frames below the innermost lie on each other as before.
LEMMA FrontNested ==
    ASSUME NEW s \in Stacks, s # <<>>, Nested(s)
    PROVE  Nested(Front(s))
  <1>1. PICK t : t = Front(s)
    OBVIOUS
  <1>2. Len(s) \in Nat /\ Len(t) = Len(s) - 1 /\ \A i \in 1 .. Len(s) - 1 : t[i] = s[i]
    BY <1>1, FrontType
  <1>3. ASSUME NEW i \in 1 .. Len(t)
        PROVE  t[i].kind = "event" <=> i = 1
    <2>1. i \in 1 .. Len(s) /\ t[i] = s[i]
      BY <1>2
    <2> QED
      BY <2>1 DEF Nested
  <1>4. ASSUME NEW i \in 2 .. Len(t)
        PROVE  i \in 2 .. Len(s) /\ t[i] = s[i] /\ t[i - 1] = s[i - 1]
    BY <1>2
  <1>5. \A i \in 2 .. Len(t) :
           IF t[i - 1].kind = "host" THEN t[i].kind = "sync" /\ t[i].coro = None
           ELSE /\ t[i].kind # "sync" /\ t[i].coro = t[i - 1].coro
                /\ t[i].kind # "joined" => t[i].vm = t[i - 1].vm
    BY <1>4 DEF Nested
  <1> QED
    BY <1>1, <1>3, <1>5 DEF Nested

\* Popping a frame breaks no run.
LEMMA FrontUnbroken ==
    ASSUME NEW s \in Stacks, s # <<>>, Unbroken(s)
    PROVE  Unbroken(Front(s))
  <1>1. PICK t : t = Front(s)
    OBVIOUS
  <1>2. Len(s) \in Nat /\ Len(t) = Len(s) - 1 /\ \A i \in 1 .. Len(s) - 1 : t[i] = s[i]
    BY <1>1, FrontType
  <1>3. ASSUME NEW i \in 1 .. Len(t), t[i].coro # None, NEW j \in 1 .. i
        PROVE  t[j].kind # "sync" /\ t[j].coro = t[i].coro
    <2>1. i \in 1 .. Len(s) /\ t[i] = s[i] /\ t[j] = s[j]
      BY <1>2
    <2> QED
      BY <1>3, <2>1 DEF Unbroken
  <1> QED
    BY <1>1, <1>3 DEF Unbroken

\* A frame that was entered from the one below it, in the way of its kind.
OnTop(s, f) ==
    IF s = <<>> THEN f.kind = "event"
    ELSE /\ f.kind # "event"
         /\ IF Last(s).kind = "host" THEN f.kind = "sync" /\ f.coro = None
            ELSE /\ f.kind # "sync" /\ f.coro = Last(s).coro
                 /\ f.kind # "joined" => f.vm = Last(s).vm

\* A frame that may lie on top keeps the frames nested.
LEMMA AppendNested ==
    ASSUME NEW s \in Stacks, NEW f \in FrameType, Nested(s), OnTop(s, f)
    PROVE  Nested(Append(s, f))
  <1>1. PICK t : t = Append(s, f)
    OBVIOUS
  <1>2. PICK n \in Nat : n = Len(s)
    BY AppendType
  <1>3. Len(t) = n + 1 /\ (\A i \in 1 .. n : t[i] = s[i]) /\ t[n + 1] = f
    BY <1>1, <1>2, AppendType
  <1>4. s = <<>> <=> n = 0
    BY <1>2 DEF Stacks
  <1>5. n # 0 => Last(s) = s[n]
    BY <1>2 DEF Last
  <1>6. ASSUME NEW i \in 1 .. n + 1
        PROVE  t[i].kind = "event" <=> i = 1
    <2>1. CASE i = n + 1
      BY <1>3, <1>4, <2>1 DEF OnTop
    <2>2. CASE i # n + 1
      <3>1. i \in 1 .. n
        BY <2>2
      <3> QED
        BY <1>2, <1>3, <3>1 DEF Nested
    <2> QED
      BY <2>1, <2>2
  <1>7. ASSUME NEW i \in 2 .. n + 1
        PROVE  IF t[i - 1].kind = "host" THEN t[i].kind = "sync" /\ t[i].coro = None
               ELSE /\ t[i].kind # "sync" /\ t[i].coro = t[i - 1].coro
                    /\ t[i].kind # "joined" => t[i].vm = t[i - 1].vm
    <2>1. CASE i = n + 1
      <3>1. n # 0 /\ n \in 1 .. n /\ i - 1 = n
        BY <2>1
      <3>2. t[i - 1] = Last(s) /\ t[i] = f
        BY <1>3, <1>5, <2>1, <3>1
      <3> QED
        BY <1>4, <3>1, <3>2 DEF OnTop
    <2>2. CASE i # n + 1
      <3>1. i \in 2 .. n /\ t[i] = s[i] /\ t[i - 1] = s[i - 1]
        BY <1>3, <2>2
      <3> QED
        BY <1>2, <3>1 DEF Nested
    <2> QED
      BY <2>1, <2>2
  <1> QED
    BY <1>1, <1>3, <1>6, <1>7 DEF Nested

\* It breaks no run either.
LEMMA AppendUnbroken ==
    ASSUME NEW s \in Stacks, NEW f \in FrameType, Unbroken(s), OnTop(s, f)
    PROVE  Unbroken(Append(s, f))
  <1>1. PICK t : t = Append(s, f)
    OBVIOUS
  <1>2. PICK n \in Nat : n = Len(s)
    BY AppendType
  <1>3. Len(t) = n + 1 /\ (\A i \in 1 .. n : t[i] = s[i]) /\ t[n + 1] = f
    BY <1>1, <1>2, AppendType
  <1>4. s = <<>> <=> n = 0
    BY <1>2 DEF Stacks
  <1>5. n # 0 => Last(s) = s[n]
    BY <1>2 DEF Last
  <1>6. ASSUME NEW i \in 1 .. n + 1, t[i].coro # None, NEW j \in 1 .. i
        PROVE  t[j].kind # "sync" /\ t[j].coro = t[i].coro
    <2>1. CASE i # n + 1
      <3>1. i \in 1 .. n /\ t[i] = s[i] /\ t[j] = s[j]
        BY <1>3, <2>1
      <3> QED
        BY <1>2, <1>6, <3>1 DEF Unbroken
    <2>2. CASE i = n + 1 /\ n = 0
      <3>1. j = n + 1 /\ f.kind = "event"
        BY <1>4, <2>2 DEF OnTop
      <3> QED
        BY <1>3, <2>2, <3>1
    <2>3. CASE i = n + 1 /\ n # 0
      <3>1. f.kind # "sync" /\ f.coro = s[n].coro
        BY <1>3, <1>4, <1>5, <1>6, <2>3 DEF OnTop
      <3>2. CASE j = n + 1
        BY <1>3, <2>3, <3>1, <3>2
      <3>3. CASE j # n + 1
        <4>1. j \in 1 .. n /\ n \in 1 .. n /\ t[j] = s[j]
          BY <1>3, <2>3, <3>3
        <4>2. s[n].coro # None
          BY <1>3, <1>6, <2>3, <3>1
        <4>3. s[j].kind # "sync" /\ s[j].coro = s[n].coro
          BY <1>2, <4>1, <4>2 DEF Unbroken
        <4> QED
          BY <1>3, <2>3, <3>1, <4>1, <4>3
      <3> QED
        BY <3>2, <3>3
    <2> QED
      BY <2>1, <2>2, <2>3
  <1> QED
    BY <1>1, <1>3, <1>6 DEF Unbroken

\* What is true of host frames from i on up to k is true of each.
LEMMA NoHostMore ==
    ASSUME NEW s, NEW i \in Nat, NEW k \in Nat, NEW vm, ~ HostOf(s, k + 1, vm),
           NoHost(s, i, k, vm)
    PROVE  NoHost(s, i, k + 1, vm)
  <1>1. ASSUME NEW l \in i .. k + 1
        PROVE  ~ HostOf(s, l, vm)
    <2>1. CASE l = k + 1
      BY <2>1
    <2>2. CASE l # k + 1
      <3>1. l \in i .. k
        BY <2>2
      <3> QED
        BY <3>1 DEF NoHost
    <2> QED
      BY <2>1, <2>2
  <1> QED
    BY <1>1 DEF NoHost

\* The mode that a host frame restores is that of the one before.
LEMMA FrontMode ==
    ASSUME NEW s \in Stacks, s # <<>>, NEW m \in [VM -> BOOLEAN], ModeKept(s, m),
           NEW w, w = IF Last(s).kind = "host"
                      THEN [m EXCEPT ![Last(s).vm] = Last(s).saved] ELSE m
    PROVE  ModeKept(Front(s), w)
  <1>1. PICK t : t = Front(s)
    OBVIOUS
  <1>2. PICK n \in Nat : n + 1 = Len(s)
    BY FrontType
  <1>3. Len(t) = n /\ (\A i \in 1 .. n : t[i] = s[i])
        /\ Last(s) = s[n + 1] /\ s[n + 1] \in FrameType /\ t \in Stacks
    <2>1. Len(s) - 1 = n
      BY <1>2
    <2> QED
      BY <1>1, <1>2, <2>1, FrontType
  <1>4. \A vm : \A i \in 1 .. n : HostOf(s, i, vm) <=> HostOf(t, i, vm)
    BY <1>3 DEF HostOf
  <1>5. ASSUME NEW i \in 1 .. n, NEW k \in i .. n, NEW vm
        PROVE  NoHost(s, i + 1, k, vm) <=> NoHost(t, i + 1, k, vm)
    BY <1>4 DEF NoHost
  <1>6. ASSUME NEW i \in 1 .. n, t[i].kind = "host", NoHost(t, i + 1, n, t[i].vm)
        PROVE  w[t[i].vm] <=> t[i].coro # None
    <2>1. i \in 1 .. n + 1 /\ t[i] = s[i] /\ i + 1 \in Nat /\ n \in i .. n
      BY <1>3
    <2>2. NoHost(s, i + 1, n, s[i].vm)
      BY <1>5, <1>6, <2>1
    <2>3. s[i].vm \in VM /\ s[n + 1].vm \in VM
      <3>1. s[i] \in FrameType
        BY <1>2, <2>1 DEF Stacks
      <3> QED
        BY <1>3, <3>1, FrameFields
    <2>4. CASE HostOf(s, n + 1, s[i].vm)
      <3>1. n + 1 \in i + 1 .. Len(s) /\ (n + 1) - 1 = n
        BY <1>2
      <3>2. s[n + 1].saved <=> s[i].coro # None
        BY <1>2, <1>6, <2>1, <2>2, <2>4, <3>1 DEF ModeKept
      <3>3. w[s[i].vm] = s[n + 1].saved
        BY <1>3, <2>3, <2>4 DEF HostOf
      <3> QED
        BY <2>1, <3>2, <3>3
    <2>5. CASE ~ HostOf(s, n + 1, s[i].vm)
      <3>1. NoHost(s, i + 1, Len(s), s[i].vm)
        BY <1>2, <2>1, <2>2, <2>5, NoHostMore
      <3>2. m[s[i].vm] <=> s[i].coro # None
        BY <1>2, <1>6, <2>1, <3>1 DEF ModeKept
      <3>3. w[s[i].vm] = m[s[i].vm]
        BY <1>3, <2>3, <2>5 DEF HostOf
      <3> QED
        BY <2>1, <3>2, <3>3
    <2> QED
      BY <2>4, <2>5
  <1>7. ASSUME NEW i \in 1 .. n, t[i].kind = "host", NEW k \in i + 1 .. n,
               HostOf(t, k, t[i].vm), NoHost(t, i + 1, k - 1, t[i].vm)
        PROVE  t[k].saved <=> t[i].coro # None
    <2>1. i \in 1 .. Len(s) /\ k \in 1 .. n /\ k - 1 \in i .. n
          /\ k \in i + 1 .. Len(s) /\ t[i] = s[i] /\ t[k] = s[k]
      BY <1>2, <1>3
    <2>2. HostOf(s, k, s[i].vm) /\ NoHost(s, i + 1, k - 1, s[i].vm)
      BY <1>4, <1>5, <1>7, <2>1
    <2> QED
      BY <1>7, <2>1, <2>2 DEF ModeKept
  <1> QED
    BY <1>1, <1>3, <1>6, <1>7 DEF ModeKept

\* A frame that is no host frame leaves the modes as they are; a host frame
\* keeps the mode it finds and sets its own.
LEMMA AppendMode ==
    ASSUME NEW s \in Stacks, NEW f \in FrameType, NEW m \in [VM -> BOOLEAN],
           ModeKept(s, m), NEW w,
           w = (IF f.kind = "host" THEN [m EXCEPT ![f.vm] = f.coro # None] ELSE m),
           f.kind = "host" => f.saved = m[f.vm]
    PROVE  ModeKept(Append(s, f), w)
  <1>1. PICK t : t = Append(s, f)
    OBVIOUS
  <1>2. PICK n \in Nat : n = Len(s)
    BY AppendType
  <1>3. Len(t) = n + 1 /\ (\A i \in 1 .. n : t[i] = s[i]) /\ t[n + 1] = f
    BY <1>1, <1>2, AppendType
  <1>4. \A vm : \A i \in 1 .. n : HostOf(s, i, vm) <=> HostOf(t, i, vm)
    BY <1>3 DEF HostOf
  <1>5. ASSUME NEW i \in 1 .. n, NEW k \in i .. n, NEW vm
        PROVE  NoHost(s, i + 1, k, vm) <=> NoHost(t, i + 1, k, vm)
    BY <1>4 DEF NoHost
  <1>6. f.vm \in VM
    BY FrameFields
  <1>7. ASSUME NEW i \in 1 .. n + 1, t[i].kind = "host",
               NoHost(t, i + 1, n + 1, t[i].vm)
        PROVE  w[t[i].vm] <=> t[i].coro # None
    <2>1. CASE i = n + 1
      BY <1>3, <1>6, <1>7, <2>1
    <2>2. CASE i # n + 1
      <3>1. i \in 1 .. n /\ t[i] = s[i] /\ n \in i .. n /\ n + 1 \in i + 1 .. n + 1
        BY <1>3, <2>2
      <3>2. ~ HostOf(t, n + 1, s[i].vm) /\ NoHost(t, i + 1, n, s[i].vm)
        BY <1>7, <3>1 DEF NoHost
      <3>3. NoHost(s, i + 1, n, s[i].vm)
        BY <1>5, <3>1, <3>2
      <3>4. m[s[i].vm] <=> s[i].coro # None
        BY <1>2, <1>7, <3>1, <3>3 DEF ModeKept
      <3>5. s[i].vm \in VM
        <4>1. s[i] \in FrameType
          BY <1>2, <3>1 DEF Stacks
        <4> QED
          BY <4>1, FrameFields
      <3>6. w[s[i].vm] = m[s[i].vm]
        BY <1>3, <1>6, <3>2, <3>5 DEF HostOf
      <3> QED
        BY <3>1, <3>4, <3>6
    <2> QED
      BY <2>1, <2>2
  <1>8. ASSUME NEW i \in 1 .. n + 1, t[i].kind = "host", NEW k \in i + 1 .. n + 1,
               HostOf(t, k, t[i].vm), NoHost(t, i + 1, k - 1, t[i].vm)
        PROVE  t[k].saved <=> t[i].coro # None
    <2>1. i \in 1 .. n /\ t[i] = s[i] /\ k - 1 \in i .. n
      BY <1>3
    <2>2. NoHost(s, i + 1, k - 1, s[i].vm)
      BY <1>5, <1>8, <2>1
    <2>3. CASE k = n + 1
      <3>1. k - 1 = n
        BY <2>3
      <3>2. m[s[i].vm] <=> s[i].coro # None
        BY <1>2, <1>8, <2>1, <2>2, <3>1 DEF ModeKept
      <3>3. f.saved = m[s[i].vm]
        BY <1>3, <1>8, <2>1, <2>3 DEF HostOf
      <3> QED
        BY <1>3, <2>1, <2>3, <3>2, <3>3
    <2>4. CASE k # n + 1
      <3>1. k \in i + 1 .. n /\ k \in 1 .. n /\ t[k] = s[k]
        BY <1>3, <2>4
      <3>2. HostOf(s, k, s[i].vm)
        BY <1>4, <1>8, <2>1, <3>1
      <3> QED
        BY <1>2, <1>8, <2>1, <2>2, <3>1, <3>2 DEF ModeKept
    <2> QED
      BY <2>3, <2>4
  <1> QED
    BY <1>1, <1>3, <1>7, <1>8 DEF ModeKept

-----------------------------------------------------------------------------
(* The machine between two steps: its frames, its counters and its modes.  *)

StateType == [stack : Stacks, ops : [VM -> 0 .. MaxOps], mode : [VM -> BOOLEAN]]

Sound(s) == /\ s \in StateType
            /\ Nested(s.stack) /\ Unbroken(s.stack) /\ ModeKept(s.stack, s.mode)

\* The types of the fields of a state.
LEMMA StateFields ==
    ASSUME NEW s \in StateType
    PROVE  /\ s.stack \in Stacks /\ s.ops \in [VM -> 0 .. MaxOps]
           /\ s.mode \in [VM -> BOOLEAN] /\ MaxOps \in Nat
  BY DEF StateType

\* The run of the innermost frame begins at Base, and nowhere else.
LEMMA BaseFound ==
    ASSUME NEW s \in Stacks, s # <<>>, Nested(s)
    PROVE  /\ Base(s) \in 1 .. Len(s) /\ Begins(s, Base(s), Len(s))
           /\ \A i \in 1 .. Len(s) : Begins(s, i, Len(s)) => i = Base(s)
  <1>1. Len(s) \in Nat /\ Len(s) >= 1
    BY FrontType
  <1> DEFINE S == {n \in Nat : n + 1 <= Len(s) =>
                      \E i \in 1 .. n + 1 : Begins(s, i, n + 1)}
             R == {i \in 1 .. Len(s) : s[i].kind \in Runs}
  <1>2. 0 \in S
    <2>1. s[1].kind = "event"
      BY <1>1 DEF Nested
    <2>2. Begins(s, 1, 1)
      BY <2>1 DEF Begins, Runs
    <2> QED
      BY <2>2
  <1>3. ASSUME NEW n \in Nat, n \in S
        PROVE  n + 1 \in S
    <2> SUFFICES ASSUME (n + 1) + 1 <= Len(s)
                 PROVE  \E i \in 1 .. (n + 1) + 1 : Begins(s, i, (n + 1) + 1)
      OBVIOUS
    <2>1. PICK i \in 1 .. n + 1 : Begins(s, i, n + 1)
      BY <1>1, <1>3
    <2>2. PICK m \in Nat : m = (n + 1) + 1
      OBVIOUS
    <2>3. CASE s[m].kind \in Runs
      <3>1. Begins(s, m, m) /\ m \in 1 .. m
        BY <2>2, <2>3 DEF Begins
      <3> QED
        BY <2>2, <3>1
    <2>4. CASE s[m].kind \notin Runs
      <3>1. ASSUME NEW l \in i + 1 .. m
            PROVE  s[l].kind \notin Runs
        <4>1. CASE l = m
          BY <2>4, <4>1
        <4>2. CASE l # m
          <5>1. l \in i + 1 .. n + 1
            BY <2>2, <4>2
          <5> QED
            BY <2>1, <5>1 DEF Begins
        <4> QED
          BY <4>1, <4>2
      <3>2. Begins(s, i, m) /\ i \in 1 .. m
        BY <2>1, <2>2, <3>1 DEF Begins
      <3> QED
        BY <2>2, <3>2
    <2> QED
      BY <2>3, <2>4
  <1> HIDE DEF S
  <1>4. Nat \subseteq S
    BY <1>2, <1>3, NatSet
  <1>5. PICK n \in Nat : n + 1 = Len(s)
    BY <1>1
  <1>6. PICK i \in 1 .. Len(s) : Begins(s, i, Len(s))
    BY <1>4, <1>5 DEF S
  <1>7. ASSUME NEW j \in R, NEW b \in 1 .. Len(s), Begins(s, b, Len(s))
        PROVE  b >= j
    <2>1. j \notin b + 1 .. Len(s)
      BY <1>7 DEF Begins
    <2> QED
      BY <1>1, <2>1
  <1>8. i \in R /\ \A j \in R : i >= j
    BY <1>6, <1>7 DEF Begins
  <1>9. Base(s) = CHOOSE x \in R : \A y \in R : x >= y
    BY DEF Base, Max
  <1>10. Base(s) \in R /\ \A j \in R : Base(s) >= j
    BY <1>8, <1>9
  <1>11. ASSUME NEW b \in 1 .. Len(s), Begins(s, b, Len(s))
         PROVE  b = Base(s)
    <2>1. b \in R
      BY <1>11 DEF Begins
    <2>2. b >= Base(s) /\ Base(s) >= b
      BY <1>7, <1>10, <1>11, <2>1
    <2> QED
      BY <1>1, <1>10, <2>2
  <1>12. i = Base(s)
    BY <1>6, <1>11
  <1> QED
    BY <1>6, <1>11, <1>12

\* A count of one frame is set.
SetUsed(s, b, n)   == [s EXCEPT ![b].used = n]
SetFailed(s, b, n) == [s EXCEPT ![b].failed = n]

\* Setting the count of one frame changes no other.
LEMMA UsedSet ==
    ASSUME NEW s \in Stacks, NEW b \in 1 .. Len(s), NEW n \in Nat,
           NEW t, t = SetUsed(s, b, n)
    PROVE  /\ t \in Stacks /\ Alike(s, t) /\ t[b].used = n
           /\ \A i \in 1 .. Len(s) : i # b => t[i].used = s[i].used
  <1>1. Len(s) \in Nat /\ s \in [1 .. Len(s) -> FrameType]
    BY DEF Stacks
  <1>2. s[b] \in FrameType
    BY <1>1
  <1>3. PICK g : g = [s[b] EXCEPT !.used = n]
    OBVIOUS
  <1>4. g \in FrameType /\ g.vm = s[b].vm /\ g.kind = s[b].kind /\ g.used = n
        /\ g.coro = s[b].coro /\ g.saved = s[b].saved
    BY <1>2, <1>3 DEF FrameType
  <1>5. t = [s EXCEPT ![b] = g]
    BY <1>3 DEF SetUsed
  <1>6. t \in [1 .. Len(s) -> FrameType] /\ t[b] = g
        /\ \A i \in 1 .. Len(s) : i # b => t[i] = s[i]
    BY <1>1, <1>4, <1>5
  <1>7. t \in Stacks /\ Len(t) = Len(s)
    BY <1>1, <1>6 DEF Stacks
  <1>8. Alike(s, t)
    BY <1>4, <1>6, <1>7 DEF Alike
  <1> QED
    BY <1>4, <1>6, <1>7, <1>8

\* Setting the failures of one frame changes no count.
LEMMA FailedSet ==
    ASSUME NEW s \in Stacks, NEW b \in 1 .. Len(s), NEW n \in Nat,
           NEW t, t = SetFailed(s, b, n)
    PROVE  /\ t \in Stacks /\ Alike(s, t)
           /\ \A i \in 1 .. Len(s) : t[i].used = s[i].used
  <1>1. Len(s) \in Nat /\ s \in [1 .. Len(s) -> FrameType]
    BY DEF Stacks
  <1>2. s[b] \in FrameType
    BY <1>1
  <1>3. PICK g : g = [s[b] EXCEPT !.failed = n]
    OBVIOUS
  <1>4. g \in FrameType /\ g.vm = s[b].vm /\ g.kind = s[b].kind /\ g.used = s[b].used
        /\ g.coro = s[b].coro /\ g.saved = s[b].saved
    BY <1>2, <1>3 DEF FrameType
  <1>5. t = [s EXCEPT ![b] = g]
    BY <1>3 DEF SetFailed
  <1>6. t \in [1 .. Len(s) -> FrameType] /\ t[b] = g
        /\ \A i \in 1 .. Len(s) : i # b => t[i] = s[i]
    BY <1>1, <1>4, <1>5
  <1>7. t \in Stacks /\ Len(t) = Len(s)
    BY <1>1, <1>6 DEF Stacks
  <1>8. Alike(s, t)
    BY <1>4, <1>6, <1>7 DEF Alike
  <1> QED
    BY <1>4, <1>6, <1>7, <1>8

\* With other counts, or with other counters, a sound machine stays sound.
LEMMA AlikeSound ==
    ASSUME NEW s, Sound(s), NEW t \in StateType, Alike(s.stack, t.stack),
           t.mode = s.mode
    PROVE  Sound(t)
  <1>1. s.stack \in Stacks /\ t.stack \in Stacks
    BY StateFields DEF Sound
  <1> QED
    BY <1>1, AlikeNested, AlikeUnbroken, AlikeMode DEF Sound

\* A count of instructions, which stops one above the budget.
More(n) == IF n > MaxOps THEN n ELSE n + 1

\* One instruction was counted.
LEMMA CountedSound ==
    ASSUME Sound(Now), Budgeted
    PROVE  /\ Sound(Counted) /\ Alike(stack, Counted.stack)
           /\ Counted.mode = mode /\ Counted.stack # <<>>
           /\ Counted.ops = [ops EXCEPT ![Top.vm] = ops[Top.vm] + 1]
           /\ Counted.stack[Base(stack)].used = More(stack[Base(stack)].used)
           /\ \A i \in 1 .. Len(stack) : i # Base(stack) =>
                 Counted.stack[i].used = stack[i].used
  <1>1. /\ stack \in Stacks /\ ops \in [VM -> 0 .. MaxOps] /\ MaxOps \in Nat
        /\ mode \in [VM -> BOOLEAN] /\ stack # <<>> /\ Nested(stack)
    BY StateFields DEF Sound, Now, Budgeted
  <1>2. Top \in FrameType
    BY <1>1, FrontType DEF Top
  <1>3. Top.vm \in VM /\ ops[Top.vm] < MaxOps
    BY <1>2, FrameFields DEF Budgeted
  <1>4. PICK b : b = Base(stack)
    OBVIOUS
  <1>5. b \in 1 .. Len(stack) /\ stack[b].used \in Nat
    <2>1. b \in 1 .. Len(stack)
      BY <1>1, <1>4, BaseFound
    <2>2. stack[b] \in FrameType
      BY <1>1, <2>1 DEF Stacks
    <2> QED
      BY <2>1, <2>2, FrameFields
  <1>6. PICK u \in Nat : u = More(stack[b].used)
    BY <1>1, <1>5 DEF More
  <1>7. PICK t : t = SetUsed(stack, b, u)
    OBVIOUS
  <1>8. /\ t \in Stacks /\ Alike(stack, t) /\ t[b].used = u
        /\ \A i \in 1 .. Len(stack) : i # b => t[i].used = stack[i].used
    <2>1. PICK s : s = stack
      OBVIOUS
    <2>2. s \in Stacks /\ b \in 1 .. Len(s) /\ t = SetUsed(s, b, u)
      BY <1>1, <1>5, <1>7, <2>1
    <2>3. /\ t \in Stacks /\ Alike(s, t) /\ t[b].used = u
          /\ \A i \in 1 .. Len(s) : i # b => t[i].used = s[i].used
      BY <2>2, UsedSet
    <2> QED
      BY <2>1, <2>3
  <1>9. PICK o : o = [ops EXCEPT ![Top.vm] = ops[Top.vm] + 1]
    OBVIOUS
  <1>10. o \in [VM -> 0 .. MaxOps]
    <2>1. ops[Top.vm] \in 0 .. MaxOps
      BY <1>1, <1>3
    <2>2. ops[Top.vm] + 1 \in 0 .. MaxOps
      BY <1>1, <1>3, <2>1
    <2> QED
      BY <1>1, <1>9, <2>2
  <1>11. Counted = [stack |-> t, ops |-> o, mode |-> mode]
    BY <1>4, <1>6, <1>7, <1>9 DEF Counted, SetUsed, More
  <1>12. Counted \in StateType /\ Counted.stack = t /\ Counted.ops = o
         /\ Counted.mode = mode
    BY <1>1, <1>8, <1>10, <1>11 DEF StateType
  <1>13. Sound(Counted)
    <2>1. Now.stack = stack /\ Now.mode = mode
      BY DEF Now
    <2> QED
      BY <1>8, <1>12, <2>1, AlikeSound
  <1>14. t # <<>>
    <2>1. Len(t) # 0
      BY <1>1, <1>8, FrontType DEF Alike
    <2> QED
      BY <2>1
  <1> QED
    BY <1>4, <1>6, <1>8, <1>9, <1>12, <1>13, <1>14

\* The innermost frame was left.
LEMMA PoppedSound ==
    ASSUME NEW s, Sound(s), s.stack # <<>>
    PROVE  /\ Sound(Popped(s)) /\ Popped(s).stack = Front(s.stack)
           /\ Popped(s).ops =
                 IF Last(s.stack).kind = "joined"
                 THEN [s.ops EXCEPT ![Last(Front(s.stack)).vm] =
                                       s.ops[Last(s.stack).vm]]
                 ELSE s.ops
  <1>1. PICK f : f = Last(s.stack)
    OBVIOUS
  <1>2. PICK t : t = Front(s.stack)
    OBVIOUS
  <1>3. s.stack \in Stacks /\ s.ops \in [VM -> 0 .. MaxOps]
        /\ s.mode \in [VM -> BOOLEAN] /\ Nested(s.stack)
    BY StateFields DEF Sound
  <1>4. f \in FrameType /\ t \in Stacks /\ f.vm \in VM /\ f.saved \in BOOLEAN
    BY <1>1, <1>2, <1>3, FrontType, FrameFields
  <1>5. PICK w : w = IF f.kind = "host" THEN [s.mode EXCEPT ![f.vm] = f.saved]
                                        ELSE s.mode
    OBVIOUS
  <1>6. PICK o : o = IF f.kind = "joined"
                     THEN [s.ops EXCEPT ![Last(t).vm] = s.ops[f.vm]] ELSE s.ops
    OBVIOUS
  <1>7. w \in [VM -> BOOLEAN]
    BY <1>3, <1>4, <1>5
  <1>8. o \in [VM -> 0 .. MaxOps]
    BY <1>3, <1>4, <1>6
  <1>9. Popped(s) = [stack |-> t, ops |-> o, mode |-> w]
    BY <1>1, <1>2, <1>5, <1>6 DEF Popped
  <1>10. Popped(s) \in StateType /\ Popped(s).stack = t /\ Popped(s).mode = w
         /\ Popped(s).ops = o
    BY <1>4, <1>7, <1>8, <1>9 DEF StateType
  <1>11. Nested(t) /\ Unbroken(t)
    BY <1>2, <1>3, FrontNested, FrontUnbroken DEF Sound
  <1>12. ModeKept(t, w)
    BY <1>1, <1>2, <1>3, <1>5, FrontMode DEF Sound
  <1> QED
    BY <1>1, <1>2, <1>6, <1>10, <1>11, <1>12 DEF Sound

\* A frame was entered that is no host frame.
LEMMA PushSound ==
    ASSUME NEW s, Sound(s), NEW f \in FrameType, f.kind # "host",
           OnTop(s.stack, f), NEW o \in [VM -> 0 .. MaxOps],
           NEW t, t = [stack |-> Append(s.stack, f), ops |-> o, mode |-> s.mode]
    PROVE  Sound(t)
  <1>1. s.stack \in Stacks /\ s.mode \in [VM -> BOOLEAN]
    BY StateFields DEF Sound
  <1>2. PICK u : u = Append(s.stack, f)
    OBVIOUS
  <1>3. u \in Stacks
    BY <1>1, <1>2, AppendType
  <1>4. t \in StateType /\ t.stack = u /\ t.mode = s.mode
    BY <1>1, <1>2, <1>3 DEF StateType
  <1>5. Nested(u) /\ Unbroken(u)
    BY <1>1, <1>2, AppendNested, AppendUnbroken DEF Sound
  <1>6. ModeKept(u, s.mode)
    BY <1>1, <1>2, AppendMode DEF Sound
  <1> QED
    BY <1>4, <1>5, <1>6 DEF Sound

\* A host frame was entered, and the mode was set for it.
LEMMA HostSound ==
    ASSUME NEW s, Sound(s), NEW f \in FrameType, f.kind = "host",
           f.saved = s.mode[f.vm], OnTop(s.stack, f),
           NEW t, t = [stack |-> Append(s.stack, f), ops |-> s.ops,
                       mode |-> [s.mode EXCEPT ![f.vm] = f.coro # None]]
    PROVE  Sound(t)
  <1>1. s.stack \in Stacks /\ s.mode \in [VM -> BOOLEAN]
        /\ s.ops \in [VM -> 0 .. MaxOps]
    BY StateFields DEF Sound
  <1>2. PICK u : u = Append(s.stack, f)
    OBVIOUS
  <1>3. PICK w : w = [s.mode EXCEPT ![f.vm] = f.coro # None]
    OBVIOUS
  <1>4. u \in Stacks /\ w \in [VM -> BOOLEAN]
    BY <1>1, <1>2, <1>3, AppendType
  <1>5. t \in StateType /\ t.stack = u /\ t.mode = w
    BY <1>1, <1>2, <1>3, <1>4 DEF StateType
  <1>6. Nested(u) /\ Unbroken(u)
    BY <1>1, <1>2, AppendNested, AppendUnbroken DEF Sound
  <1>7. ModeKept(u, w)
    BY <1>1, <1>2, <1>3, AppendMode DEF Sound
  <1> QED
    BY <1>5, <1>6, <1>7 DEF Sound

\* An instruction, or the call it made, failed in the innermost run.
FailedOnce(s) == [s EXCEPT !.stack[Base(s.stack)].failed =
                              IF @ > MaxErrors THEN @ ELSE @ + 1]

\* A failure counted against its frame leaves a sound state.
LEMMA FailedSound ==
    ASSUME NEW s, Sound(s), s.stack # <<>>
    PROVE  /\ Sound(FailedOnce(s)) /\ FailedOnce(s).stack # <<>>
           /\ Alike(s.stack, FailedOnce(s).stack)
           /\ FailedOnce(s).ops = s.ops /\ FailedOnce(s).mode = s.mode
           /\ \A i \in 1 .. Len(s.stack) :
                 FailedOnce(s).stack[i].used = s.stack[i].used
  <1>1. s \in StateType /\ s.stack \in Stacks /\ Nested(s.stack)
    BY StateFields DEF Sound
  <1>2. PICK b : b = Base(s.stack)
    OBVIOUS
  <1>3. b \in 1 .. Len(s.stack) /\ s.stack[b].failed \in Nat
    <2>1. b \in 1 .. Len(s.stack)
      BY <1>1, <1>2, BaseFound
    <2>2. s.stack[b] \in FrameType
      BY <1>1, <2>1 DEF Stacks
    <2> QED
      BY <2>1, <2>2, FrameFields
  <1>4. PICK n \in Nat : n = IF s.stack[b].failed > MaxErrors THEN s.stack[b].failed
                             ELSE s.stack[b].failed + 1
    BY <1>3
  <1>5. PICK t : t = SetFailed(s.stack, b, n)
    OBVIOUS
  <1>6. /\ t \in Stacks /\ Alike(s.stack, t)
        /\ \A i \in 1 .. Len(s.stack) : t[i].used = s.stack[i].used
    BY <1>1, <1>3, <1>5, FailedSet
  <1>7. FailedOnce(s) = [s EXCEPT !.stack = t]
    BY <1>2, <1>4, <1>5 DEF FailedOnce, SetFailed
  <1>8. FailedOnce(s) \in StateType /\ FailedOnce(s).stack = t
        /\ FailedOnce(s).ops = s.ops /\ FailedOnce(s).mode = s.mode
    BY <1>1, <1>6, <1>7 DEF StateType
  <1>9. Sound(FailedOnce(s))
    BY <1>6, <1>8, AlikeSound
  <1>10. t # <<>>
    <2>1. Len(t) # 0
      BY <1>1, <1>6, FrontType DEF Alike
    <2> QED
      BY <2>1
  <1> QED
    BY <1>6, <1>8, <1>9, <1>10

\* A machine without frames.
LEMMA EmptySound ==
    ASSUME NEW o \in [VM -> 0 .. MaxOps], NEW m \in [VM -> BOOLEAN]
    PROVE  Sound([stack |-> <<>>, ops |-> o, mode |-> m])
  <1>1. <<>> \in Stacks /\ Len(<<>>) = 0
    BY DEF Stacks
  <1>2. Nested(<<>>) /\ Unbroken(<<>>) /\ ModeKept(<<>>, m)
    BY <1>1 DEF Nested, Unbroken, ModeKept
  <1> QED
    BY <1>1, <1>2 DEF Sound, StateType

\* The frames of a coroutine that yields.
LEMMA YieldParked ==
    ASSUME NEW s, Sound(s), s.stack # <<>>, Last(s.stack).coro # None,
           Last(s.stack).kind # "host"
    PROVE  Last(s.stack).coro \in Coro /\ Parked(s.stack, Last(s.stack).coro)
  <1>1. PICK t \in Stacks : t = s.stack
    BY StateFields DEF Sound
  <1>2. t # <<>> /\ Nested(t) /\ Unbroken(t)
    BY <1>1 DEF Sound
  <1>3. PICK n \in Nat : n = Len(t)
    BY <1>2, FrontType
  <1>4. Last(t) = t[n] /\ t[n] \in FrameType /\ n \in 1 .. n
    BY <1>2, <1>3, FrontType
  <1>5. t[n].coro \in Coro
    BY <1>1, <1>4, FrameFields
  <1>6. ASSUME NEW i \in 1 .. n
        PROVE  t[i].coro = t[n].coro /\ t[i].kind \notin {"sync", "host"}
    <2>1. t[i].coro = t[n].coro /\ t[i].kind # "sync"
      BY <1>1, <1>2, <1>3, <1>4 DEF Unbroken
    <2>2. t[i].kind # "host"
      <3>1. CASE i = n
        BY <1>1, <1>4, <3>1
      <3>2. CASE i # n
        <4>1. i + 1 \in 1 .. n /\ i + 1 \in 2 .. n /\ (i + 1) - 1 = i
          BY <3>2
        <4>2. t[i + 1].kind # "sync"
          BY <1>1, <1>2, <1>3, <1>4, <4>1 DEF Unbroken
        <4> QED
          BY <1>2, <1>3, <4>1, <4>2 DEF Nested
      <3> QED
        BY <3>1, <3>2
    <2> QED
      BY <2>1, <2>2
  <1> QED
    BY <1>1, <1>2, <1>3, <1>4, <1>5, <1>6 DEF Parked

\* Frames of a coroutine are sound on their own, whatever the modes are.
LEMMA ParkedSound ==
    ASSUME NEW c \in Coro, NEW s \in Stacks, Parked(s, c),
           NEW o \in [VM -> 0 .. MaxOps], NEW m \in [VM -> BOOLEAN]
    PROVE  Sound([stack |-> s, ops |-> o, mode |-> m])
  <1>1. PICK t : t = [stack |-> s, ops |-> o, mode |-> m]
    OBVIOUS
  <1>2. t \in StateType /\ t.stack = s /\ t.mode = m
    BY <1>1 DEF StateType
  <1>3. Len(s) \in Nat
    BY DEF Stacks
  <1>4. Nested(s)
    BY DEF Parked
  <1>5. Unbroken(s)
    <2>1. ASSUME NEW i \in 1 .. Len(s), NEW j \in 1 .. i
          PROVE  s[j].kind # "sync" /\ s[j].coro = s[i].coro
      <3>1. j \in 1 .. Len(s)
        BY <1>3
      <3> QED
        BY <3>1 DEF Parked
    <2> QED
      BY <2>1 DEF Unbroken
  <1>6. ModeKept(s, m)
    BY DEF Parked, ModeKept
  <1> QED
    BY <1>1, <1>2, <1>4, <1>5, <1>6 DEF Sound

-----------------------------------------------------------------------------
(* The machine's invariant, however machines are entered.                  *)

Errors == [VM -> 0 .. MaxErrors + 1]

AllParked == \A c \in Coro : suspended[c] # None => Parked(suspended[c].frames, c)

MInv == Sound(Now) /\ errors \in Errors /\ suspended \in [Coro -> Slot] /\ AllParked

\* What it means that the machine is sound.
LEMMA NowFields ==
    ASSUME Sound(Now)
    PROVE  /\ stack \in Stacks /\ ops \in [VM -> 0 .. MaxOps]
           /\ mode \in [VM -> BOOLEAN] /\ Nested(stack) /\ Unbroken(stack)
           /\ ModeKept(stack, mode)
           /\ Now.stack = stack /\ Now.ops = ops /\ Now.mode = mode
  BY StateFields DEF Sound, Now

\* The machine has become a sound one.
LEMMA BecomeNow ==
    ASSUME NEW s, Sound(s), Become(s)
    PROVE  Now' = s /\ Sound(Now')
  <1>1. s = [stack |-> s.stack, ops |-> s.ops, mode |-> s.mode]
    BY DEF Sound, StateType
  <1>2. Now' = [stack |-> s.stack, ops |-> s.ops, mode |-> s.mode]
    BY DEF Now, Become
  <1> QED
    BY <1>1, <1>2

\* A failing frame stays and goes on, or is popped.
LEMMA FailingSound ==
    ASSUME MInv, NEW s, Sound(s), s.stack # <<>>, Failing(s)
    PROVE  /\ Sound(Now') /\ errors' \in Errors /\ UNCHANGED suspended
           /\ Now' = FailedOnce(s) \/ Now' = Popped(FailedOnce(s))
  <1>1. PICK v : v = Last(s.stack).vm
    OBVIOUS
  <1>2. v \in VM
    <2>1. Last(s.stack) \in FrameType
      BY FrontType, StateFields DEF Sound
    <2> QED
      BY <1>1, <2>1, FrameFields
  <1>3. PICK n : n = IF errors[v] > MaxErrors THEN errors[v] ELSE errors[v] + 1
    OBVIOUS
  <1>4. errors[v] \in 0 .. MaxErrors + 1
    BY <1>2 DEF MInv, Errors
  <1>5. n \in 0 .. MaxErrors + 1
    BY <1>3, <1>4
  <1>6. errors' = [errors EXCEPT ![v] = n] /\ UNCHANGED suspended
        /\ Become(IF n > MaxErrors THEN Popped(FailedOnce(s)) ELSE FailedOnce(s))
    BY <1>1, <1>3 DEF Failing, FailedOnce
  <1>7. errors' \in Errors
    BY <1>5, <1>6 DEF MInv, Errors
  <1>8. Sound(FailedOnce(s)) /\ Sound(Popped(FailedOnce(s)))
    BY FailedSound, PoppedSound
  <1> QED
    BY <1>6, <1>7, <1>8, BecomeNow

\* What a step on the innermost frame finds.
LEMMA TopFields ==
    ASSUME Sound(Now), stack # <<>>
    PROVE  /\ Top \in FrameType /\ Top.vm \in VM /\ Top.coro \in Coro \cup {None}
           /\ Len(stack) \in Nat /\ Len(stack) \in 1 .. Len(stack)
           /\ Top = stack[Len(stack)]
  BY NowFields, FrontType, FrameFields DEF Top

\* The innermost frame with its instruction counted.
LEMMA CountedTop ==
    ASSUME Sound(Now), Budgeted
    PROVE  /\ Last(Counted.stack).vm = Top.vm /\ Last(Counted.stack).kind = Top.kind
           /\ Last(Counted.stack).coro = Top.coro /\ Counted.stack # <<>>
           /\ Counted.stack \in Stacks /\ Counted \in StateType
  <1>1. Counted.stack \in Stacks /\ Alike(stack, Counted.stack)
        /\ Counted.stack # <<>> /\ Counted \in StateType
    BY CountedSound, StateFields DEF Sound
  <1>2. stack # <<>>
    BY DEF Budgeted
  <1> QED
    BY <1>1, <1>2, TopFields, FrontType DEF Alike

\* A frame is pushed; the counter or the mode of one machine is set.
LEMMA PushIs ==
    ASSUME NEW s \in StateType, NEW f
    PROVE  Push(s, f) = [stack |-> Append(s.stack, f), ops |-> s.ops, mode |-> s.mode]
  <1>1. s = [stack |-> s.stack, ops |-> s.ops, mode |-> s.mode]
    BY DEF StateType
  <1>2. PICK x : x = Append(s.stack, f)
    OBVIOUS
  <1>3. Push(s, f) = [s EXCEPT !.stack = x]
    BY <1>2 DEF Push
  <1>4. [s EXCEPT !.stack = x] = [stack |-> x, ops |-> s.ops, mode |-> s.mode]
    BY <1>1
  <1> QED
    BY <1>2, <1>3, <1>4

WithOps(r, v, n)  == [r EXCEPT !.ops[v] = n]
WithMode(r, v, b) == [r EXCEPT !.mode[v] = b]

\* A frame pushed, and the counter or the mode of its machine set.
LEMMA PushSet ==
    ASSUME NEW s \in StateType, NEW f, NEW v, NEW n
    PROVE  /\ WithOps(Push(s, f), v, n) =
                 [stack |-> Append(s.stack, f), ops |-> [s.ops EXCEPT ![v] = n],
                  mode |-> s.mode]
           /\ WithMode(Push(s, f), v, n) =
                 [stack |-> Append(s.stack, f), ops |-> s.ops,
                  mode |-> [s.mode EXCEPT ![v] = n]]
  <1>1. PICK x : x = Append(s.stack, f)
    OBVIOUS
  <1>2. PICK o : o = s.ops
    OBVIOUS
  <1>3. PICK m : m = s.mode
    OBVIOUS
  <1>4. PICK r : r = Push(s, f)
    OBVIOUS
  <1>5. r = [stack |-> x, ops |-> o, mode |-> m]
    BY <1>1, <1>2, <1>3, <1>4, PushIs
  <1>6. [r EXCEPT !.ops[v] = n] =
          [stack |-> x, ops |-> [o EXCEPT ![v] = n], mode |-> m]
    BY <1>5
  <1>7. [r EXCEPT !.mode[v] = n] =
          [stack |-> x, ops |-> o, mode |-> [m EXCEPT ![v] = n]]
    BY <1>5
  <1> QED
    BY <1>1, <1>2, <1>3, <1>4, <1>6, <1>7 DEF WithOps, WithMode

\* _gcall_script, in this script.
LEMMA OwnSound ==
    ASSUME MInv, CallOwn
    PROVE  Sound(Now') /\ UNCHANGED <<errors, suspended>>
           /\ Now' = Push(Counted, Frame(Top.vm, "own", Top.coro))
  <1>1. Sound(Now) /\ Budgeted /\ stack # <<>> /\ Top.kind # "host"
    BY DEF MInv, CallOwn, Budgeted
  <1>2. PICK f : f = Frame(Top.vm, "own", Top.coro)
    OBVIOUS
  <1>3. f \in FrameType /\ f.vm = Top.vm /\ f.kind = "own" /\ f.coro = Top.coro
    <2>1. PICK v : v = Top.vm
      OBVIOUS
    <2>2. PICK c : c = Top.coro
      OBVIOUS
    <2>3. v \in VM /\ c \in Coro \cup {None} /\ "own" \in Kinds
      BY <1>1, <2>1, <2>2, TopFields DEF Kinds
    <2> QED
      BY <1>2, <2>1, <2>2, <2>3, FrameNew
  <1>4. OnTop(Counted.stack, f)
    BY <1>1, <1>3, CountedTop DEF OnTop
  <1>5. Push(Counted, f) =
          [stack |-> Append(Counted.stack, f), ops |-> Counted.ops,
           mode |-> Counted.mode]
    <2>1. PICK s : s = Counted
      OBVIOUS
    <2>2. s \in StateType
      BY <1>1, <2>1, CountedTop
    <2>3. Push(s, f) = [stack |-> Append(s.stack, f), ops |-> s.ops, mode |-> s.mode]
      BY <2>2, PushIs
    <2> QED
      BY <2>1, <2>3
  <1>6. Counted.ops \in [VM -> 0 .. MaxOps] /\ Sound(Counted)
    BY <1>1, CountedTop, CountedSound, StateFields
  <1>7. Sound(Push(Counted, f))
    BY <1>3, <1>4, <1>5, <1>6, PushSound
  <1>8. Become(Push(Counted, f)) /\ UNCHANGED <<errors, suspended>>
    BY <1>2 DEF CallOwn
  <1> QED
    BY <1>2, <1>7, <1>8, BecomeNow

\* _gcall_script, in a class that was joined.
JoinedState(j) == [stack |-> Append(Counted.stack, Frame(j, "joined", Top.coro)),
                   ops   |-> [Counted.ops EXCEPT ![j] = Counted.ops[Top.vm]],
                   mode  |-> mode]

\* A call into a joined machine leaves a sound state.
LEMMA JoinedSound ==
    ASSUME MInv, NEW j \in VM, CallJoined(j)
    PROVE  Sound(Now') /\ UNCHANGED <<errors, suspended>> /\ Now' = JoinedState(j)
  <1>1. Sound(Now) /\ Budgeted /\ stack # <<>> /\ Top.kind # "host"
    BY DEF MInv, CallJoined, Budgeted
  <1>2. PICK f : f = Frame(j, "joined", Top.coro)
    OBVIOUS
  <1>3. f \in FrameType /\ f.vm = j /\ f.kind = "joined" /\ f.coro = Top.coro
    <2>1. PICK kind, coro : kind = "joined" /\ coro = Top.coro
      OBVIOUS
    <2>2. kind \in Kinds /\ coro \in Coro \cup {None}
      BY <1>1, <2>1, TopFields DEF Kinds
    <2>3. f = Frame(j, kind, coro)
      BY <1>2, <2>1
    <2>4. f \in FrameType /\ f.vm = j /\ f.kind = kind /\ f.coro = coro
      BY <2>2, <2>3, FrameNew
    <2> QED
      BY <2>1, <2>4
  <1>4. OnTop(Counted.stack, f)
    BY <1>1, <1>3, CountedTop DEF OnTop
  <1>5. Counted.ops \in [VM -> 0 .. MaxOps] /\ Sound(Counted) /\ Counted.mode = mode
    BY <1>1, CountedTop, CountedSound, StateFields
  <1>6. PICK o : o = [Counted.ops EXCEPT ![j] = Counted.ops[Top.vm]]
    OBVIOUS
  <1>7. o \in [VM -> 0 .. MaxOps]
    BY <1>1, <1>5, <1>6, TopFields
  <1>8. Sound(JoinedState(j))
    BY <1>2, <1>3, <1>4, <1>5, <1>6, <1>7, PushSound DEF JoinedState
  <1>9. Become(JoinedState(j)) /\ UNCHANGED <<errors, suspended>>
    <2>1. PICK s : s = Counted
      OBVIOUS
    <2>2. PICK n : n = s.ops[Top.vm]
      OBVIOUS
    <2>3. s \in StateType
      BY <1>1, <2>1, CountedTop
    <2>4. WithOps(Push(s, f), j, n) =
            [stack |-> Append(s.stack, f), ops |-> [s.ops EXCEPT ![j] = n],
             mode |-> s.mode]
      BY <2>3, PushSet
    <2>5. WithOps(Push(s, f), j, n) = JoinedState(j)
      BY <1>2, <1>5, <2>1, <2>2, <2>4 DEF JoinedState
    <2> QED
      BY <1>2, <2>1, <2>2, <2>5 DEF CallJoined, WithOps
  <1> QED
    BY <1>8, <1>9, BecomeNow

\* _gcall_target.
HostFrame == [Frame(Top.vm, "host", Top.coro) EXCEPT !.saved = mode[Top.vm]]

TargetState == [stack |-> Append(Counted.stack, HostFrame),
                ops   |-> Counted.ops,
                mode  |-> [mode EXCEPT ![Top.vm] = Top.coro # None]]

\* A call of a target leaves a sound state under a host frame.
LEMMA TargetSound ==
    ASSUME MInv, CallTarget
    PROVE  /\ Sound(Now') /\ UNCHANGED <<errors, suspended>> /\ Now' = TargetState
           /\ HostFrame \in FrameType /\ HostFrame.vm = Top.vm
           /\ HostFrame.kind = "host" /\ HostFrame.coro = Top.coro
  <1>1. Sound(Now) /\ Budgeted /\ stack # <<>> /\ Top.kind # "host"
        /\ mode \in [VM -> BOOLEAN]
    BY NowFields DEF MInv, CallTarget, Budgeted
  <1>2. PICK g : g = Frame(Top.vm, "host", Top.coro)
    OBVIOUS
  <1>3. g \in FrameType /\ g.vm = Top.vm /\ g.kind = "host" /\ g.coro = Top.coro
    <2>1. PICK v : v = Top.vm
      OBVIOUS
    <2>2. PICK c : c = Top.coro
      OBVIOUS
    <2>3. v \in VM /\ c \in Coro \cup {None} /\ "host" \in Kinds
      BY <1>1, <2>1, <2>2, TopFields DEF Kinds
    <2> QED
      BY <1>2, <2>1, <2>2, <2>3, FrameNew
  <1>4. PICK f : f = HostFrame
    OBVIOUS
  <1>5. mode[Top.vm] \in BOOLEAN
    BY <1>1, TopFields
  <1>6. f \in FrameType /\ f.vm = Top.vm /\ f.kind = "host" /\ f.coro = Top.coro
        /\ f.saved = mode[Top.vm]
    BY <1>2, <1>3, <1>4, <1>5 DEF FrameType, HostFrame
  <1>7. OnTop(Counted.stack, f)
    BY <1>1, <1>6, CountedTop DEF OnTop
  <1>8. Counted.ops \in [VM -> 0 .. MaxOps] /\ Sound(Counted) /\ Counted.mode = mode
    BY <1>1, CountedTop, CountedSound, StateFields
  <1>9. TargetState = [stack |-> Append(Counted.stack, f), ops |-> Counted.ops,
                       mode |-> [Counted.mode EXCEPT ![f.vm] = f.coro # None]]
    BY <1>4, <1>6, <1>8 DEF TargetState
  <1>10. Sound(TargetState)
    BY <1>6, <1>7, <1>8, <1>9, HostSound
  <1>11. Become(TargetState) /\ UNCHANGED <<errors, suspended>>
    <2>1. PICK s : s = Counted
      OBVIOUS
    <2>2. PICK v : v = Top.vm
      OBVIOUS
    <2>3. PICK b : b = (Top.coro # None)
      OBVIOUS
    <2>4. s \in StateType
      BY <1>1, <2>1, CountedTop
    <2>5. WithMode(Push(s, f), v, b) =
            [stack |-> Append(s.stack, f), ops |-> s.ops,
             mode |-> [s.mode EXCEPT ![v] = b]]
      BY <2>4, PushSet
    <2>6. WithMode(Push(s, f), v, b) = TargetState
      BY <1>4, <1>8, <2>1, <2>2, <2>3, <2>5 DEF TargetState
    <2> QED
      BY <1>4, <2>1, <2>2, <2>3, <2>6 DEF CallTarget, HostFrame, WithMode
  <1> QED
    BY <1>4, <1>6, <1>10, <1>11, BecomeNow

\* _start_execution.
Started(s, vm, kind, coro) ==
    [stack |-> Append(s.stack, Frame(vm, kind, coro)),
     ops   |-> [s.ops EXCEPT ![vm] = 0], mode |-> s.mode]

\* Starting a run leaves a sound state, whatever it starts from.
LEMMA StartSound ==
    ASSUME MInv, NEW s, Sound(s), NEW vm \in VM, NEW kind \in Runs,
           NEW coro \in Coro \cup {None}, OnTop(s.stack, Frame(vm, kind, coro)),
           Start(s, vm, kind, coro)
    PROVE  Sound(Now') /\ errors' \in Errors /\ Now' = Started(s, vm, kind, coro)
  <1>1. PICK f : f = Frame(vm, kind, coro)
    OBVIOUS
  <1>2. f \in FrameType /\ f.vm = vm /\ f.kind = kind /\ kind \in Kinds
    BY <1>1, FrameNew DEF Kinds
  <1>3. f.kind # "host"
    BY <1>2 DEF Runs
  <1>4. s \in StateType /\ s.ops \in [VM -> 0 .. MaxOps]
    BY StateFields DEF Sound
  <1>5. PICK o : o = [s.ops EXCEPT ![vm] = 0]
    OBVIOUS
  <1>6. o \in [VM -> 0 .. MaxOps]
    BY <1>4, <1>5
  <1>7. Sound(Started(s, vm, kind, coro))
    BY <1>1, <1>2, <1>3, <1>5, <1>6, PushSound DEF Started
  <1>8. WithOps(Push(s, f), vm, 0) = Started(s, vm, kind, coro)
    BY <1>1, <1>4, PushSet DEF Started
  <1>9. Become(Started(s, vm, kind, coro)) /\ errors' = [errors EXCEPT ![vm] = 0]
    BY <1>1, <1>8 DEF Start, WithOps
  <1>10. errors' \in Errors
    BY <1>9 DEF MInv, Errors
  <1> QED
    BY <1>7, <1>9, <1>10, BecomeNow

\* An event begins on an empty stack.
LEMMA EventSound ==
    ASSUME MInv, stack = <<>>, NEW vm \in VM, NEW coro \in Coro \cup {None},
           Start(Now, vm, "event", coro)
    PROVE  Sound(Now') /\ errors' \in Errors /\ Now' = Started(Now, vm, "event", coro)
  <1>1. PICK s : s = Now
    OBVIOUS
  <1>2. Sound(s) /\ s.stack = <<>> /\ "event" \in Runs /\ "event" \in Kinds
    BY <1>1, NowFields DEF MInv, Runs, Kinds
  <1>3. OnTop(s.stack, Frame(vm, "event", coro))
    BY <1>2, FrameNew DEF OnTop
  <1> QED
    BY <1>1, <1>2, <1>3, StartSound

\* The host has called from its frame.
Entered == [stack |-> SetUsed(stack, Len(stack), 1), ops |-> ops, mode |-> mode]

\* A host frame that has called once is still sound.
LEMMA EnteredSound ==
    ASSUME Sound(Now), InHost
    PROVE  /\ Sound(Entered) /\ Alike(stack, Entered.stack)
           /\ Entered.ops = ops /\ Entered.stack # <<>>
           /\ Last(Entered.stack).kind = "host"
           /\ Entered = [Now EXCEPT !.stack[Len(stack)].used = 1]
           /\ \A i \in 1 .. Len(stack) : stack[i].kind # "host" =>
                 Entered.stack[i].used = stack[i].used
  <1>1. /\ stack \in Stacks /\ stack # <<>> /\ Len(stack) \in 1 .. Len(stack)
        /\ Top = stack[Len(stack)] /\ Top.kind = "host"
        /\ ops \in [VM -> 0 .. MaxOps] /\ mode \in [VM -> BOOLEAN]
    BY NowFields, TopFields DEF InHost
  <1>2. PICK s : s = stack
    OBVIOUS
  <1>3. PICK t : t = SetUsed(s, Len(s), 1)
    OBVIOUS
  <1>4. /\ t \in Stacks /\ Alike(s, t)
        /\ \A i \in 1 .. Len(s) : i # Len(s) => t[i].used = s[i].used
    BY <1>1, <1>2, <1>3, UsedSet
  <1>5. Entered \in StateType /\ Entered.stack = t /\ Entered.mode = mode
        /\ Entered.ops = ops
    BY <1>1, <1>2, <1>3, <1>4 DEF Entered, StateType
  <1>6. Sound(Entered)
    <2>1. Now.stack = stack /\ Now.mode = mode
      BY DEF Now
    <2> QED
      BY <1>2, <1>4, <1>5, <2>1, AlikeSound
  <1>7. t # <<>> /\ Last(t).kind = "host"
    <2>1. Len(t) = Len(s) /\ Len(s) # 0 /\ t[Len(s)].kind = s[Len(s)].kind
      <3>1. s \in Stacks /\ s # <<>> /\ Len(s) \in 1 .. Len(s)
        BY <1>1, <1>2
      <3>2. Len(s) # 0
        BY <3>1, FrontType
      <3> QED
        BY <1>4, <3>1, <3>2 DEF Alike
    <2> QED
      BY <1>1, <1>2, <2>1 DEF Last
  <1>8. Entered = [Now EXCEPT !.stack[Len(stack)].used = 1]
    BY DEF Entered, Now, SetUsed
  <1> QED
    BY <1>1, <1>2, <1>4, <1>5, <1>6, <1>7, <1>8

\* vm.call from a host callback.
LEMMA HostCallSound ==
    ASSUME MInv, NEW vm \in VM, HostCalls(vm)
    PROVE  /\ Sound(Now') /\ errors' \in Errors /\ UNCHANGED suspended
           /\ Now' = Started(Entered, vm, "sync", None)
  <1>1. Sound(Now) /\ InHost /\ UNCHANGED suspended /\ "sync" \in Runs
        /\ "sync" \in Kinds /\ None \in Coro \cup {None}
    BY DEF MInv, HostCalls, Runs, Kinds
  <1>2. PICK s : s = Entered
    OBVIOUS
  <1>3. Sound(s) /\ s.stack # <<>> /\ Last(s.stack).kind = "host"
        /\ Start(s, vm, "sync", None)
    BY <1>1, <1>2, EnteredSound DEF HostCalls
  <1>4. OnTop(s.stack, Frame(vm, "sync", None))
    BY <1>1, <1>3, FrameNew DEF OnTop
  <1> QED
    BY <1>1, <1>2, <1>3, <1>4, StartSound

\* Below a host frame lies the frame that called it.
LEMMA BelowHost ==
    ASSUME Sound(Now), InHost
    PROVE  /\ Sound(Popped(Now)) /\ Popped(Now).stack # <<>>
           /\ Popped(Now).stack = Front(stack) /\ Popped(Now).ops = ops
           /\ Last(Popped(Now).stack).coro = Top.coro
           /\ Last(Popped(Now).stack).kind # "host"
  <1>1. /\ stack \in Stacks /\ stack # <<>> /\ Nested(stack) /\ Top.kind = "host"
        /\ Now.stack = stack /\ Now.ops = ops
    BY NowFields DEF InHost
  <1>2. PICK s : s = stack
    OBVIOUS
  <1>3. PICK n : n = Len(s)
    OBVIOUS
  <1>4. /\ n \in Nat /\ n >= 1 /\ s[n].kind = "host" /\ s[n] = Top /\ Last(s) = s[n]
        /\ n \in 1 .. n
    BY <1>1, <1>2, <1>3, FrontType DEF Top
  <1>5. n \in 2 .. n /\ n - 1 \in 1 .. n
    BY <1>1, <1>2, <1>3, <1>4 DEF Nested
  <1>6. s[n - 1].kind # "host" /\ s[n].coro = s[n - 1].coro
    BY <1>1, <1>2, <1>3, <1>4, <1>5 DEF Nested
  <1>7. PICK t : t = Front(s)
    OBVIOUS
  <1>8. t \in Stacks /\ Len(t) = n - 1 /\ t[n - 1] = s[n - 1] /\ t # <<>>
    <2>1. n - 1 \in 1 .. n - 1
      BY <1>4, <1>5
    <2> QED
      BY <1>1, <1>2, <1>3, <1>4, <1>5, <1>7, <2>1, FrontType
  <1>9. Last(t) = s[n - 1]
    BY <1>8 DEF Last
  <1>10. PICK r : r = Now
    OBVIOUS
  <1>11. Sound(Popped(r)) /\ Popped(r).stack = t /\ Popped(r).ops = ops
    BY <1>1, <1>2, <1>4, <1>7, <1>10, PoppedSound
  <1> QED
    BY <1>2, <1>4, <1>6, <1>7, <1>8, <1>9, <1>10, <1>11

\* A coroutine yields.
LEMMA YieldSound ==
    ASSUME MInv, NEW s, Sound(s), s.stack # <<>>, Last(s.stack).coro # None,
           Last(s.stack).kind # "host", NEW for \in {"sleep", "wait"}, Yield(s, for)
    PROVE  /\ Sound(Now') /\ UNCHANGED errors
           /\ suspended' \in [Coro -> Slot] /\ AllParked'
           /\ Now' = [stack |-> <<>>, ops |-> s.ops, mode |-> s.mode]
           /\ Last(s.stack).coro \in Coro
           /\ suspended' = [suspended EXCEPT ![Last(s.stack).coro] =
                               [frames |-> s.stack, for |-> for]]
  <1>1. PICK c : c = Last(s.stack).coro
    OBVIOUS
  <1>2. c \in Coro /\ Parked(s.stack, c)
    BY <1>1, YieldParked
  <1>3. PICK p : p = [frames |-> s.stack, for |-> for]
    OBVIOUS
  <1>4. s \in StateType /\ s.stack \in Stacks /\ s.ops \in [VM -> 0 .. MaxOps]
        /\ s.mode \in [VM -> BOOLEAN]
    BY StateFields DEF Sound
  <1>5. p \in Slot /\ p.frames = s.stack /\ suspended \in [Coro -> Slot] /\ AllParked
    BY <1>3, <1>4 DEF Slot, Stacks, MInv
  <1>6. suspended' = [suspended EXCEPT ![c] = p] /\ UNCHANGED errors
    BY <1>1, <1>3 DEF Yield
  <1>7. suspended' \in [Coro -> Slot]
    BY <1>2, <1>5, <1>6
  <1>8. ASSUME NEW d \in Coro, suspended'[d] # None
        PROVE  Parked(suspended'[d].frames, d)
    <2>1. CASE d = c
      BY <1>2, <1>5, <1>6, <2>1
    <2>2. CASE d # c
      <3>1. suspended'[d] = suspended[d]
        BY <1>5, <1>6, <2>2
      <3> QED
        BY <1>5, <1>8, <3>1 DEF AllParked
    <2> QED
      BY <2>1, <2>2
  <1>9. PICK e : e = [stack |-> <<>>, ops |-> s.ops, mode |-> s.mode]
    OBVIOUS
  <1>10. [s EXCEPT !.stack = <<>>] = e
    <2>1. s = [stack |-> s.stack, ops |-> s.ops, mode |-> s.mode]
      BY <1>4 DEF StateType
    <2> QED
      BY <1>9, <2>1
  <1>11. Become(e)
    BY <1>10 DEF Yield
  <1>12. Sound(e)
    BY <1>4, <1>9, EmptySound
  <1> QED
    BY <1>1, <1>2, <1>3, <1>6, <1>7, <1>8, <1>9, <1>11, <1>12, BecomeNow DEF AllParked

\* A wait parks the frames of its coroutine.
LEMMA WaitSound ==
    ASSUME MInv, HostWaits
    PROVE  /\ Sound(Now') /\ UNCHANGED errors
           /\ suspended' \in [Coro -> Slot] /\ AllParked'
  <1>1. PICK s : s = Popped(Now)
    OBVIOUS
  <1>2. /\ Sound(s) /\ s.stack # <<>> /\ Last(s.stack).coro # None
        /\ Last(s.stack).kind # "host" /\ Yield(s, "wait")
    BY <1>1, BelowHost DEF MInv, HostWaits
  <1> QED
    BY <1>2, YieldSound

\* So does a sleep.
LEMMA SleepSound ==
    ASSUME MInv, Sleep
    PROVE  /\ Sound(Now') /\ UNCHANGED errors
           /\ suspended' \in [Coro -> Slot] /\ AllParked'
  <1>1. PICK s : s = Counted
    OBVIOUS
  <1>2. Sound(Now) /\ Budgeted /\ Top.coro # None /\ Top.kind # "host"
    BY DEF MInv, Sleep, Budgeted
  <1>3. /\ Sound(s) /\ s.stack # <<>> /\ Last(s.stack).coro # None
        /\ Last(s.stack).kind # "host" /\ Yield(s, "sleep")
    BY <1>1, <1>2, CountedSound, CountedTop DEF Sleep
  <1> QED
    BY <1>3, YieldSound

\* The host pumps a coroutine.
Resumed(c) ==
    [stack |-> IF suspended[c].for = "sleep"
               THEN SetUsed(suspended[c].frames, Base(suspended[c].frames), 0)
               ELSE suspended[c].frames,
     ops   |-> IF suspended[c].for = "sleep"
               THEN [ops EXCEPT ![Last(suspended[c].frames).vm] = 0] ELSE ops,
     mode  |-> mode]

\* What is parked is a run of its coroutine, nested as it was.
LEMMA SlotFields ==
    ASSUME MInv, NEW c \in Coro, suspended[c] # None
    PROVE  /\ suspended[c].frames \in Stacks /\ suspended[c].frames # <<>>
           /\ suspended[c].for \in {"sleep", "wait"}
           /\ Parked(suspended[c].frames, c) /\ Nested(suspended[c].frames)
  <1>1. suspended[c] \in [frames : Seq(FrameType) \ {<<>>}, for : {"sleep", "wait"}]
    BY DEF MInv, Slot
  <1>2. Parked(suspended[c].frames, c)
    BY DEF MInv, AllParked
  <1> QED
    BY <1>1, <1>2 DEF Stacks, Parked

\* Counting does not unpark a run.
LEMMA AlikeParked ==
    ASSUME NEW c, NEW s \in Stacks, NEW t \in Stacks, Alike(s, t), Parked(s, c)
    PROVE  Parked(t, c)
  <1>1. Nested(t)
    BY AlikeNested DEF Parked
  <1> QED
    BY <1>1 DEF Parked, Alike

\* A resume puts the parked frames back on an empty stack.
LEMMA ResumedSound ==
    ASSUME MInv, NEW c \in Coro, Resume(c)
    PROVE  /\ Sound(Now') /\ UNCHANGED errors /\ Now' = Resumed(c)
           /\ suspended' = [suspended EXCEPT ![c] = None]
  <1>1. PICK s : s = suspended[c].frames
    OBVIOUS
  <1>2. /\ s \in Stacks /\ s # <<>> /\ Parked(s, c) /\ Nested(s)
        /\ ops \in [VM -> 0 .. MaxOps] /\ mode \in [VM -> BOOLEAN]
    BY <1>1, SlotFields, NowFields DEF Resume, MInv
  <1>3. UNCHANGED errors /\ suspended' = [suspended EXCEPT ![c] = None]
        /\ mode' = mode
    BY DEF Resume
  <1>4. CASE suspended[c].for = "sleep"
    <2>1. PICK b : b = Base(s)
      OBVIOUS
    <2>2. PICK t : t = SetUsed(s, b, 0)
      OBVIOUS
    <2>3. b \in 1 .. Len(s)
      BY <1>2, <2>1, BaseFound
    <2>4. t \in Stacks /\ Alike(s, t)
      BY <1>2, <2>2, <2>3, UsedSet
    <2>5. Parked(t, c)
      BY <1>2, <2>4, AlikeParked
    <2>6. PICK v : v = Last(s).vm
      OBVIOUS
    <2>7. v \in VM
      <3>1. Last(s) \in FrameType
        BY <1>2, FrontType
      <3> QED
        BY <2>6, <3>1, FrameFields
    <2>8. PICK o : o = [ops EXCEPT ![v] = 0]
      OBVIOUS
    <2>9. o \in [VM -> 0 .. MaxOps]
      BY <1>2, <2>7, <2>8
    <2>10. Resumed(c) = [stack |-> t, ops |-> o, mode |-> mode]
      BY <1>1, <1>4, <2>1, <2>2, <2>6, <2>8 DEF Resumed
    <2>11. Sound(Resumed(c))
      BY <1>2, <2>4, <2>5, <2>9, <2>10, ParkedSound
    <2>12. stack' = t /\ ops' = o
      BY <1>1, <1>4, <2>1, <2>2, <2>6, <2>8 DEF Resume, SetUsed
    <2>13. Become(Resumed(c))
      BY <1>3, <2>10, <2>12 DEF Become
    <2> QED
      BY <1>3, <2>11, <2>13, BecomeNow
  <1>5. CASE suspended[c].for # "sleep"
    <2>1. Resumed(c) = [stack |-> s, ops |-> ops, mode |-> mode]
      BY <1>1, <1>5 DEF Resumed
    <2>2. Sound(Resumed(c))
      BY <1>2, <2>1, ParkedSound
    <2>3. stack' = s /\ ops' = ops
      BY <1>1, <1>5 DEF Resume
    <2>4. Become(Resumed(c))
      BY <1>3, <2>1, <2>3 DEF Become
    <2> QED
      BY <1>3, <2>2, <2>4, BecomeNow
  <1> QED
    BY <1>4, <1>5

\* A coroutine that is resumed or forgotten leaves its slot.
LEMMA ForgetKept ==
    ASSUME MInv, NEW c \in Coro, suspended' = [suspended EXCEPT ![c] = None]
    PROVE  suspended' \in [Coro -> Slot] /\ AllParked'
  <1>1. suspended \in [Coro -> Slot] /\ None \in Slot
    BY DEF MInv, Slot
  <1>2. ASSUME NEW d \in Coro, suspended'[d] # None
        PROVE  Parked(suspended'[d].frames, d)
    <2>1. suspended'[d] = suspended[d]
      BY <1>1, <1>2
    <2> QED
      BY <1>2, <2>1 DEF MInv, AllParked
  <1> QED
    BY <1>1, <1>2 DEF AllParked

\* The invariant holds at the start.
LEMMA InitMInv == Init => MInv
  <1> SUFFICES ASSUME Init PROVE MInv
    OBVIOUS
  <1>1. ops \in [VM -> 0 .. MaxOps] /\ errors \in Errors /\ mode \in [VM -> BOOLEAN]
        /\ stack = <<>>
    BY DEF Init, Errors
  <1>2. suspended \in [Coro -> Slot] /\ AllParked
    BY DEF Init, Slot, AllParked
  <1>3. Sound(Now)
    BY <1>1, EmptySound DEF Now
  <1> QED
    BY <1>1, <1>2, <1>3 DEF MInv

\* While suspended is left alone, so is what was parked there.
LEMMA StillParked ==
    ASSUME MInv, Sound(Now'), errors' \in Errors, UNCHANGED suspended
    PROVE  MInv'
  <1>1. AllParked'
    BY DEF MInv, AllParked
  <1> QED
    BY <1>1 DEF MInv

\* Every step keeps it.
LEMMA MInvStep == MInv /\ [Next]_vars => MInv'
  <1> SUFFICES ASSUME MInv, [Next]_vars PROVE MInv'
    OBVIOUS
  <1>1. Sound(Now) /\ errors \in Errors /\ None \in Coro \cup {None}
    BY DEF MInv
  <1>2. CASE Step
    BY <1>1, <1>2, CountedSound, BecomeNow, StillParked DEF Step
  <1>3. CASE Fail
    <2>1. Sound(Counted) /\ Counted.stack # <<>> /\ Failing(Counted)
      BY <1>1, <1>3, CountedSound DEF Fail
    <2> QED
      BY <2>1, FailingSound, StillParked
  <1>4. CASE Leave
    <2>1. Sound(Popped(Now))
      BY <1>1, <1>4, NowFields, PoppedSound DEF Leave
    <2> QED
      BY <1>1, <1>4, <2>1, BecomeNow, StillParked DEF Leave
  <1>5. CASE CallOwn
    BY <1>1, <1>5, OwnSound, StillParked
  <1>6. CASE CallTarget
    BY <1>1, <1>6, TargetSound, StillParked
  <1>7. CASE Sleep
    BY <1>1, <1>7, SleepSound DEF MInv
  <1>8. ASSUME NEW j \in VM, CallJoined(j)
        PROVE  MInv'
    BY <1>1, <1>8, JoinedSound, StillParked
  <1>9. ASSUME NEW vm \in VM, HostCalls(vm)
        PROVE  MInv'
    BY <1>1, <1>9, HostCallSound, StillParked
  <1>10. CASE HostReturns
    BY <1>1, <1>10, BelowHost, BecomeNow, StillParked DEF HostReturns
  <1>11. CASE HostRaises
    <2>1. Sound(Popped(Now)) /\ Popped(Now).stack # <<>> /\ Failing(Popped(Now))
      BY <1>1, <1>11, BelowHost DEF HostRaises
    <2> QED
      BY <2>1, FailingSound, StillParked
  <1>12. CASE HostWaits
    BY <1>1, <1>12, WaitSound DEF MInv
  <1>13. ASSUME NEW vm \in VM, Call(vm)
         PROVE  MInv'
    BY <1>1, <1>13, EventSound, StillParked DEF Call
  <1>14. ASSUME NEW vm \in VM, NEW c \in Coro, IterCall(vm, c)
         PROVE  MInv'
    BY <1>14, EventSound, StillParked DEF IterCall
  <1>15. ASSUME NEW c \in Coro, Resume(c)
         PROVE  MInv'
    BY <1>1, <1>15, ResumedSound, ForgetKept DEF MInv
  <1>16. ASSUME NEW c \in Coro, Drop(c)
         PROVE  MInv'
    BY <1>1, <1>16, ForgetKept DEF Drop, MInv, Now
  <1>17. CASE UNCHANGED vars
    BY <1>1, <1>17, StillParked DEF vars, Now
  <1> QED
    BY <1>2, <1>3, <1>4, <1>5, <1>6, <1>7, <1>8, <1>9, <1>10, <1>11, <1>12, <1>13,
       <1>14, <1>15, <1>16, <1>17 DEF Next, Run

\* It holds always.
LEMMA AlwaysMInv == Spec => []MInv
  BY InitMInv, MInvStep, PTL DEF Spec

-----------------------------------------------------------------------------
(* What it shows.                                                          *)

\* Frames nest as the calls do, whatever is called from where: an event at the
\* bottom, a synchronous call on a host frame, a coroutine's frames on its own
\* (_start_execution, _gcall_script and _gcall_target).
THEOREM FramesNest == Spec => []MachineInv
  <1>1. MInv => MachineInv
    BY NowFields DEF MInv, MachineInv, AllParked, Stacks
  <1> QED
    BY <1>1, AlwaysMInv, PTL

\* Every action keeps the history.
LEMMA NextHistory ==
    ASSUME Next
    PROVE  History
  <1>1. \A s : Failing(s) => History
    BY DEF Failing
  <1>2. \A s, for : Yield(s, for) => History
    BY DEF Yield
  <1>3. CASE Run
    BY <1>1, <1>2, <1>3
       DEF Run, Step, Fail, Leave, CallOwn, CallTarget, Sleep, CallJoined,
           HostCalls, HostReturns, HostRaises, HostWaits
  <1>4. ASSUME NEW vm \in VM, Call(vm) \/ \E c \in Coro : IterCall(vm, c)
        PROVE  History
    BY <1>4 DEF Call, IterCall
  <1>5. ASSUME NEW c \in Coro, Resume(c) \/ Drop(c)
        PROVE  History
    BY <1>5 DEF Resume, Drop
  <1> QED
    BY <1>3, <1>4, <1>5 DEF Next

\* The history speaks of coroutines only.
LEMMA AlwaysTaken == Spec => [](taken \subseteq Coro)
  <1>1. Init => taken \subseteq Coro
    BY DEF Init
  <1>2. taken \subseteq Coro /\ [Next]_vars => (taken \subseteq Coro)'
    BY NextHistory DEF History, vars
  <1> QED
    BY <1>1, <1>2, PTL DEF Spec

\* Type correctness: no counter passes max_ops, no error count max_errors by
\* more than one, and a suspended coroutine's frames are its own.
THEOREM MachineTypeCorrect == Spec => []TypeOK
  <1>1. MInv /\ taken \subseteq Coro => TypeOK
    <2> SUFFICES ASSUME MInv, taken \subseteq Coro PROVE TypeOK
      OBVIOUS
    <2>1. stack \in Stacks /\ Nested(stack) /\ ops \in [VM -> 0 .. MaxOps]
          /\ mode \in [VM -> BOOLEAN] /\ errors \in [VM -> 0 .. MaxErrors + 1]
      BY NowFields DEF MInv, Errors
    <2>2. ASSUME NEW i \in 1 .. Len(stack)
          PROVE  stack[i].vm \in VM
      <3>1. stack[i] \in FrameType
        BY <2>1 DEF Stacks
      <3> QED
        BY <3>1, FrameFields
    <2>3. stack # <<>> => stack[1].kind = "event"
      <3>1. stack # <<>> => 1 \in 1 .. Len(stack)
        BY <2>1, FrontType
      <3> QED
        BY <2>1, <3>1 DEF Nested
    <2>4. \A c \in Coro : suspended[c] # None =>
             \A i \in 1 .. Len(suspended[c].frames) :
                 suspended[c].frames[i].coro = c
      BY DEF MInv, AllParked, Parked
    <2> QED
      BY <2>1, <2>2, <2>3, <2>4 DEF TypeOK
  <1> QED
    BY <1>1, AlwaysMInv, AlwaysTaken, PTL

\* A host callback is told that it may wait exactly when nothing between it
\* and the host's pump is a synchronous call (call_is_suspendable), also when
\* machines call each other in a circle and modes are saved and restored in
\* between.
THEOREM SuspendableIsRight == Spec => []SuspendableRight
  <1>1. MInv => SuspendableRight
    <2> SUFFICES ASSUME MInv, InHost
                 PROVE  mode[Top.vm] <=> \A i \in 1 .. Len(stack) :
                            stack[i].kind # "sync" /\ stack[i].coro # None
      BY DEF SuspendableRight
    <2>1. /\ stack # <<>> /\ Top.kind = "host" /\ Unbroken(stack)
          /\ ModeKept(stack, mode) /\ Nested(stack) /\ Sound(Now)
      BY NowFields DEF MInv, InHost
    <2>2. PICK n : n = Len(stack)
      OBVIOUS
    <2>3. n \in Nat /\ n \in 1 .. n /\ Top = stack[n]
      BY <2>1, <2>2, TopFields
    <2>4. NoHost(stack, n + 1, n, Top.vm)
      BY <2>3 DEF NoHost
    <2>5. mode[Top.vm] <=> Top.coro # None
      BY <2>1, <2>2, <2>3, <2>4 DEF ModeKept
    <2>6. Top.coro # None => \A i \in 1 .. n : stack[i].kind # "sync"
                                               /\ stack[i].coro # None
      BY <2>1, <2>2, <2>3 DEF Unbroken
    <2> QED
      BY <2>2, <2>3, <2>5, <2>6
  <1> QED
    BY <1>1, AlwaysMInv, PTL

-----------------------------------------------------------------------------
(* Counters, on stacks.                                                    *)

Nowhere(s, vm) == \A i \in 1 .. Len(s) : s[i].vm # vm

\* With other counts, frames lie as they did and runs begin where they did.
LEMMA AlikeApart ==
    ASSUME NEW s \in Stacks, NEW t \in Stacks, Alike(s, t)
    PROVE  /\ Apart(s) => Apart(t)
           /\ \A vm : Nowhere(s, vm) => Nowhere(t, vm)
           /\ \A k \in 1 .. Len(s), i \in 1 .. Len(s) :
                 Begins(t, i, k) => Begins(s, i, k)
  <1>1. Len(s) \in Nat /\ Len(t) = Len(s)
    BY DEF Alike, Stacks
  <1>2. \A i \in 1 .. Len(s) : s[i].vm = t[i].vm /\ s[i].kind = t[i].kind
    BY DEF Alike
  <1>3. ASSUME Apart(s), NEW i \in 1 .. Len(t), NEW k \in i + 1 .. Len(t),
               t[i].vm = t[k].vm, NEW l \in i + 1 .. k
        PROVE  t[l].vm = t[i].vm /\ t[l].kind \in {"own", "host"}
    <2>1. k \in 1 .. Len(s) /\ l \in 1 .. Len(s) /\ i \in 1 .. Len(s)
          /\ k \in i + 1 .. Len(s)
      BY <1>1
    <2>2. s[i].vm = s[k].vm
      BY <1>2, <1>3, <2>1
    <2>3. s[l].vm = s[i].vm /\ s[l].kind \in {"own", "host"}
      BY <1>3, <2>1, <2>2 DEF Apart
    <2> QED
      BY <1>2, <2>1, <2>3
  <1>4. \A vm : Nowhere(s, vm) => Nowhere(t, vm)
    BY <1>1, <1>2 DEF Nowhere
  <1>5. ASSUME NEW k \in 1 .. Len(s), NEW i \in 1 .. Len(s), Begins(t, i, k)
        PROVE  Begins(s, i, k)
    <2>1. ASSUME NEW l \in i + 1 .. k
          PROVE  s[l].kind \notin Runs
      <3>1. l \in 1 .. Len(s)
        BY <1>1
      <3> QED
        BY <1>2, <1>5, <3>1 DEF Begins
    <2> QED
      BY <1>2, <1>5, <2>1 DEF Begins
  <1> QED
    BY <1>3, <1>4, <1>5 DEF Apart

\* Popping a frame keeps the machines apart.
LEMMA FrontApart ==
    ASSUME NEW s \in Stacks, s # <<>>, Apart(s)
    PROVE  Apart(Front(s)) /\ \A vm : Nowhere(s, vm) => Nowhere(Front(s), vm)
  <1>1. PICK t : t = Front(s)
    OBVIOUS
  <1>2. Len(s) \in Nat /\ Len(t) = Len(s) - 1 /\ \A i \in 1 .. Len(s) - 1 : t[i] = s[i]
    BY <1>1, FrontType
  <1>3. ASSUME NEW i \in 1 .. Len(t), NEW k \in i + 1 .. Len(t),
               t[i].vm = t[k].vm, NEW l \in i + 1 .. k
        PROVE  t[l].vm = t[i].vm /\ t[l].kind \in {"own", "host"}
    <2>1. /\ i \in 1 .. Len(s) /\ k \in i + 1 .. Len(s)
          /\ t[i] = s[i] /\ t[k] = s[k] /\ t[l] = s[l]
      BY <1>2
    <2>2. s[i].vm = s[k].vm
      BY <1>3, <2>1
    <2>3. s[l].vm = s[i].vm /\ s[l].kind \in {"own", "host"}
      BY <2>1, <2>2 DEF Apart
    <2> QED
      BY <2>1, <2>3
  <1>4. \A vm : Nowhere(s, vm) => Nowhere(t, vm)
    BY <1>2 DEF Nowhere
  <1> QED
    BY <1>1, <1>3, <1>4 DEF Apart

\* A frame that is left hands its count to the frame below, or has none.
LEMMA FrontCount ==
    ASSUME NEW s \in Stacks, s # <<>>, Nested(s), Apart(s),
           NEW T, NEW o \in [VM -> 0 .. MaxOps], CountKept(s, o, T),
           NEW w, w = IF Last(s).kind = "joined"
                      THEN [o EXCEPT ![Last(Front(s)).vm] = o[Last(s).vm]] ELSE o
    PROVE  CountKept(Front(s), w, T)
  <1>1. PICK t : t = Front(s)
    OBVIOUS
  <1>2. PICK n \in Nat : n + 1 = Len(s)
    BY FrontType
  <1>3. Len(t) = n /\ (\A i \in 1 .. n : t[i] = s[i])
        /\ Last(s) = s[n + 1] /\ s[n + 1] \in FrameType
    <2>1. Len(s) - 1 = n
      BY <1>2
    <2> QED
      BY <1>1, <1>2, <2>1, FrontType
  <1>4. n # 0 => Last(t) = s[n]
    <2>1. n # 0 => n \in 1 .. n
      OBVIOUS
    <2> QED
      BY <1>3, <2>1 DEF Last
  <1>5. \A i \in 1 .. n + 1 : s[i].vm \in VM
    <2>1. \A i \in 1 .. n + 1 : s[i] \in FrameType
      BY <1>2 DEF Stacks
    <2> QED
      BY <2>1, FrameFields
  <1>6. ASSUME NEW k \in 1 .. n, k = n \/ t[k + 1].kind = "sync", NEW i \in 1 .. k,
               Begins(t, i, k), t[i].coro \notin T
        PROVE  w[t[k].vm] = t[i].used
    <2>1. n # 0 /\ k \in 1 .. n + 1 /\ i \in 1 .. n /\ t[k] = s[k] /\ t[i] = s[i]
      BY <1>3
    <2>2. Begins(s, i, k)
      <3>1. \A l \in i + 1 .. k : l \in 1 .. n
        BY <2>1
      <3> QED
        BY <1>3, <1>6, <2>1, <3>1 DEF Begins
    <2>3. CASE k # n
      <3>1. k + 1 \in 1 .. n /\ k + 1 \in k + 1 .. n /\ n \in k + 1 .. n + 1
            /\ k + 1 \in k + 1 .. n + 1
        BY <2>3
      <3>2. s[k + 1].kind = "sync"
        BY <1>3, <1>6, <2>3, <3>1
      <3>3. o[s[k].vm] = s[i].used
        BY <1>2, <1>6, <2>1, <2>2, <3>2 DEF CountKept
      <3>4. s[k].vm # s[n].vm
        <4>1. s[k].vm = s[n].vm => s[k + 1].kind \in {"own", "host"}
          BY <1>2, <2>1, <3>1 DEF Apart
        <4> QED
          BY <3>2, <4>1
      <3>5. w[s[k].vm] = o[s[k].vm]
        BY <1>1, <1>4, <1>5, <2>1, <3>4
      <3> QED
        BY <2>1, <3>3, <3>5
    <2>4. CASE k = n
      <3>1. n + 1 \in 1 .. Len(s) /\ n + 1 \in 2 .. Len(s) /\ (n + 1) - 1 = n
            /\ n + 1 # 1 /\ n \in 1 .. Len(s) /\ i \in 1 .. n + 1
        BY <1>2, <2>1
      <3>2. s[n + 1].kind # "event"
        BY <3>1 DEF Nested
      <3>3. CASE s[n + 1].kind = "sync"
        <4>1. o[s[n].vm] = s[i].used
          BY <1>6, <2>1, <2>2, <2>4, <3>1, <3>3 DEF CountKept
        <4>2. w = o
          BY <1>3, <3>3
        <4> QED
          BY <2>1, <2>4, <4>1, <4>2
      <3>4. CASE s[n + 1].kind # "sync"
        <4>1. s[n + 1].kind \notin Runs
          BY <3>2, <3>4 DEF Runs
        <4>2. Begins(s, i, n + 1)
          <5>1. ASSUME NEW l \in i + 1 .. n + 1
                PROVE  s[l].kind \notin Runs
            <6>1. l = n + 1 \/ l \in i + 1 .. n
              OBVIOUS
            <6> QED
              BY <2>2, <2>4, <4>1, <6>1 DEF Begins
          <5> QED
            BY <2>2, <5>1 DEF Begins
        <4>3. o[s[n + 1].vm] = s[i].used
          BY <1>2, <1>6, <2>1, <3>1, <4>2 DEF CountKept
        <4>4. CASE s[n + 1].kind = "joined"
          <5>1. w = [o EXCEPT ![s[n].vm] = o[s[n + 1].vm]]
            BY <1>1, <1>3, <1>4, <2>1, <4>4
          <5>2. w[s[n].vm] = o[s[n + 1].vm]
            BY <1>5, <2>1, <2>4, <5>1
          <5> QED
            BY <2>1, <2>4, <4>3, <5>2
        <4>5. CASE s[n + 1].kind # "joined"
          <5>1. s[n + 1].vm = s[n].vm
            BY <3>1, <3>4, <4>5 DEF Nested
          <5>2. w = o
            BY <1>3, <4>5
          <5> QED
            BY <2>1, <2>4, <4>3, <5>1, <5>2
        <4> QED
          BY <4>4, <4>5
      <3> QED
        BY <3>3, <3>4
    <2> QED
      BY <2>3, <2>4
  <1> QED
    BY <1>1, <1>3, <1>6 DEF CountKept

\* A frame is entered in the machine of the frame below, or in one that has
\* none.
LEMMA AppendApart ==
    ASSUME NEW s \in Stacks, NEW f \in FrameType, Apart(s),
           Nowhere(s, f.vm) \/ (s # <<>> /\ f.vm = Last(s).vm
                                /\ f.kind \in {"own", "host"})
    PROVE  /\ Apart(Append(s, f))
           /\ \A vm : Nowhere(s, vm) /\ f.vm # vm => Nowhere(Append(s, f), vm)
  <1>1. PICK t : t = Append(s, f)
    OBVIOUS
  <1>2. PICK n \in Nat : n = Len(s)
    BY AppendType
  <1>3. Len(t) = n + 1 /\ (\A i \in 1 .. n : t[i] = s[i]) /\ t[n + 1] = f
    BY <1>1, <1>2, AppendType
  <1>4. s = <<>> <=> n = 0
    BY <1>2 DEF Stacks
  <1>5. n # 0 => Last(s) = s[n]
    BY <1>2 DEF Last
  <1>6. ASSUME NEW i \in 1 .. n + 1, NEW k \in i + 1 .. n + 1,
               t[i].vm = t[k].vm, NEW l \in i + 1 .. k
        PROVE  t[l].vm = t[i].vm /\ t[l].kind \in {"own", "host"}
    <2>1. i \in 1 .. n /\ t[i] = s[i] /\ n # 0
      BY <1>3
    <2>2. CASE k # n + 1
      <3>1. k \in i + 1 .. n /\ t[k] = s[k] /\ t[l] = s[l]
        BY <1>3, <2>2
      <3> QED
        BY <1>2, <1>6, <2>1, <3>1 DEF Apart
    <2>3. CASE k = n + 1
      <3>1. s[i].vm = f.vm
        BY <1>3, <1>6, <2>1, <2>3
      <3>2. f.vm = s[n].vm /\ f.kind \in {"own", "host"}
        BY <1>2, <1>4, <1>5, <2>1, <3>1 DEF Nowhere
      <3>3. CASE l = n + 1
        BY <1>3, <2>1, <3>1, <3>2, <3>3
      <3>4. CASE l # n + 1
        <4>1. l \in i + 1 .. n /\ n \in i + 1 .. n /\ t[l] = s[l]
          BY <1>3, <2>3, <3>4
        <4> QED
          BY <1>2, <2>1, <3>1, <3>2, <4>1 DEF Apart
      <3> QED
        BY <3>3, <3>4
    <2> QED
      BY <2>2, <2>3
  <1>7. ASSUME NEW vm, Nowhere(s, vm), f.vm # vm
        PROVE  Nowhere(t, vm)
    <2>1. ASSUME NEW i \in 1 .. n + 1
          PROVE  t[i].vm # vm
      <3>1. i = n + 1 \/ i \in 1 .. n
        OBVIOUS
      <3> QED
        BY <1>2, <1>3, <1>7, <3>1 DEF Nowhere
    <2> QED
      BY <1>3, <2>1 DEF Nowhere
  <1> QED
    BY <1>1, <1>3, <1>6, <1>7 DEF Apart

\* A frame of the same machine goes on with the counter; one of another
\* machine begins a run, or takes the count over.
LEMMA AppendCount ==
    ASSUME NEW s \in Stacks, NEW f \in FrameType, OnTop(s, f),
           NEW T, NEW o \in [VM -> 0 .. MaxOps], CountKept(s, o, T),
           NEW n \in 0 .. MaxOps, NEW w,
           \/ s # <<>> /\ f.kind \in {"own", "host"} /\ f.vm = Last(s).vm /\ w = o
           \/ /\ Nowhere(s, f.vm) /\ w = [o EXCEPT ![f.vm] = n]
              /\ n = IF f.kind \in Runs THEN f.used ELSE o[Last(s).vm]
    PROVE  CountKept(Append(s, f), w, T)
  <1>1. PICK t : t = Append(s, f)
    OBVIOUS
  <1>2. PICK m \in Nat : m = Len(s)
    BY AppendType
  <1>3. Len(t) = m + 1 /\ (\A i \in 1 .. m : t[i] = s[i]) /\ t[m + 1] = f
    BY <1>1, <1>2, AppendType
  <1>4. s = <<>> <=> m = 0
    BY <1>2 DEF Stacks
  <1>5. m # 0 => Last(s) = s[m]
    BY <1>2 DEF Last
  <1>6. f.vm \in VM /\ \A i \in 1 .. m : s[i].vm \in VM /\ w[s[i].vm] = o[s[i].vm]
    <2>1. \A i \in 1 .. m : s[i] \in FrameType
      BY <1>2 DEF Stacks
    <2>2. f.vm \in VM /\ \A i \in 1 .. m : s[i].vm \in VM
      BY <2>1, FrameFields
    <2> QED
      BY <1>2, <2>2 DEF Nowhere
  <1>7. ASSUME NEW k \in 1 .. m, k = m \/ t[k + 1].kind = "sync",
               k = m => f.kind = "sync" \/ w = o, NEW i \in 1 .. k, Begins(t, i, k),
               t[i].coro \notin T
        PROVE  w[t[k].vm] = t[i].used
    <2>1. t[k] = s[k] /\ t[i] = s[i] /\ i \in 1 .. m
      BY <1>3
    <2>2. Begins(s, i, k)
      <3>1. \A l \in i + 1 .. k : l \in 1 .. m
        BY <2>1
      <3> QED
        BY <1>3, <1>7, <2>1, <3>1 DEF Begins
    <2>3. k = Len(s) \/ s[k + 1].kind = "sync"
      <3>1. k # m => k + 1 \in 1 .. m
        OBVIOUS
      <3> QED
        BY <1>2, <1>3, <1>7, <3>1
    <2>4. o[s[k].vm] = s[i].used
      BY <1>2, <1>7, <2>1, <2>2, <2>3 DEF CountKept
    <2> QED
      BY <1>6, <2>1, <2>4
  <1>8. ASSUME NEW i \in 1 .. m + 1, Begins(t, i, m + 1), t[i].coro \notin T
        PROVE  w[f.vm] = t[i].used
    <2>1. CASE f.kind \in Runs
      <3>1. i = m + 1
        <4>1. i # m + 1 => m + 1 \in i + 1 .. m + 1
          OBVIOUS
        <4> QED
          BY <1>3, <1>8, <2>1, <4>1 DEF Begins
      <3>2. w = [o EXCEPT ![f.vm] = f.used]
        BY <2>1 DEF Runs
      <3> QED
        BY <1>3, <1>6, <3>1, <3>2
    <2>2. CASE f.kind \notin Runs
      <3>1. m # 0
        BY <1>4, <2>2 DEF OnTop, Runs
      <3>2. i \in 1 .. m
        <4>1. i # m + 1
          BY <1>3, <1>8, <2>2 DEF Begins
        <4> QED
          BY <4>1
      <3>3. Begins(s, i, m)
        <4>1. t[i] = s[i] /\ \A l \in i + 1 .. m : l \in 1 .. m /\ l \in i + 1 .. m + 1
          BY <1>3, <3>2
        <4> QED
          BY <1>3, <1>8, <4>1 DEF Begins
      <3>4. o[s[m].vm] = s[i].used
        <4>1. m \in 1 .. Len(s)
          BY <1>2, <3>1
        <4> QED
          BY <1>2, <1>3, <1>8, <3>2, <3>3, <4>1 DEF CountKept
      <3>5. w[f.vm] = o[s[m].vm]
        BY <1>4, <1>5, <1>6, <2>2, <3>1
      <3> QED
        BY <1>3, <3>2, <3>4, <3>5
    <2> QED
      BY <2>1, <2>2
  <1>9. ASSUME NEW k \in 1 .. m + 1, k = m + 1 \/ t[k + 1].kind = "sync",
               NEW i \in 1 .. k, Begins(t, i, k), t[i].coro \notin T
        PROVE  w[t[k].vm] = t[i].used
    <2>1. CASE k = m + 1
      BY <1>3, <1>8, <1>9, <2>1
    <2>2. CASE k # m + 1
      <3>1. k \in 1 .. m /\ (k = m => k + 1 = m + 1)
        BY <2>2
      <3>2. k = m => f.kind = "sync"
        BY <1>3, <1>9, <2>2, <3>1
      <3> QED
        BY <1>7, <1>9, <2>2, <3>1, <3>2
    <2> QED
      BY <2>1, <2>2
  <1> QED
    BY <1>1, <1>3, <1>9 DEF CountKept

\* An instruction is counted for the run it belongs to, and by the counter of
\* the machine that executes it.
OneMore(s, t, b) ==
    /\ t[b].used = More(s[b].used)
    /\ \A i \in 1 .. Len(s) : i # b => t[i].used = s[i].used

\* A statement counted in its run is counted in its machine.
LEMMA CountCount ==
    ASSUME NEW s \in Stacks, s # <<>>, Nested(s), Apart(s),
           NEW T, NEW o \in [VM -> 0 .. MaxOps], CountKept(s, o, T),
           NEW t \in Stacks, Alike(s, t), OneMore(s, t, Base(s)),
           NEW v, v = Last(s).vm, o[v] < MaxOps, NEW w, w = [o EXCEPT ![v] = o[v] + 1]
    PROVE  CountKept(t, w, T)
  <1> DEFINE b == Base(s)
  <1> HIDE DEF b
  <1>0. /\ t[b].used = More(s[b].used)
        /\ \A i \in 1 .. Len(s) : i # b => t[i].used = s[i].used
    BY DEF OneMore, b
  <1>1. PICK n : n = Len(s)
    OBVIOUS
  <1>2. n \in Nat /\ n \in 1 .. n /\ Last(s) = s[n] /\ Len(t) = n
        /\ \A i \in 1 .. n : s[i].vm \in VM
    <2>1. n \in Nat /\ n \in 1 .. n /\ Last(s) = s[n] /\ Len(t) = n
      BY <1>1, FrontType DEF Alike
    <2>2. \A i \in 1 .. n : s[i] \in FrameType
      BY <1>1 DEF Stacks
    <2> QED
      BY <2>1, <2>2, FrameFields
  <1>3. b \in 1 .. n /\ Begins(s, b, n) /\ \A i \in 1 .. n : Begins(s, i, n) => i = b
    BY <1>1, BaseFound DEF b
  <1>4. s[b].coro \notin T => o[s[n].vm] = s[b].used /\ More(s[b].used) = s[b].used + 1
    <2>1. s[b].coro \notin T => o[s[n].vm] = s[b].used
      BY <1>1, <1>2, <1>3 DEF CountKept
    <2>2. o[s[n].vm] \in 0 .. MaxOps /\ o[s[n].vm] < MaxOps /\ MaxOps \in Nat
      BY <1>2
    <2> QED
      BY <2>1, <2>2 DEF More
  <1>5. \A i \in 1 .. n : t[i].vm = s[i].vm /\ t[i].kind = s[i].kind
                          /\ t[i].coro = s[i].coro
    BY <1>1 DEF Alike
  <1>6. ASSUME NEW k \in 1 .. n, k = n \/ t[k + 1].kind = "sync", NEW i \in 1 .. k,
               Begins(t, i, k), t[i].coro \notin T
        PROVE  w[t[k].vm] = t[i].used
    <2>1. i \in 1 .. n
      BY <1>2
    <2>2. Begins(s, i, k)
      BY <1>1, <1>6, <2>1, AlikeApart
    <2>3. CASE k = n
      <3>1. i = b
        BY <1>3, <2>1, <2>2, <2>3
      <3>2. w[s[n].vm] = o[s[n].vm] + 1
        BY <1>2
      <3> QED
        BY <1>0, <1>3, <1>4, <1>5, <1>6, <2>3, <3>1, <3>2
    <2>4. CASE k # n
      <3>1. k + 1 \in 1 .. n /\ n \in k + 1 .. n /\ k + 1 \in k + 1 .. n
        BY <1>2, <2>4
      <3>2. s[k + 1].kind = "sync"
        BY <1>5, <1>6, <2>4, <3>1
      <3>3. o[s[k].vm] = s[i].used
        BY <1>1, <1>5, <1>6, <2>1, <2>2, <3>2 DEF CountKept
      <3>4. s[k].vm # s[n].vm
        <4>1. s[k].vm = s[n].vm => s[k + 1].kind \in {"own", "host"}
          BY <1>1, <3>1 DEF Apart
        <4> QED
          BY <3>2, <4>1
      <3>5. i # b
        <4>1. k + 1 \notin b + 1 .. n
          BY <1>3, <3>2 DEF Begins, Runs
        <4>2. i # k + 1 /\ i <= k
          OBVIOUS
        <4> QED
          BY <1>3, <3>1, <4>1, <4>2
      <3>6. w[s[k].vm] = o[s[k].vm]
        BY <1>2, <3>4
      <3> QED
        BY <1>0, <1>1, <1>5, <2>1, <3>3, <3>5, <3>6
    <2> QED
      BY <2>3, <2>4
  <1> QED
    BY <1>2, <1>6 DEF CountKept, b

-----------------------------------------------------------------------------
(* Counters, as long as no machine is entered while it has a frame.        *)

\* The counters of s belong to the runs of s, but for those of T.
Own(s, T) ==
    /\ Apart(s.stack) /\ CountKept(s.stack, s.ops, T)
    /\ \A i \in 1 .. Len(s.stack) :
          s.stack[i].kind \in Runs /\ s.stack[i].coro \notin T =>
              s.stack[i].used <= MaxOps

\* So do those of the coroutines that wait.
Others(s, T) ==
    \A c \in Coro : Waits(c) /\ c \notin T =>
        /\ s.ops[WaitsIn(c)] = suspended[c].frames[1].used
        /\ suspended[c].frames[1].used <= MaxOps
        /\ Nowhere(s.stack, WaitsIn(c))

Kept(s, T) == Own(s, T) /\ Others(s, T)

ParkedApart == \A c \in Coro : suspended[c] # None => Apart(suspended[c].frames)

CInv == Kept(Now, taken) /\ ParkedApart

\* A coroutine waits in one of the machines.
LEMMA WaitsInVM ==
    ASSUME MInv, NEW c \in Coro, suspended[c] # None
    PROVE  WaitsIn(c) \in VM
  <1>1. Last(suspended[c].frames) \in FrameType
    BY SlotFields, FrontType
  <1> QED
    BY <1>1, FrameFields DEF WaitsIn

\* A machine that may be entered has no frame.
LEMMA FreeApart ==
    ASSUME ~ Reentry, NEW vm \in VM, Free(vm)
    PROVE  Nowhere(stack, vm)
  BY DEF Free, InUse, Nowhere

\* At the start of a step, what it takes can be left out already.
LEMMA TakenKept ==
    ASSUME MInv, CInv, History
    PROVE  Kept(Now, taken')
  <1>1. Kept(Now, taken) /\ Now.stack = stack
    BY NowFields DEF CInv, MInv
  <1>2. CASE stack # <<>>
    <2>1. \A x : x \in taken => x \in taken'
      BY <1>2 DEF History, Anew
    <2>2. CountKept(stack, Now.ops, taken')
      BY <1>1, <2>1 DEF Kept, Own, CountKept
    <2>3. Own(Now, taken')
      BY <1>1, <2>1, <2>2 DEF Kept, Own
    <2>4. Others(Now, taken')
      BY <1>1, <2>1 DEF Kept, Others
    <2> QED
      BY <2>3, <2>4 DEF Kept
  <1>3. CASE stack = <<>>
    <2>1. Len(<<>>) = 0
      OBVIOUS
    <2>2. Own(Now, taken')
      BY <1>1, <1>3, <2>1 DEF Own, Apart, CountKept
    <2>3. \A c \in Coro : Waits(c) /\ c \notin taken' => c \notin taken
      BY DEF History, Anew
    <2>4. Others(Now, taken')
      BY <1>1, <2>3 DEF Kept, Others
    <2> QED
      BY <2>2, <2>4 DEF Kept
  <1> QED
    BY <1>2, <1>3

\* What a step takes: the counts of those that wait in the machines in use.
LEMMA EnteredTaken ==
    ASSUME History, NEW c \in Coro, c \notin taken', Waits(c), Waits(c)'
    PROVE  \A i \in 1 .. Len(stack') : stack'[i].vm # WaitsIn(c)
  BY DEF History, InUse

\* The machine of a frame that is pushed is one of them.
LEMMA PushedTaken ==
    ASSUME History, UNCHANGED suspended, NEW s \in Stacks, NEW f \in FrameType,
           stack' = Append(s, f)
    PROVE  \A c \in Coro : Waits(c) /\ c \notin taken' => WaitsIn(c) # f.vm
  <1>1. Len(s) + 1 \in 1 .. Len(stack') /\ stack'[Len(s) + 1] = f
    BY AppendType
  <1> SUFFICES ASSUME NEW c \in Coro, Waits(c), c \notin taken'
               PROVE  WaitsIn(c) # f.vm
    OBVIOUS
  <1>2. Waits(c)'
    BY DEF Waits
  <1> QED
    BY <1>1, <1>2, EnteredTaken

\* Only the count of a frame that begins no run differs.
LEMMA AlikeKept ==
    ASSUME NEW T, NEW s, s.stack \in Stacks, Kept(s, T), NEW t, t.stack \in Stacks,
           Alike(s.stack, t.stack), t.ops = s.ops,
           \A i \in 1 .. Len(s.stack) : s.stack[i].kind \in Runs =>
               t.stack[i].used = s.stack[i].used
    PROVE  Kept(t, T)
  <1>1. PICK a : a = s.stack
    OBVIOUS
  <1>2. PICK b : b = t.stack
    OBVIOUS
  <1>3. a \in Stacks /\ b \in Stacks /\ Alike(a, b) /\ Len(a) \in Nat /\ Len(b) = Len(a)
        /\ \A i \in 1 .. Len(a) : a[i].kind \in Runs => b[i].used = a[i].used
    BY <1>1, <1>2 DEF Alike, Stacks
  <1>4. Apart(b) /\ (\A vm : Nowhere(a, vm) => Nowhere(b, vm))
    BY <1>1, <1>3, AlikeApart DEF Kept, Own
  <1>5. \A i \in 1 .. Len(a) : /\ a[i].vm = b[i].vm /\ a[i].kind = b[i].kind
                               /\ a[i].coro = b[i].coro
    BY <1>3 DEF Alike
  <1>6. ASSUME NEW k \in 1 .. Len(b), k = Len(b) \/ b[k + 1].kind = "sync",
               NEW i \in 1 .. k, Begins(b, i, k), b[i].coro \notin T
        PROVE  t.ops[b[k].vm] = b[i].used
    <2>1. k \in 1 .. Len(a) /\ i \in 1 .. Len(a)
          /\ (k # Len(a) => k + 1 \in 1 .. Len(a))
      BY <1>3
    <2>2. Begins(a, i, k)
      BY <1>3, <1>6, <2>1, AlikeApart
    <2>3. k = Len(a) \/ a[k + 1].kind = "sync"
      BY <1>3, <1>5, <1>6, <2>1
    <2>4. s.ops[a[k].vm] = a[i].used
      BY <1>1, <1>5, <1>6, <2>1, <2>2, <2>3 DEF Kept, Own, CountKept
    <2>5. a[i].kind \in Runs
      BY <2>2 DEF Begins
    <2> QED
      BY <1>3, <1>5, <2>1, <2>4, <2>5
  <1>7. \A i \in 1 .. Len(b) : b[i].kind \in Runs /\ b[i].coro \notin T =>
                                b[i].used <= MaxOps
    BY <1>1, <1>3, <1>5 DEF Kept, Own
  <1>8. Own(t, T)
    BY <1>2, <1>4, <1>6, <1>7 DEF Own, CountKept
  <1>9. Others(t, T)
    BY <1>1, <1>2, <1>4 DEF Kept, Others
  <1> QED
    BY <1>8, <1>9 DEF Kept

\* A pop leaves every counter with its run.
LEMMA PoppedKept ==
    ASSUME MInv, NEW T, NEW s, Sound(s), s.stack # <<>>, Kept(s, T)
    PROVE  Kept(Popped(s), T)
  <1>1. PICK a : a = s.stack
    OBVIOUS
  <1>2. PICK b : b = Front(a)
    OBVIOUS
  <1>3. PICK w : w = IF Last(a).kind = "joined"
                     THEN [s.ops EXCEPT ![Last(b).vm] = s.ops[Last(a).vm]]
                     ELSE s.ops
    OBVIOUS
  <1>4. a \in Stacks /\ a # <<>> /\ Nested(a) /\ s.ops \in [VM -> 0 .. MaxOps]
        /\ Apart(a) /\ CountKept(a, s.ops, T)
    BY <1>1, StateFields DEF Sound, Kept, Own
  <1>5. Popped(s).stack = b /\ Popped(s).ops = w
    BY <1>1, <1>2, <1>3, PoppedSound
  <1>6. Apart(b) /\ \A vm : Nowhere(a, vm) => Nowhere(b, vm)
    BY <1>2, <1>4, FrontApart
  <1>7. CountKept(b, w, T)
    BY <1>2, <1>3, <1>4, FrontCount
  <1>8. PICK n \in Nat : n + 1 = Len(a)
    <2>1. Len(a) \in Nat /\ Len(a) >= 1
      BY <1>4, FrontType
    <2>2. Len(a) - 1 \in Nat /\ (Len(a) - 1) + 1 = Len(a)
      BY <2>1
    <2> QED
      BY <2>2
  <1>9. Len(b) = n /\ (\A i \in 1 .. n : b[i] = a[i]) /\ Last(a) = a[n + 1]
    <2>1. Len(a) - 1 = n
      BY <1>8
    <2> QED
      BY <1>2, <1>4, <1>8, <2>1, FrontType
  <1>10. \A i \in 1 .. n : b[i].kind \in Runs /\ b[i].coro \notin T =>
                           b[i].used <= MaxOps
    <2>1. \A i \in 1 .. n : i \in 1 .. Len(a)
      BY <1>8
    <2> QED
      BY <1>1, <1>9, <2>1 DEF Kept, Own
  <1>11. ASSUME NEW c \in Coro, Waits(c), c \notin T
         PROVE  w[WaitsIn(c)] = suspended[c].frames[1].used
    <2>1. s.ops[WaitsIn(c)] = suspended[c].frames[1].used
          /\ Nowhere(a, WaitsIn(c))
      BY <1>1, <1>11 DEF Kept, Others
    <2>2. WaitsIn(c) \in VM
      BY <1>11, WaitsInVM DEF Waits
    <2>3. CASE Last(a).kind = "joined"
      <3>1. n # 0
        <4>1. n = 0 => Last(a).kind = "event"
          BY <1>4, <1>8, <1>9 DEF Nested
        <4> QED
          BY <2>3, <4>1
      <3>2. n \in 1 .. n /\ Last(b) = a[n] /\ n \in 1 .. Len(a)
        <4>1. n \in 1 .. n /\ n \in 1 .. Len(a)
          BY <1>8, <3>1
        <4> QED
          BY <1>9, <4>1 DEF Last
      <3>3. a[n].vm # WaitsIn(c)
        BY <2>1, <3>2 DEF Nowhere
      <3>4. w = [s.ops EXCEPT ![a[n].vm] = s.ops[Last(a).vm]]
        BY <1>3, <2>3, <3>2
      <3> QED
        BY <1>4, <2>1, <2>2, <3>3, <3>4
    <2>4. CASE Last(a).kind # "joined"
      BY <1>3, <2>1, <2>4
    <2> QED
      BY <2>3, <2>4
  <1>12. Own(Popped(s), T)
    BY <1>5, <1>6, <1>7, <1>9, <1>10 DEF Own
  <1>13. Others(Popped(s), T)
    BY <1>1, <1>5, <1>6, <1>11 DEF Kept, Others
  <1> QED
    BY <1>12, <1>13 DEF Kept

\* So does counting a statement.
LEMMA CountedKept ==
    ASSUME MInv, NEW T, Kept(Now, T), Budgeted
    PROVE  Kept(Counted, T)
  <1>1. PICK a : a = stack
    OBVIOUS
  <1>2. PICK b : b = Counted.stack
    OBVIOUS
  <1>3. PICK w : w = [ops EXCEPT ![Last(a).vm] = ops[Last(a).vm] + 1]
    OBVIOUS
  <1>4. PICK j : j = Base(a)
    OBVIOUS
  <1>5. /\ a \in Stacks /\ a # <<>> /\ Nested(a) /\ ops \in [VM -> 0 .. MaxOps]
        /\ Apart(a) /\ CountKept(a, ops, T) /\ Sound(Now)
        /\ \A i \in 1 .. Len(a) : a[i].kind \in Runs /\ a[i].coro \notin T =>
                                    a[i].used <= MaxOps
    BY <1>1, NowFields DEF MInv, Kept, Own, Budgeted
  <1>6. /\ b \in Stacks /\ Alike(a, b) /\ Counted.ops = w
        /\ b[j].used = More(a[j].used)
        /\ \A i \in 1 .. Len(a) : i # j => b[i].used = a[i].used
    <2>1. Counted.stack \in Stacks
      BY <1>5, CountedTop
    <2>2. Counted.ops = [ops EXCEPT ![Top.vm] = ops[Top.vm] + 1]
          /\ Alike(stack, Counted.stack)
          /\ Counted.stack[Base(stack)].used = More(stack[Base(stack)].used)
          /\ \A i \in 1 .. Len(stack) : i # Base(stack) =>
                Counted.stack[i].used = stack[i].used
      BY <1>5, CountedSound
    <2>3. Top = Last(a)
      BY <1>1 DEF Top
    <2> QED
      BY <1>1, <1>2, <1>3, <1>4, <2>1, <2>2, <2>3
  <1>9. PICK v \in VM : v = Last(a).vm /\ ops[v] < MaxOps /\ v = a[Len(a)].vm
                        /\ Len(a) \in 1 .. Len(a)
    <2>1. Last(a) \in FrameType /\ Last(a) = a[Len(a)] /\ Len(a) \in 1 .. Len(a)
      BY <1>5, FrontType
    <2> QED
      BY <1>1, <2>1, FrameFields DEF Budgeted, Top
  <1>7. CountKept(b, w, T) /\ (a[j].coro \notin T => ops[v] = a[j].used)
    <2>1. PICK o : o = ops
      OBVIOUS
    <2>2. PICK u : u = Last(a).vm
      OBVIOUS
    <2>3. /\ o \in [VM -> 0 .. MaxOps] /\ CountKept(a, o, T) /\ o[u] < MaxOps
          /\ w = [o EXCEPT ![u] = o[u] + 1] /\ u = v
      BY <1>3, <1>5, <1>9, <2>1, <2>2
    <2>4. a \in Stacks /\ a # <<>> /\ Nested(a) /\ Apart(a)
      BY <1>5
    <2>5. b \in Stacks /\ Alike(a, b) /\ OneMore(a, b, Base(a))
      BY <1>4, <1>6 DEF OneMore
    <2>6. CountKept(b, w, T)
      BY <2>2, <2>3, <2>4, <2>5, CountCount
    <2>7. a[j].coro \notin T => ops[v] = a[j].used
      <3>1. j \in 1 .. Len(a) /\ Begins(a, j, Len(a))
        BY <1>4, <2>4, BaseFound
      <3> QED
        BY <1>5, <1>9, <3>1 DEF CountKept
    <2> QED
      BY <2>6, <2>7
  <1>8. /\ Apart(b) /\ (\A vm : Nowhere(a, vm) => Nowhere(b, vm)) /\ Len(b) = Len(a)
        /\ \A i \in 1 .. Len(a) : a[i].kind = b[i].kind /\ a[i].coro = b[i].coro
    BY <1>5, <1>6, AlikeApart DEF Alike
  <1>10. a[j].coro \notin T => b[j].used <= MaxOps
    <2>1. ops[v] \in 0 .. MaxOps /\ MaxOps \in Nat
      BY <1>5
    <2> QED
      BY <1>6, <1>7, <1>9, <2>1 DEF More
  <1>11. \A i \in 1 .. Len(b) : b[i].kind \in Runs /\ b[i].coro \notin T =>
                                 b[i].used <= MaxOps
    BY <1>5, <1>6, <1>8, <1>10
  <1>12. Own(Counted, T)
    BY <1>2, <1>6, <1>7, <1>8, <1>11 DEF Own
  <1>13. ASSUME NEW c \in Coro, Waits(c), c \notin T
         PROVE  /\ Counted.ops[WaitsIn(c)] = suspended[c].frames[1].used
                /\ suspended[c].frames[1].used <= MaxOps
                /\ Nowhere(Counted.stack, WaitsIn(c))
    <2>1. ops[WaitsIn(c)] = suspended[c].frames[1].used /\ Nowhere(a, WaitsIn(c))
          /\ suspended[c].frames[1].used <= MaxOps
      BY <1>1, <1>5, <1>13, NowFields DEF Kept, Others
    <2>2. WaitsIn(c) \in VM
      BY <1>13, WaitsInVM DEF Waits
    <2>3. WaitsIn(c) # v
      BY <1>9, <2>1 DEF Nowhere
    <2>4. w[WaitsIn(c)] = ops[WaitsIn(c)]
      BY <1>3, <1>5, <1>9, <2>2, <2>3
    <2> QED
      BY <1>2, <1>6, <1>8, <2>1, <2>4
  <1> QED
    BY <1>12, <1>13 DEF Kept, Others

\* The machine that is entered is one that no one uses.
LEMMA EnterKept ==
    ASSUME MInv, NEW T, NEW s, Sound(s), Kept(s, T), NEW f \in FrameType,
           OnTop(s.stack, f), Nowhere(s.stack, f.vm),
           \A c \in Coro : Waits(c) /\ c \notin T => WaitsIn(c) # f.vm,
           f.used = 0, NEW n \in 0 .. MaxOps,
           n = IF f.kind \in Runs THEN 0 ELSE s.ops[Last(s.stack).vm],
           NEW t, t.stack = Append(s.stack, f), t.ops = [s.ops EXCEPT ![f.vm] = n]
    PROVE  Kept(t, T)
  <1>1. PICK a : a = s.stack
    OBVIOUS
  <1>2. PICK b : b = Append(a, f)
    OBVIOUS
  <1>3. PICK w : w = [s.ops EXCEPT ![f.vm] = n]
    OBVIOUS
  <1>4. /\ a \in Stacks /\ s.ops \in [VM -> 0 .. MaxOps] /\ Apart(a)
        /\ CountKept(a, s.ops, T) /\ Nowhere(a, f.vm)
        /\ \A i \in 1 .. Len(a) : a[i].kind \in Runs /\ a[i].coro \notin T =>
                                    a[i].used <= MaxOps
    BY <1>1, StateFields DEF Sound, Kept, Own
  <1>5. Apart(b) /\ \A vm : Nowhere(a, vm) /\ f.vm # vm => Nowhere(b, vm)
    BY <1>2, <1>4, AppendApart
  <1>6. CountKept(b, w, T)
    BY <1>1, <1>2, <1>3, <1>4, AppendCount
  <1>7. Len(b) = Len(a) + 1 /\ (\A i \in 1 .. Len(a) : b[i] = a[i])
        /\ b[Len(a) + 1] = f /\ Len(a) \in Nat
    BY <1>2, <1>4, AppendType
  <1>8. ASSUME NEW i \in 1 .. Len(b), b[i].kind \in Runs, b[i].coro \notin T
        PROVE  b[i].used <= MaxOps
    <2>1. i = Len(a) + 1 \/ i \in 1 .. Len(a)
      BY <1>7
    <2> QED
      BY <1>4, <1>7, <1>8, <2>1
  <1>9. Own(t, T)
    BY <1>1, <1>2, <1>3, <1>5, <1>6, <1>8 DEF Own
  <1>10. ASSUME NEW c \in Coro, Waits(c), c \notin T
         PROVE  w[WaitsIn(c)] = suspended[c].frames[1].used /\ Nowhere(b, WaitsIn(c))
    <2>1. s.ops[WaitsIn(c)] = suspended[c].frames[1].used /\ Nowhere(a, WaitsIn(c))
      BY <1>1, <1>10 DEF Kept, Others
    <2>2. WaitsIn(c) \in VM /\ WaitsIn(c) # f.vm
      BY <1>10, WaitsInVM DEF Waits
    <2> QED
      BY <1>3, <1>4, <1>5, <2>1, <2>2
  <1> QED
    BY <1>1, <1>2, <1>3, <1>9, <1>10 DEF Kept, Others

\* A frame is entered in the machine of the one below.
LEMMA StayKept ==
    ASSUME MInv, NEW T, NEW s, Sound(s), s.stack # <<>>, Kept(s, T),
           NEW f \in FrameType, OnTop(s.stack, f), f.kind \in {"own", "host"}, f.vm = Last(s.stack).vm,
           NEW t, t.stack = Append(s.stack, f), t.ops = s.ops
    PROVE  Kept(t, T)
  <1>1. PICK a : a = s.stack
    OBVIOUS
  <1>2. PICK b : b = Append(a, f)
    OBVIOUS
  <1>4. /\ a \in Stacks /\ a # <<>> /\ s.ops \in [VM -> 0 .. MaxOps] /\ Apart(a)
        /\ CountKept(a, s.ops, T)
        /\ \A i \in 1 .. Len(a) : a[i].kind \in Runs /\ a[i].coro \notin T =>
                                    a[i].used <= MaxOps
    BY <1>1, StateFields DEF Sound, Kept, Own
  <1>5. Apart(b) /\ \A vm : Nowhere(a, vm) /\ f.vm # vm => Nowhere(b, vm)
    BY <1>1, <1>2, <1>4, AppendApart
  <1>6. CountKept(b, s.ops, T)
    <2>1. 0 \in 0 .. MaxOps
      OBVIOUS
    <2> QED
      BY <1>1, <1>2, <1>4, <2>1, AppendCount
  <1>7. Len(b) = Len(a) + 1 /\ (\A i \in 1 .. Len(a) : b[i] = a[i])
        /\ b[Len(a) + 1] = f /\ Len(a) \in Nat
    BY <1>2, <1>4, AppendType
  <1>8. ASSUME NEW i \in 1 .. Len(b), b[i].kind \in Runs, b[i].coro \notin T
        PROVE  b[i].used <= MaxOps
    <2>1. i = Len(a) + 1 \/ i \in 1 .. Len(a)
      BY <1>7
    <2>2. i # Len(a) + 1
      BY <1>7, <1>8 DEF Runs
    <2> QED
      BY <1>4, <1>7, <1>8, <2>1, <2>2
  <1>9. Own(t, T)
    BY <1>1, <1>2, <1>5, <1>6, <1>8 DEF Own
  <1>10. ASSUME NEW c \in Coro, Waits(c), c \notin T
         PROVE  Nowhere(b, WaitsIn(c))
    <2>1. Nowhere(a, WaitsIn(c))
      BY <1>1, <1>10 DEF Kept, Others
    <2>2. f.vm # WaitsIn(c)
      BY <1>1, <1>4, <2>1, FrontType DEF Nowhere
    <2> QED
      BY <1>5, <2>1, <2>2
  <1> QED
    BY <1>1, <1>2, <1>9, <1>10 DEF Kept, Others

\* A coroutine yields what it counted.
LEMMA YieldKept ==
    ASSUME MInv, NEW s, Sound(s), s.stack # <<>>, Last(s.stack).coro # None,
           Last(s.stack).kind # "host", NEW for \in {"sleep", "wait"}, Yield(s, for),
           Kept(s, taken'), ParkedApart
    PROVE  CInv'
  <1>1. PICK a : a = s.stack
    OBVIOUS
  <1>2. PICK c : c = Last(a).coro
    OBVIOUS
  <1>3. PICK v : v = Last(a).vm
    OBVIOUS
  <1>4. /\ c \in Coro /\ a \in Stacks /\ a # <<>> /\ Parked(a, c) /\ Nested(a)
        /\ suspended \in [Coro -> Slot]
    BY <1>1, <1>2, YieldParked, StateFields DEF Sound, MInv
  <1>5. PICK p : p = [frames |-> a, for |-> for]
    OBVIOUS
  <1>6. suspended' = [suspended EXCEPT ![c] = p]
    BY <1>1, <1>2, <1>5 DEF Yield
  <1>7. suspended'[c] = p /\ p.frames = a
        /\ \A d \in Coro : d # c => suspended'[d] = suspended[d]
    BY <1>4, <1>5, <1>6
  <1>8. Now'.stack = <<>> /\ Now'.ops = s.ops
    <2>1. PICK e : e = [stack |-> <<>>, ops |-> s.ops, mode |-> s.mode]
      OBVIOUS
    <2>2. Now' = e
      BY <2>1, YieldSound
    <2> QED
      BY <2>1, <2>2
  <1>9. Len(a) \in 1 .. Len(a) /\ 1 \in 1 .. Len(a) /\ Last(a) = a[Len(a)]
        /\ Len(a) \in Nat
    BY <1>4, FrontType
  <1>10. Begins(a, 1, Len(a))
    <2>1. a[1].kind \in Runs
      BY <1>4, <1>9 DEF Nested, Runs
    <2>2. ASSUME NEW l \in 1 + 1 .. Len(a)
          PROVE  a[l].kind \notin Runs
      <3>1. l \in 1 .. Len(a) /\ l # 1
        BY <1>9
      <3>2. a[l].kind # "event" /\ a[l].kind # "sync"
        BY <1>4, <3>1 DEF Nested, Parked
      <3> QED
        BY <3>2 DEF Runs
    <2> QED
      BY <2>1, <2>2 DEF Begins
  <1>11. Apart(a) /\ (c \notin taken' => s.ops[v] = a[1].used /\ a[1].used <= MaxOps)
    <2>1. /\ Apart(a) /\ CountKept(a, s.ops, taken')
          /\ \A i \in 1 .. Len(a) : a[i].kind \in Runs /\ a[i].coro \notin taken' =>
                                      a[i].used <= MaxOps
      BY <1>1 DEF Kept, Own
    <2>2. a[1].coro = c
      BY <1>4, <1>9 DEF Parked
    <2>3. c \notin taken' => a[1].used <= MaxOps
      BY <1>9, <1>10, <2>1, <2>2 DEF Begins
    <2>4. c \notin taken' => s.ops[a[Len(a)].vm] = a[1].used
      BY <1>9, <1>10, <2>1, <2>2 DEF CountKept
    <2> QED
      BY <1>3, <1>9, <2>1, <2>3, <2>4
  <1>12. ASSUME NEW d \in Coro, Waits(d), d \notin taken'
         PROVE  /\ s.ops[WaitsIn(d)] = suspended[d].frames[1].used
                /\ suspended[d].frames[1].used <= MaxOps
    BY <1>12 DEF Kept, Others
  <1>13. /\ WaitsIn(c)' = v
         /\ \A d \in Coro : d # c => (Waits(d)' <=> Waits(d)) /\ WaitsIn(d)' = WaitsIn(d)
    <2>1. WaitsIn(c)' = Last(suspended'[c].frames).vm
      BY DEF WaitsIn
    <2>2. \A d \in Coro : d # c => (Waits(d)' <=> Waits(d)) /\ WaitsIn(d)' = WaitsIn(d)
      BY <1>7 DEF Waits, WaitsIn
    <2> QED
      BY <1>3, <1>7, <2>1, <2>2
  <1>14. Own(Now, taken)'
    <2>1. Own(Now', taken') <=> Own(Now, taken)'
      BY DEF Own
    <2>2. Len(<<>>) = 0
      OBVIOUS
    <2> QED
      BY <1>8, <2>1, <2>2 DEF Own, Apart, CountKept
  <1>15. ASSUME NEW d \in Coro, Waits(d)', d \notin taken'
         PROVE  /\ Now'.ops[WaitsIn(d)'] = suspended'[d].frames[1].used
                /\ suspended'[d].frames[1].used <= MaxOps
                /\ Nowhere(Now'.stack, WaitsIn(d)')
    <2>1. Nowhere(Now'.stack, WaitsIn(d)')
      BY <1>8 DEF Nowhere
    <2>2. CASE d = c
      BY <1>7, <1>8, <1>11, <1>13, <1>15, <2>1, <2>2
    <2>3. CASE d # c
      BY <1>7, <1>8, <1>12, <1>13, <1>15, <2>1, <2>3
    <2> QED
      BY <2>2, <2>3
  <1>16. ASSUME NEW d \in Coro, suspended'[d] # None
         PROVE  Apart(suspended'[d].frames)
    BY <1>7, <1>11, <1>16 DEF ParkedApart
  <1> QED
    BY <1>14, <1>15, <1>16 DEF CInv, Kept, Others, ParkedApart

\* The frames of a coroutine begin with its event.
LEMMA ParkedBegins ==
    ASSUME MInv, NEW c \in Coro, NEW a \in Stacks, a # <<>>, Parked(a, c)
    PROVE  /\ Begins(a, 1, Len(a)) /\ Base(a) = 1 /\ 1 \in 1 .. Len(a)
           /\ \A i \in 1 .. Len(a) : a[i].kind \in Runs <=> i = 1
  <1>1. Nested(a) /\ 1 \in 1 .. Len(a) /\ Len(a) \in Nat
    BY FrontType DEF Parked
  <1>2. \A i \in 1 .. Len(a) : a[i].kind \in Runs <=> i = 1
    BY <1>1 DEF Parked, Nested, Runs
  <1>3. Begins(a, 1, Len(a))
    <2>1. \A l \in 1 + 1 .. Len(a) : l \in 1 .. Len(a) /\ l # 1
      BY <1>1
    <2> QED
      BY <1>1, <1>2, <2>1 DEF Begins
  <1> QED
    BY <1>1, <1>2, <1>3, BaseFound

\* A coroutine goes on with its own count, or with none behind a sleep.
LEMMA ResumedKept ==
    ASSUME MInv, CInv, History, NEW c \in Coro, Resume(c)
    PROVE  CInv'
  <1>1. PICK a : a = suspended[c].frames
    OBVIOUS
  <1>2. PICK v : v = Last(a).vm
    OBVIOUS
  <1>3. /\ a \in Stacks /\ a # <<>> /\ Parked(a, c) /\ suspended[c] # None
        /\ ops \in [VM -> 0 .. MaxOps] /\ suspended \in [Coro -> Slot]
        /\ Apart(a) /\ Nested(a)
    BY <1>1, SlotFields, NowFields DEF Resume, MInv, CInv, ParkedApart
  <1>4. /\ Begins(a, 1, Len(a)) /\ Base(a) = 1 /\ 1 \in 1 .. Len(a)
        /\ \A i \in 1 .. Len(a) : a[i].kind \in Runs <=> i = 1
    BY <1>3, ParkedBegins
  <1>5. Len(a) \in Nat /\ Len(a) \in 1 .. Len(a) /\ v = a[Len(a)].vm /\ v \in VM
    <2>1. Last(a) \in FrameType /\ Last(a) = a[Len(a)] /\ Len(a) \in Nat
          /\ Len(a) \in 1 .. Len(a)
      BY <1>3, FrontType
    <2> QED
      BY <1>2, <2>1, FrameFields
  <1>6. Now' = Resumed(c) /\ suspended' = [suspended EXCEPT ![c] = None]
    BY ResumedSound
  <1>7. /\ ~ Waits(c)' /\ suspended'[c] = None
        /\ \A d \in Coro : d # c => /\ suspended'[d] = suspended[d]
                                    /\ Waits(d)' <=> Waits(d)
                                    /\ WaitsIn(d)' = WaitsIn(d)
    <2>1. suspended'[c] = None /\ \A d \in Coro : d # c => suspended'[d] = suspended[d]
      BY <1>3, <1>6
    <2> QED
      BY <2>1 DEF Waits, WaitsIn
  <1>8. Kept(Now, taken') /\ Now.ops = ops /\ Now'.stack = stack'
    BY TakenKept, NowFields DEF MInv, Now
  <1>9. PICK t : t = Now'.stack
    OBVIOUS
  <1>10. PICK w : w = Now'.ops
    OBVIOUS
  <1>11. /\ t \in Stacks /\ Alike(a, t) /\ Parked(t, c) /\ t # <<>>
         /\ c \notin taken' => t[1].used <= MaxOps /\ w[v] = t[1].used
         /\ \A u \in VM : u # v => w[u] = ops[u]
    <2>1. CASE suspended[c].for = "sleep"
      <3>1. t = SetUsed(a, 1, 0) /\ w = [ops EXCEPT ![v] = 0]
        BY <1>1, <1>2, <1>4, <1>6, <1>9, <1>10, <2>1 DEF Resumed
      <3>2. t \in Stacks /\ Alike(a, t) /\ t[1].used = 0 /\ 0 <= MaxOps
        BY <1>3, <1>4, <3>1, UsedSet
      <3>3. Parked(t, c)
        BY <1>3, <3>2, AlikeParked
      <3>4. t # <<>>
        <4>1. Len(t) # 0
          BY <1>5, <3>2 DEF Alike
        <4> QED
          BY <4>1
      <3>5. w[v] = 0 /\ \A u \in VM : u # v => w[u] = ops[u]
        BY <1>3, <1>5, <3>1
      <3> QED
        BY <3>2, <3>3, <3>4, <3>5
    <2>2. CASE suspended[c].for # "sleep"
      <3>1. t = a /\ w = ops
        BY <1>1, <1>6, <1>9, <1>10, <2>2 DEF Resumed
      <3>2. Waits(c) /\ WaitsIn(c) = v
        BY <1>1, <1>2, <1>3, <2>2, SlotFields DEF Waits, WaitsIn
      <3>3. c \notin taken' => ops[v] = a[1].used /\ a[1].used <= MaxOps
        BY <1>1, <1>8, <3>2 DEF Kept, Others
      <3>4. Alike(a, a)
        BY DEF Alike
      <3> QED
        BY <1>3, <3>1, <3>3, <3>4
    <2> QED
      BY <2>1, <2>2
  <1>12. Apart(t) /\ (\A u : Nowhere(a, u) => Nowhere(t, u)) /\ Len(t) = Len(a)
         /\ t[Len(t)].vm = v
    BY <1>3, <1>5, <1>11, AlikeApart DEF Alike
  <1>13. \A i \in 1 .. Len(t) : (t[i].kind \in Runs <=> i = 1) /\ t[i].coro = c
    BY <1>11, ParkedBegins DEF Parked
  <1>14. ASSUME NEW k \in 1 .. Len(t), k = Len(t) \/ t[k + 1].kind = "sync",
                NEW i \in 1 .. k, Begins(t, i, k), t[i].coro \notin taken'
         PROVE  w[t[k].vm] = t[i].used
    <2>1. k = Len(t)
      <3>1. k # Len(t) => k + 1 \in 1 .. Len(t) /\ k + 1 # 1
        BY <1>5, <1>12
      <3> QED
        BY <1>13, <1>14, <3>1 DEF Runs
    <2>2. i = 1 /\ c \notin taken'
      <3>1. i \in 1 .. Len(t)
        BY <1>5, <1>12
      <3> QED
        BY <1>13, <1>14, <3>1 DEF Begins
    <2> QED
      BY <1>11, <1>12, <2>1, <2>2
  <1>15. \A i \in 1 .. Len(t) : t[i].kind \in Runs /\ t[i].coro \notin taken' =>
                                 t[i].used <= MaxOps
    BY <1>11, <1>13
  <1>16. Own(Now, taken)'
    BY <1>9, <1>10, <1>12, <1>14, <1>15 DEF Own, CountKept
  <1>17. ASSUME NEW d \in Coro, Waits(d)', d \notin taken'
         PROVE  /\ w[WaitsIn(d)'] = suspended'[d].frames[1].used
                /\ suspended'[d].frames[1].used <= MaxOps
                /\ Nowhere(t, WaitsIn(d)')
    <2>1. d # c
      BY <1>7, <1>17
    <2>2. Waits(d) /\ WaitsIn(d)' = WaitsIn(d) /\ suspended'[d] = suspended[d]
      BY <1>7, <1>17, <2>1
    <2>3. Nowhere(t, WaitsIn(d))
      BY <1>8, <1>9, <1>17, <2>2, EnteredTaken DEF Nowhere
    <2>4. WaitsIn(d) \in VM /\ WaitsIn(d) # v
      <3>1. WaitsIn(d) \in VM
        BY <2>2, WaitsInVM DEF Waits
      <3>2. Len(t) \in 1 .. Len(t)
        BY <1>5, <1>12
      <3> QED
        BY <1>12, <2>3, <3>1, <3>2 DEF Nowhere
    <2>5. ops[WaitsIn(d)] = suspended[d].frames[1].used
          /\ suspended[d].frames[1].used <= MaxOps
      BY <1>8, <1>17, <2>2 DEF Kept, Others
    <2> QED
      BY <1>11, <2>2, <2>3, <2>4, <2>5
  <1>18. ASSUME NEW d \in Coro, suspended'[d] # None
         PROVE  Apart(suspended'[d].frames)
    BY <1>7, <1>18 DEF ParkedApart, CInv
  <1> QED
    BY <1>9, <1>10, <1>16, <1>17, <1>18 DEF CInv, Kept, Others, ParkedApart

\* A coroutine is forgotten.
LEMMA DroppedKept ==
    ASSUME MInv, CInv, History, NEW c \in Coro, Drop(c)
    PROVE  CInv'
  <1>1. /\ suspended \in [Coro -> Slot] /\ suspended' = [suspended EXCEPT ![c] = None]
        /\ UNCHANGED <<ops, stack, mode>>
    BY DEF MInv, Drop
  <1>2. /\ ~ Waits(c)' /\ suspended'[c] = None
        /\ \A d \in Coro : d # c => /\ suspended'[d] = suspended[d]
                                    /\ Waits(d)' <=> Waits(d)
                                    /\ WaitsIn(d)' = WaitsIn(d)
    <2>1. suspended'[c] = None /\ \A d \in Coro : d # c => suspended'[d] = suspended[d]
      BY <1>1
    <2> QED
      BY <2>1 DEF Waits, WaitsIn
  <1>3. Now' = Now /\ Kept(Now, taken')
    BY <1>1, TakenKept DEF Now
  <1>4. Own(Now, taken)'
    <2>1. Own(Now', taken') <=> Own(Now, taken)'
      BY DEF Own
    <2> QED
      BY <1>3, <2>1 DEF Kept
  <1>5. ASSUME NEW d \in Coro, Waits(d)', d \notin taken'
        PROVE  /\ Now'.ops[WaitsIn(d)'] = suspended'[d].frames[1].used
               /\ suspended'[d].frames[1].used <= MaxOps
               /\ Nowhere(Now'.stack, WaitsIn(d)')
    <2>1. Waits(d) /\ WaitsIn(d)' = WaitsIn(d) /\ suspended'[d] = suspended[d]
      BY <1>2, <1>5
    <2>2. /\ Now.ops[WaitsIn(d)] = suspended[d].frames[1].used
          /\ suspended[d].frames[1].used <= MaxOps
          /\ Nowhere(Now.stack, WaitsIn(d))
      BY <1>3, <1>5, <2>1 DEF Kept, Others
    <2> QED
      BY <1>3, <2>1, <2>2
  <1>6. ASSUME NEW d \in Coro, suspended'[d] # None
        PROVE  Apart(suspended'[d].frames)
    BY <1>2, <1>6 DEF ParkedApart, CInv
  <1> QED
    BY <1>4, <1>5, <1>6 DEF CInv, Kept, Others, ParkedApart

\* Any other step leaves the coroutines alone.
LEMMA StillKept ==
    ASSUME CInv, NEW s, Kept(s, taken'), Now' = s, UNCHANGED suspended
    PROVE  CInv'
  <1>1. Own(Now, taken)'
    <2>1. Own(Now, taken)' <=> Own(Now', taken')
      BY DEF Own
    <2> QED
      BY <2>1 DEF Kept
  <1>2. Others(Now, taken)' /\ ParkedApart'
    BY DEF CInv, Kept, Others, Waits, WaitsIn, ParkedApart
  <1> QED
    BY <1>1, <1>2 DEF CInv, Kept

\* So does a failure, whether its frame stays or goes.
LEMMA FailedKept ==
    ASSUME MInv, NEW T, NEW s, Sound(s), s.stack # <<>>, Kept(s, T)
    PROVE  Kept(FailedOnce(s), T) /\ Kept(Popped(FailedOnce(s)), T)
  <1>1. PICK t : t = FailedOnce(s)
    OBVIOUS
  <1>2. /\ Sound(t) /\ t.stack # <<>> /\ Alike(s.stack, t.stack) /\ t.ops = s.ops
        /\ \A i \in 1 .. Len(s.stack) : t.stack[i].used = s.stack[i].used
    BY <1>1, FailedSound
  <1>3. s.stack \in Stacks /\ t.stack \in Stacks
    BY <1>2, StateFields DEF Sound
  <1>4. Kept(t, T)
    BY <1>2, <1>3, AlikeKept
  <1> QED
    BY <1>1, <1>2, <1>4, PoppedKept

\* So does a call of a machine's own function.
LEMMA OwnKept ==
    ASSUME MInv, CInv, History, CallOwn
    PROVE  CInv'
  <1>1. PICK s : s = Counted
    OBVIOUS
  <1>2. PICK f : f = Frame(Top.vm, "own", Top.coro)
    OBVIOUS
  <1>3. Sound(Now) /\ Budgeted /\ stack # <<>> /\ Top.kind # "host"
        /\ Kept(Now, taken')
    BY TakenKept DEF MInv, CallOwn, Budgeted
  <1>4. /\ Sound(s) /\ s \in StateType /\ Kept(s, taken') /\ s.stack # <<>>
        /\ Last(s.stack).vm = Top.vm /\ Last(s.stack).kind = Top.kind
        /\ Last(s.stack).coro = Top.coro
    BY <1>1, <1>3, CountedSound, CountedKept, CountedTop
  <1>5. f \in FrameType /\ f.vm = Top.vm /\ f.kind = "own" /\ f.coro = Top.coro
    <2>1. PICK v : v = Top.vm
      OBVIOUS
    <2>2. PICK c : c = Top.coro
      OBVIOUS
    <2>3. v \in VM /\ c \in Coro \cup {None} /\ "own" \in Kinds
      BY <1>3, <2>1, <2>2, TopFields DEF Kinds
    <2> QED
      BY <1>2, <2>1, <2>2, <2>3, FrameNew
  <1>6. OnTop(s.stack, f)
    BY <1>3, <1>4, <1>5 DEF OnTop
  <1>7. PICK t : t = Push(s, f)
    OBVIOUS
  <1>8. t.stack = Append(s.stack, f) /\ t.ops = s.ops
    BY <1>4, <1>7, PushIs
  <1>9. Kept(t, taken')
    BY <1>4, <1>5, <1>6, <1>8, StayKept
  <1>10. Now' = t /\ UNCHANGED suspended
    BY <1>1, <1>2, <1>7, OwnSound
  <1> QED
    BY <1>9, <1>10, StillKept

\* So does a call of a target.
LEMMA TargetKept ==
    ASSUME MInv, CInv, History, CallTarget
    PROVE  CInv'
  <1>1. PICK s : s = Counted
    OBVIOUS
  <1>2. PICK f : f = HostFrame
    OBVIOUS
  <1>3. Sound(Now) /\ Budgeted /\ stack # <<>> /\ Top.kind # "host"
        /\ Kept(Now, taken')
    BY TakenKept DEF MInv, CallTarget, Budgeted
  <1>4. /\ Sound(s) /\ s \in StateType /\ Kept(s, taken') /\ s.stack # <<>>
        /\ Last(s.stack).vm = Top.vm /\ Last(s.stack).kind = Top.kind
        /\ Last(s.stack).coro = Top.coro
    BY <1>1, <1>3, CountedSound, CountedKept, CountedTop
  <1>5. f \in FrameType /\ f.vm = Top.vm /\ f.kind = "host" /\ f.coro = Top.coro
    BY <1>2, TargetSound
  <1>6. OnTop(s.stack, f)
    BY <1>3, <1>4, <1>5 DEF OnTop
  <1>7. PICK t : t = TargetState
    OBVIOUS
  <1>8. t.stack = Append(s.stack, f) /\ t.ops = s.ops
    BY <1>1, <1>2, <1>7 DEF TargetState
  <1>9. Kept(t, taken')
    BY <1>4, <1>5, <1>6, <1>8, StayKept
  <1>10. Now' = t /\ UNCHANGED suspended
    BY <1>7, TargetSound
  <1> QED
    BY <1>9, <1>10, StillKept

\* So does a call into a joined machine that has no frame yet.
LEMMA JoinedKept ==
    ASSUME MInv, CInv, History, ~ Reentry, NEW j \in VM, CallJoined(j)
    PROVE  CInv'
  <1>1. PICK s : s = Counted
    OBVIOUS
  <1>2. PICK f : f = Frame(j, "joined", Top.coro)
    OBVIOUS
  <1>3. Sound(Now) /\ Budgeted /\ stack # <<>> /\ Top.kind # "host"
        /\ Kept(Now, taken')
    BY TakenKept DEF MInv, CallJoined, Budgeted
  <1>4. /\ Sound(s) /\ s \in StateType /\ Kept(s, taken') /\ s.stack # <<>>
        /\ Last(s.stack).vm = Top.vm /\ Last(s.stack).kind = Top.kind
        /\ Last(s.stack).coro = Top.coro /\ s.stack \in Stacks
        /\ Alike(stack, s.stack) /\ s.ops \in [VM -> 0 .. MaxOps]
    BY <1>1, <1>3, CountedSound, CountedKept, CountedTop, StateFields
  <1>5. f \in FrameType /\ f.vm = j /\ f.kind = "joined" /\ f.coro = Top.coro
        /\ f.used = 0 /\ f.kind \notin Runs
    BY <1>2, <1>3, TopFields, FrameNew DEF Kinds, Runs
  <1>6. OnTop(s.stack, f)
    BY <1>3, <1>4, <1>5 DEF OnTop
  <1>7. Nowhere(s.stack, j)
    <2>1. Free(j)
      BY DEF CallJoined
    <2>2. Nowhere(stack, j)
      BY <2>1, FreeApart
    <2>3. PICK a : a = stack
      OBVIOUS
    <2>4. PICK b : b = s.stack
      OBVIOUS
    <2>5. a \in Stacks /\ b \in Stacks /\ Alike(a, b) /\ Nowhere(a, j)
      BY <1>3, <1>4, <2>2, <2>3, <2>4, NowFields
    <2>6. Nowhere(b, j)
      BY <2>5, AlikeApart
    <2> QED
      BY <2>4, <2>6
  <1>8. PICK n : n = s.ops[Top.vm]
    OBVIOUS
  <1>9. n \in 0 .. MaxOps
    BY <1>3, <1>4, <1>8, TopFields
  <1>10. PICK t : t = JoinedState(j)
    OBVIOUS
  <1>11. t.stack = Append(s.stack, f) /\ t.ops = [s.ops EXCEPT ![f.vm] = n]
    BY <1>1, <1>2, <1>5, <1>8, <1>10 DEF JoinedState
  <1>12. n = IF f.kind \in Runs THEN 0 ELSE s.ops[Last(s.stack).vm]
    BY <1>4, <1>5, <1>8
  <1>13. Now' = t /\ UNCHANGED suspended /\ Now'.stack = stack'
    BY <1>10, JoinedSound DEF Now
  <1>14. Kept(t, taken')
    <2>1. stack' = Append(s.stack, f)
      BY <1>11, <1>13
    <2>2. \A c \in Coro : Waits(c) /\ c \notin taken' => WaitsIn(c) # f.vm
      BY <1>4, <1>5, <1>13, <2>1, PushedTaken
    <2>3. Sound(s) /\ Kept(s, taken') /\ f \in FrameType /\ f.used = 0
          /\ Nowhere(s.stack, f.vm)
      BY <1>4, <1>5, <1>7
    <2> QED
      BY <1>6, <1>9, <1>11, <1>12, <2>2, <2>3, EnterKept
  <1> QED
    BY <1>13, <1>14, StillKept

\* A run begins with no count.
LEMMA StartedKept ==
    ASSUME MInv, History, UNCHANGED suspended, NEW s, Sound(s), Kept(s, taken'),
           NEW vm \in VM, NEW kind \in Runs, NEW coro \in Coro \cup {None},
           OnTop(s.stack, Frame(vm, kind, coro)), Nowhere(s.stack, vm),
           Now' = Started(s, vm, kind, coro)
    PROVE  Kept(Started(s, vm, kind, coro), taken')
  <1>1. PICK f : f = Frame(vm, kind, coro)
    OBVIOUS
  <1>2. f \in FrameType /\ f.vm = vm /\ f.kind = kind /\ f.used = 0
    BY <1>1, FrameNew DEF Kinds
  <1>3. PICK t : t = Started(s, vm, kind, coro)
    OBVIOUS
  <1>4. PICK n : n = 0
    OBVIOUS
  <1>5. n \in 0 .. MaxOps
        /\ n = IF f.kind \in Runs THEN 0 ELSE s.ops[Last(s.stack).vm]
    BY <1>2, <1>4
  <1>6. t.stack = Append(s.stack, f) /\ t.ops = [s.ops EXCEPT ![f.vm] = n]
    BY <1>1, <1>2, <1>3, <1>4 DEF Started
  <1>7. OnTop(s.stack, f) /\ Nowhere(s.stack, f.vm)
    BY <1>1, <1>2
  <1>8. \A c \in Coro : Waits(c) /\ c \notin taken' => WaitsIn(c) # f.vm
    <2>1. Now'.stack = stack'
      BY DEF Now
    <2>2. stack' = Append(s.stack, f)
      BY <1>3, <1>6, <2>1
    <2>3. s.stack \in Stacks
      BY StateFields DEF Sound
    <2> QED
      BY <1>2, <2>2, <2>3, PushedTaken
  <1>9. Kept(t, taken')
    BY <1>2, <1>5, <1>6, <1>7, <1>8, EnterKept
  <1> QED
    BY <1>3, <1>9

\* So does an event that starts on an empty stack.
LEMMA EventKept ==
    ASSUME MInv, CInv, History, ~ Reentry, stack = <<>>, NEW vm \in VM, Free(vm),
           NEW coro \in Coro \cup {None}, Start(Now, vm, "event", coro),
           UNCHANGED suspended
    PROVE  CInv'
  <1>1. PICK s : s = Now
    OBVIOUS
  <1>2. /\ Sound(s) /\ Kept(s, taken') /\ s.stack = <<>> /\ "event" \in Runs
        /\ "event" \in Kinds /\ Nowhere(s.stack, vm)
    BY <1>1, NowFields, FreeApart, TakenKept DEF MInv, Runs, Kinds
  <1>3. OnTop(s.stack, Frame(vm, "event", coro))
    BY <1>2, FrameNew DEF OnTop
  <1>4. PICK t : t = Started(s, vm, "event", coro)
    OBVIOUS
  <1>5. Now' = t
    BY <1>1, <1>4, EventSound
  <1>6. Kept(t, taken')
    BY <1>2, <1>3, <1>4, <1>5, StartedKept
  <1> QED
    BY <1>5, <1>6, StillKept

\* So does a call by the host into a machine that has no frame.
LEMMA HostCallKept ==
    ASSUME MInv, CInv, History, ~ Reentry, NEW vm \in VM, HostCalls(vm)
    PROVE  CInv'
  <1>1. Sound(Now) /\ InHost /\ Kept(Now, taken') /\ Free(vm) /\ "sync" \in Runs
        /\ "sync" \in Kinds /\ None \in Coro \cup {None}
    BY TakenKept DEF MInv, HostCalls, Runs, Kinds
  <1>2. PICK r : r = Now
    OBVIOUS
  <1>3. PICK s : s = Entered
    OBVIOUS
  <1>4. /\ Sound(s) /\ Alike(r.stack, s.stack) /\ s.ops = r.ops /\ s.stack # <<>>
        /\ Last(s.stack).kind = "host" /\ r.stack \in Stacks /\ s.stack \in Stacks
        /\ \A i \in 1 .. Len(r.stack) : r.stack[i].kind # "host" =>
              s.stack[i].used = r.stack[i].used
    BY <1>1, <1>2, <1>3, EnteredSound, NowFields, StateFields DEF Sound
  <1>5. Kept(s, taken')
    <2>1. Kept(r, taken') /\ \A i \in 1 .. Len(r.stack) : r.stack[i].kind \in Runs =>
                         s.stack[i].used = r.stack[i].used
      BY <1>1, <1>2, <1>4 DEF Runs
    <2> QED
      BY <1>4, <2>1, AlikeKept
  <1>6. Nowhere(s.stack, vm)
    <2>1. Nowhere(r.stack, vm)
      BY <1>1, <1>2, FreeApart, NowFields
    <2>2. PICK a : a = r.stack
      OBVIOUS
    <2>3. PICK b : b = s.stack
      OBVIOUS
    <2>4. Nowhere(b, vm)
      BY <1>4, <2>1, <2>2, <2>3, AlikeApart
    <2> QED
      BY <2>3, <2>4
  <1>7. OnTop(s.stack, Frame(vm, "sync", None))
    BY <1>1, <1>4, FrameNew DEF OnTop
  <1>8. PICK t : t = Started(s, vm, "sync", None)
    OBVIOUS
  <1>9. Now' = t /\ UNCHANGED suspended
    BY <1>3, <1>8, HostCallSound
  <1>10. Kept(t, taken')
    BY <1>1, <1>4, <1>5, <1>6, <1>7, <1>8, <1>9, StartedKept
  <1> QED
    BY <1>9, <1>10, StillKept

\* Without re-entry every step leaves every counter with its run.
LEMMA CInvStep ==
    ASSUME ~ Reentry
    PROVE  MInv /\ CInv /\ [Next]_vars => CInv'
  <1> SUFFICES ASSUME MInv, CInv, [Next]_vars PROVE CInv'
    OBVIOUS
  <1>19. CASE UNCHANGED vars
    <2>1. PICK s : s = Now
      OBVIOUS
    <2>2. Now' = s /\ Kept(s, taken') /\ UNCHANGED suspended
      BY <1>19, <2>1 DEF vars, Now, CInv
    <2> QED
      BY <2>2, StillKept
  <1> SUFFICES ASSUME Next PROVE CInv'
    BY <1>19
  <1>0. History
    BY NextHistory
  <1>1. Sound(Now) /\ Kept(Now, taken') /\ ParkedApart
        /\ None \in Coro \cup {None} /\ Now.stack = stack
    BY <1>0, NowFields, TakenKept DEF MInv, CInv
  <1>2. ASSUME Budgeted
        PROVE  Sound(Counted) /\ Kept(Counted, taken') /\ Counted.stack # <<>>
    BY <1>1, <1>2, CountedSound, CountedKept
  <1>3. CASE Step
    <2>1. Now' = Counted /\ UNCHANGED suspended
      BY <1>2, <1>3, BecomeNow DEF Step
    <2> QED
      BY <1>2, <1>3, <2>1, StillKept DEF Step
  <1>4. CASE Fail
    <2>1. PICK s : s = Counted
      OBVIOUS
    <2>2. Sound(s) /\ s.stack # <<>> /\ Kept(s, taken') /\ Failing(s)
      BY <1>2, <1>4, <2>1 DEF Fail
    <2>3. Now' = FailedOnce(s) \/ Now' = Popped(FailedOnce(s))
      BY <2>2, FailingSound
    <2>4. Kept(FailedOnce(s), taken') /\ Kept(Popped(FailedOnce(s)), taken')
          /\ UNCHANGED suspended
      BY <2>2, FailedKept, FailingSound
    <2> QED
      BY <2>3, <2>4, StillKept
  <1>5. CASE Leave
    <2>1. PICK s : s = Now
      OBVIOUS
    <2>2. Sound(s) /\ Kept(s, taken') /\ s.stack # <<>>
      BY <1>1, <1>5, <2>1 DEF Leave
    <2>3. Kept(Popped(s), taken') /\ Sound(Popped(s))
      BY <2>2, PoppedKept, PoppedSound
    <2>4. Now' = Popped(s) /\ UNCHANGED suspended
      BY <1>5, <2>1, <2>3, BecomeNow DEF Leave
    <2> QED
      BY <2>3, <2>4, StillKept
  <1>6. CASE CallOwn
    BY <1>0, <1>6, OwnKept
  <1>7. CASE CallTarget
    BY <1>0, <1>7, TargetKept
  <1>8. CASE Sleep
    <2>1. PICK s : s = Counted
      OBVIOUS
    <2>2. Budgeted /\ Top.coro # None /\ Top.kind # "host"
      BY <1>8 DEF Sleep, Budgeted
    <2>3. /\ Sound(s) /\ s.stack # <<>> /\ Kept(s, taken') /\ Yield(s, "sleep")
          /\ Last(s.stack).coro # None /\ Last(s.stack).kind # "host"
      BY <1>1, <1>2, <1>8, <2>1, <2>2, CountedTop DEF Sleep
    <2> QED
      BY <1>1, <2>3, YieldKept
  <1>9. ASSUME NEW j \in VM, CallJoined(j)
        PROVE  CInv'
    BY <1>0, <1>9, JoinedKept
  <1>10. ASSUME NEW vm \in VM, HostCalls(vm)
         PROVE  CInv'
    BY <1>0, <1>10, HostCallKept
  <1>11. ASSUME InHost
         PROVE  /\ Sound(Popped(Now)) /\ Kept(Popped(Now), taken') /\ Popped(Now).stack # <<>>
                /\ Last(Popped(Now).stack).coro = Top.coro
                /\ Last(Popped(Now).stack).kind # "host"
    <2>1. PICK s : s = Now
      OBVIOUS
    <2>2. Sound(s) /\ Kept(s, taken') /\ s.stack # <<>>
      BY <1>1, <1>11, <2>1 DEF InHost
    <2>3. Kept(Popped(s), taken')
      BY <2>2, PoppedKept
    <2> QED
      BY <1>1, <1>11, <2>1, <2>3, BelowHost
  <1>12. CASE HostReturns
    <2>1. InHost /\ Become(Popped(Now)) /\ UNCHANGED suspended
      BY <1>12 DEF HostReturns
    <2>2. Now' = Popped(Now)
      BY <1>11, <2>1, BecomeNow
    <2> QED
      BY <1>11, <2>1, <2>2, StillKept
  <1>13. CASE HostRaises
    <2>1. PICK s : s = Popped(Now)
      OBVIOUS
    <2>2. Sound(s) /\ s.stack # <<>> /\ Kept(s, taken') /\ Failing(s)
      BY <1>11, <1>13, <2>1 DEF HostRaises
    <2>3. Now' = FailedOnce(s) \/ Now' = Popped(FailedOnce(s))
      BY <2>2, FailingSound
    <2>4. Kept(FailedOnce(s), taken') /\ Kept(Popped(FailedOnce(s)), taken')
          /\ UNCHANGED suspended
      BY <2>2, FailedKept, FailingSound
    <2> QED
      BY <2>3, <2>4, StillKept
  <1>14. CASE HostWaits
    <2>1. PICK s : s = Popped(Now)
      OBVIOUS
    <2>2. /\ Sound(s) /\ s.stack # <<>> /\ Kept(s, taken') /\ Yield(s, "wait")
          /\ Last(s.stack).coro # None /\ Last(s.stack).kind # "host"
      BY <1>11, <1>14, <2>1 DEF HostWaits
    <2> QED
      BY <1>1, <2>2, YieldKept
  <1>15. ASSUME NEW vm \in VM, Call(vm)
         PROVE  CInv'
    BY <1>0, <1>1, <1>15, EventKept DEF Call
  <1>16. ASSUME NEW vm \in VM, NEW c \in Coro, IterCall(vm, c)
         PROVE  CInv'
    BY <1>0, <1>16, EventKept DEF IterCall
  <1>17. ASSUME NEW c \in Coro, Resume(c)
         PROVE  CInv'
    BY <1>0, <1>17, ResumedKept
  <1>18. ASSUME NEW c \in Coro, Drop(c)
         PROVE  CInv'
    BY <1>0, <1>18, DroppedKept
  <1> QED
    BY <1>3, <1>4, <1>5, <1>6, <1>7, <1>8, <1>9, <1>10, <1>12, <1>13, <1>14, <1>15,
       <1>16, <1>17, <1>18 DEF Next, Run

\* It holds at the start.
LEMMA InitCInv == Init => CInv
  <1> SUFFICES ASSUME Init PROVE CInv
    OBVIOUS
  <1>1. stack = <<>> /\ Len(<<>>) = 0 /\ \A c \in Coro : suspended[c] = None
    BY DEF Init
  <1>2. Now.stack = <<>>
    BY <1>1 DEF Now
  <1>3. Own(Now, taken)
    BY <1>1, <1>2 DEF Own, Apart, CountKept
  <1>4. Others(Now, taken) /\ ParkedApart
    BY <1>1 DEF Others, ParkedApart, Waits
  <1> QED
    BY <1>3, <1>4 DEF CInv, Kept

\* Without re-entry every counter belongs to its run, always.
LEMMA AlwaysCInv ==
    ASSUME ~ Reentry
    PROVE  Spec => [](MInv /\ CInv)
  <1>1. Init => MInv /\ CInv
    BY InitMInv, InitCInv
  <1>2. (MInv /\ CInv) /\ [Next]_vars => (MInv /\ CInv)'
    BY MInvStep, CInvStep
  <1> QED
    BY <1>1, <1>2, PTL DEF Spec

\* As long as no machine is entered while it has a frame, the frames of each lie
\* together, and every run's counter is that of the last machine it came to: the
\* current one's, those below a synchronous call, and those of coroutines that
\* wait, until somebody uses the machine one waits in.
THEOREM CountersKept ==
    ASSUME ~ Reentry
    PROVE  Spec => []CounterInv
  <1>1. MInv /\ CInv => CounterInv
    <2> SUFFICES ASSUME MInv, CInv PROVE CounterInv
      OBVIOUS
    <2>1. Now.stack = stack /\ Now.ops = ops
      BY NowFields DEF MInv
    <2>2. Apart(stack) /\ CountKept(stack, ops, taken) /\ UntakenBounded
      BY <2>1 DEF CInv, Kept, Own, UntakenBounded
    <2>3. \A c \in Coro : Waits(c) /\ c \notin taken =>
             /\ suspended[c].frames[1].used <= MaxOps
             /\ ops[WaitsIn(c)] = suspended[c].frames[1].used
             /\ WaitsIn(c) \notin InUse
      BY <2>1 DEF CInv, Kept, Others, Nowhere, InUse
    <2> QED
      BY <2>2, <2>3 DEF CounterInv, CInv, ParkedApart
  <1> QED
    BY <1>1, AlwaysCInv, PTL

\* Then the counter _execute looks at (_ops_used) is the number of instructions
\* of the run it is in: across calls into joined classes, calls of the host into
\* other scripts, sleeps and waits, no run is cut short or let go on by the
\* instructions of another; but for a coroutine whose machine was used while it
\* waited, until it sleeps or ends.
THEOREM CounterOwn ==
    ASSUME ~ Reentry
    PROVE  Spec => []CounterIsOwn
  <1>1. MInv /\ CInv => CounterIsOwn
    <2> SUFFICES ASSUME MInv, CInv, stack # <<>>, stack[Base(stack)].coro \notin taken
                 PROVE  ops[Top.vm] = stack[Base(stack)].used
      BY DEF CounterIsOwn
    <2>1. /\ stack \in Stacks /\ Nested(stack) /\ Now.stack = stack /\ Now.ops = ops
          /\ Sound(Now)
      BY NowFields DEF MInv
    <2>2. PICK s : s = stack
      OBVIOUS
    <2>3. PICK b : b = Base(s)
      OBVIOUS
    <2>4. b \in 1 .. Len(s) /\ Begins(s, b, Len(s)) /\ Len(s) \in 1 .. Len(s)
          /\ Top = s[Len(s)]
      BY <2>1, <2>2, <2>3, BaseFound, TopFields
    <2>5. ops[s[Len(s)].vm] = s[b].used
      BY <2>1, <2>2, <2>3, <2>4 DEF CInv, Kept, Own, CountKept
    <2> QED
      BY <2>2, <2>3, <2>4, <2>5
  <1> QED
    BY <1>1, AlwaysCInv, PTL

\* Then no run but such a coroutine's executes more than max_ops instructions
\* (between two sleeps), nested calls included: what RunBounded claims of all.
THEOREM BudgetKept ==
    ASSUME ~ Reentry
    PROVE  Spec => []UntakenBounded
  <1>1. MInv /\ CInv => UntakenBounded
    BY NowFields DEF MInv, CInv, Kept, Own, UntakenBounded
  <1> QED
    BY <1>1, AlwaysCInv, PTL

=============================================================================
