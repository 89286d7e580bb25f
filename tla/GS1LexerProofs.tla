--------------------------- MODULE GS1LexerProofs ---------------------------
(***************************************************************************)
(* GS1Lexer for any tables whose argument strings have the shape of        *)
(* GS1LexerAssumption and any depth of nesting: at every moment the        *)
(* lexer's mode, counts and stack are a function of what its author has    *)
(* open, so that it reads each lexeme as it was meant.                     *)
(***************************************************************************)
EXTENDS GS1Lexer, FiniteSetTheorems, TLAPS

-----------------------------------------------------------------------------
(* The lexer that is where an author is.                                   *)

ArgType   == CommandType \cup {"DEFAULT", "P", "F", "(", "<", ")"}
GroupType == {"set", "group", "body"}
FrameType == [form : Holding \cup {"script"}, args : Seq(ArgType), groups : Seq(GroupType)]

BraceOf(f) == IF Head(f.args) \in {"DEFAULT", "D", "M"} THEN 0
              ELSE Count(f, {"group", "body"})
LitOf(f)   == IF f.form = "script" THEN 0 ELSE Count(f, {"set"})

\* "(" has been read.
Called(f) == \/ f.form = "call"
             \/ f.form \in {"function", "code"} /\ Head(f.args) \notin {"(", "<"}
PopOf(f)  == IF f.form = "index" THEN "ARRAYINDEX"
             ELSE IF Called(f) THEN "FUNCTION" ELSE "COMMAND"

\* Whether a comma ends the first of these arguments, if it ended the one before.
CommaEnds(c, a) == /\ c /\ ~ (Head(a) \in {"S", "R"} /\ Tail(a) \in {<<>>, <<")">>})
                   /\ Head(a) # "P"

\* A state, made of its parts, and the one that f pushed in g.
State(a, p, c, d, k, m, b, t) ==
    [args |-> a, pop |-> p, comma |-> c, code |-> d, call |-> k,
     mode |-> m, brace |-> b, lit |-> t]
StateOf(f, g) == State(Tail(f.args), PopOf(f), CommaEnds(f.form # "index", f.args),
                       f.form = "code", f.form = "call",
                       ModeOf(Head(g.args)), BraceOf(g), LitOf(g))
StatesOf(a) == [i \in 1 .. Len(a) - 1 |-> StateOf(a[i + 1], a[i])]

\* The lexer, made of its parts, and the one that is where a is.
Rec(m, b, t, s, z, o) == [mode |-> m, brace |-> b, lit |-> t, states |-> s,
                          last |-> z, out |-> o]
Lex(a, z) == Rec(ModeOf(Head(Last(a).args)), BraceOf(Last(a)), LitOf(Last(a)),
                 StatesOf(a), z, <<>>)

-----------------------------------------------------------------------------
(* Sequences.                                                              *)

\* A function on 1 .. n is a sequence.
LEMMA FunctionSeq ==
    ASSUME NEW S, NEW n \in Nat, NEW f \in [1 .. n -> S]
    PROVE  f \in Seq(S) /\ Len(f) = n
  OBVIOUS

\* The ends of a sequence.
LEMMA LastFront ==
    ASSUME NEW S, NEW s \in Seq(S), s # <<>>
    PROVE  /\ Last(s) = s[Len(s)] /\ Last(s) \in S
           /\ Front(s) \in Seq(S) /\ Len(Front(s)) = Len(s) - 1
           /\ \A i \in 1 .. Len(s) - 1 : Front(s)[i] = s[i]
           /\ s = Append(Front(s), Last(s))
  <1>1. PICK n \in Nat : Len(s) = n + 1
    <2>1. Len(s) \in Nat \ {0}
      OBVIOUS
    <2> QED
      BY <2>1
  <1>2. Last(s) = s[Len(s)] /\ Last(s) \in S
    BY <1>1 DEF Last
  <1>3. Front(s) = SubSeq(s, 1, n)
    BY <1>1 DEF Front
  <1>4. /\ Front(s) \in Seq(S) /\ Len(Front(s)) = n
        /\ \A i \in 1 .. n : Front(s)[i] = s[i]
    BY <1>1, <1>3
  <1>5. s = Append(Front(s), Last(s))
    BY <1>1, <1>2, <1>4
  <1> QED
    BY <1>1, <1>2, <1>4, <1>5

\* Appending.
LEMMA Appended ==
    ASSUME NEW S, NEW s \in Seq(S), NEW e \in S
    PROVE  /\ Append(s, e) \in Seq(S) /\ Append(s, e) # <<>>
           /\ Len(Append(s, e)) = Len(s) + 1
           /\ \A i \in 1 .. Len(s) : Append(s, e)[i] = s[i]
           /\ Append(s, e)[Len(s) + 1] = e
           /\ Last(Append(s, e)) = e /\ Front(Append(s, e)) = s
  BY DEF Last, Front

\* A non-empty sequence and its rest.
LEMMA HeadTail ==
    ASSUME NEW S, NEW s \in Seq(S), s # <<>>
    PROVE  /\ Head(s) = s[1] /\ Head(s) \in S /\ Len(s) > 0
           /\ Tail(s) \in Seq(S) /\ Len(Tail(s)) = Len(s) - 1
           /\ \A i \in 1 .. Len(s) - 1 : Tail(s)[i] = s[i + 1]
  OBVIOUS

SetLast(s, e) == [s EXCEPT ![Len(s)] = e]

\* The last element replaced.
LEMMA Replaced ==
    ASSUME NEW S, NEW s \in Seq(S), s # <<>>, NEW e \in S
    PROVE  /\ SetLast(s, e) \in Seq(S)
           /\ SetLast(s, e) = Append(Front(s), e)
  <1>1. PICK n \in Nat : Len(s) = n + 1
    <2>1. Len(s) \in Nat \ {0}
      OBVIOUS
    <2> QED
      BY <2>1
  <1>2. PICK r : r = SetLast(s, e)
    OBVIOUS
  <1>3. /\ r \in Seq(S) /\ Len(r) = n + 1 /\ r[n + 1] = e
        /\ \A i \in 1 .. n : r[i] = s[i]
    BY <1>1, <1>2 DEF SetLast
  <1>4. /\ Front(s) \in Seq(S) /\ Len(Front(s)) = n
        /\ \A i \in 1 .. n : Front(s)[i] = s[i]
    BY <1>1, LastFront
  <1>5. PICK t \in Seq(S) : t = Append(Front(s), e)
    <2>1. Append(Front(s), e) \in Seq(S)
      BY <1>4, Appended
    <2> QED
      BY <2>1
  <1>6. /\ Len(t) = n + 1 /\ t[n + 1] = e
        /\ \A i \in 1 .. n : t[i] = s[i]
    BY <1>4, <1>5
  <1>7. r = t
    BY <1>3, <1>6
  <1> QED
    BY <1>2, <1>3, <1>5, <1>7

-----------------------------------------------------------------------------
(* The states an author has pushed.                                        *)

\* They are a sequence, one state less than there are constructs.
LEMMA StatesType ==
    ASSUME NEW S, NEW a \in Seq(S), a # <<>>
    PROVE  \E T : StatesOf(a) \in Seq(T) /\ Len(StatesOf(a)) = Len(a) - 1
  <1>1. PICK n \in Nat : n = Len(a) - 1
    OBVIOUS
  <1>2. PICK T : StatesOf(a) \in [1 .. n -> T]
    <2>1. StatesOf(a) \in [1 .. n -> {StateOf(a[i + 1], a[i]) : i \in 1 .. n}]
      BY <1>1 DEF StatesOf
    <2> QED
      BY <2>1
  <1> QED
    BY <1>1, <1>2, FunctionSeq

\* One more construct, one more state, which saves what it found.
LEMMA StatesAppend ==
    ASSUME NEW S, NEW a \in Seq(S), a # <<>>, NEW f \in S
    PROVE  StatesOf(Append(a, f)) = Append(StatesOf(a), StateOf(f, Last(a)))
  <1>1. PICK T : StatesOf(a) \in Seq(T) /\ Len(StatesOf(a)) = Len(a) - 1
    BY StatesType
  <1>2. PICK n \in Nat : n = Len(a) - 1
    OBVIOUS
  <1>3. PICK b : b = Append(a, f)
    OBVIOUS
  <1>4. /\ Len(b) = n + 2 /\ \A i \in 1 .. n + 1 : b[i] = a[i]
        /\ b[n + 2] = f /\ Last(a) = a[n + 1]
    <2>1. Len(a) = n + 1
      BY <1>2
    <2>2. /\ Len(b) = Len(a) + 1 /\ \A i \in 1 .. Len(a) : b[i] = a[i]
          /\ b[Len(a) + 1] = f
      BY <1>3, Appended
    <2>3. Last(a) = a[Len(a)]
      BY LastFront
    <2> QED
      BY <2>1, <2>2, <2>3
  <1>5. StatesOf(b) = [i \in 1 .. n + 1 |-> StateOf(b[i + 1], b[i])]
    BY <1>4 DEF StatesOf
  <1>6. StatesOf(a) = [i \in 1 .. n |-> StateOf(a[i + 1], a[i])]
    BY <1>2 DEF StatesOf
  <1>7. PICK e, s : e = StateOf(f, Last(a)) /\ s = StatesOf(a)
    OBVIOUS
  <1>8. Append(s, e) = [i \in 1 .. n + 1 |-> IF i = n + 1 THEN e ELSE s[i]]
    <2>1. s \in Seq(T \cup {e}) /\ e \in T \cup {e} /\ Len(s) = n
      BY <1>1, <1>2, <1>7
    <2>2. PICK r \in Seq(T \cup {e}) : r = Append(s, e)
      <3>1. Append(s, e) \in Seq(T \cup {e})
        BY <2>1, Appended
      <3> QED
        BY <3>1
    <2>3. Len(r) = n + 1 /\ r[n + 1] = e /\ \A i \in 1 .. n : r[i] = s[i]
      BY <2>1, <2>2
    <2>4. r = [i \in 1 .. n + 1 |-> r[i]]
      BY <2>3
    <2>5. \A i \in 1 .. n + 1 : r[i] = IF i = n + 1 THEN e ELSE s[i]
      BY <2>3
    <2> QED
      BY <2>2, <2>4, <2>5
  <1>9. \A i \in 1 .. n + 1 : StateOf(b[i + 1], b[i])
                                = IF i = n + 1 THEN e ELSE s[i]
    <2> TAKE i \in 1 .. n + 1
    <2>1. CASE i = n + 1
      BY <1>4, <1>7, <2>1
    <2>2. CASE i # n + 1
      <3>1. i \in 1 .. n /\ b[i] = a[i] /\ b[i + 1] = a[i + 1]
        BY <1>4, <2>2
      <3>2. s[i] = StateOf(a[i + 1], a[i])
        BY <1>6, <1>7, <3>1
      <3> QED
        BY <2>2, <3>1, <3>2
    <2> QED
      BY <2>1, <2>2
  <1> QED
    BY <1>3, <1>5, <1>7, <1>8, <1>9

\* The script itself has pushed none.
LEMMA StatesEmpty ==
    ASSUME NEW a, Len(a) = 1
    PROVE  StatesOf(a) = <<>>
  BY DEF StatesOf

-----------------------------------------------------------------------------
(* The lexer's record.                                                     *)

\* Its fields.
LEMMA RecFields ==
    ASSUME NEW m, NEW b, NEW t, NEW s, NEW z, NEW o
    PROVE  /\ Rec(m, b, t, s, z, o).mode = m /\ Rec(m, b, t, s, z, o).brace = b
           /\ Rec(m, b, t, s, z, o).lit = t /\ Rec(m, b, t, s, z, o).states = s
           /\ Rec(m, b, t, s, z, o).last = z /\ Rec(m, b, t, s, z, o).out = o
  BY DEF Rec

\* Several of them replaced, as the lexer does.
MoveOn(l, f, e)     == [l EXCEPT !.mode = f, !.states[Len(l.states)] = e]
MoveOut(l, f, g, h) == [l EXCEPT !.mode = f, !.brace = g, !.lit = h, !.states = Front(@)]
Enter(l, e)         == [l EXCEPT !.states = Append(@, e), !.brace = 0, !.lit = 0]
Tell(l, e, f)       == [l EXCEPT !.out = e, !.last = f]
Open(l)             == [l EXCEPT !.states[Len(l.states)].pop = "FUNCTION"]
AsCall(e)           == [e EXCEPT !.pop = "FUNCTION"]

\* On to a mode.
LEMMA RecMoveOn ==
    ASSUME NEW m, NEW b, NEW t, NEW s, NEW z, NEW o, NEW f, NEW e
    PROVE  MoveOn(Rec(m, b, t, s, z, o), f, e) = Rec(f, b, t, SetLast(s, e), z, o)
  <1> PICK l : l = Rec(m, b, t, s, z, o)
    OBVIOUS
  <1>1. l.states = s /\ l.last = z
    BY RecFields
  <1>2. [l EXCEPT !.mode = f, !.states[Len(l.states)] = e]
          = [[l EXCEPT !.mode = f] EXCEPT !.states = [l.states EXCEPT ![Len(l.states)] = e]]
    <2>1. [l EXCEPT !.mode = f].states = l.states
      BY DEF Rec
    <2> QED
      BY <2>1, Zenon
  <1>3. [l EXCEPT !.mode = f, !.states[Len(l.states)] = e]
          = Rec(f, b, t, [s EXCEPT ![Len(s)] = e], z, o)
    <2>1. [l EXCEPT !.mode = f] = Rec(f, b, t, s, z, o)
      BY DEF Rec
    <2> DEFINE q == [s EXCEPT ![Len(s)] = e]
    <2>2. [Rec(f, b, t, s, z, o) EXCEPT !.states = q] = Rec(f, b, t, q, z, o)
      <3> HIDE DEF q
      <3> QED
        BY DEF Rec
    <2> QED
      BY <1>1, <1>2, <2>1, <2>2, Zenon
  <1> QED
    BY <1>3, Zenon DEF MoveOn, SetLast

\* Back to a mode and its counts.
LEMMA RecMoveOut ==
    ASSUME NEW m, NEW b, NEW t, NEW s, NEW z, NEW o, NEW f, NEW g, NEW h
    PROVE  MoveOut(Rec(m, b, t, s, z, o), f, g, h) = Rec(f, g, h, Front(s), z, o)
  <1> PICK l : l = Rec(m, b, t, s, z, o)
    OBVIOUS
  <1>1. l.states = s /\ l.last = z
    BY RecFields
  <1>2. [l EXCEPT !.mode = f, !.brace = g, !.lit = h, !.states = Front(@)]
          = [[[[l EXCEPT !.mode = f] EXCEPT !.brace = g] EXCEPT !.lit = h]
                EXCEPT !.states = Front(l.states)]
    OBVIOUS
  <1>3. [l EXCEPT !.mode = f, !.brace = g, !.lit = h, !.states = Front(@)]
          = Rec(f, g, h, Front(s), z, o)
    <2>1. [l EXCEPT !.mode = f] = Rec(f, b, t, s, z, o)
      BY DEF Rec
    <2>2. [Rec(f, b, t, s, z, o) EXCEPT !.brace = g] = Rec(f, g, t, s, z, o)
      BY DEF Rec
    <2>3. [Rec(f, g, t, s, z, o) EXCEPT !.lit = h] = Rec(f, g, h, s, z, o)
      BY DEF Rec
    <2>4. [Rec(f, g, h, s, z, o) EXCEPT !.states = Front(s)] = Rec(f, g, h, Front(s), z, o)
      BY DEF Rec
    <2> QED
      BY <1>1, <1>2, <2>1, <2>2, <2>3, <2>4, Zenon
  <1> QED
    BY <1>3, Zenon DEF MoveOut

\* A new state.
LEMMA RecEnter ==
    ASSUME NEW m, NEW b, NEW t, NEW s, NEW z, NEW o, NEW e
    PROVE  Enter(Rec(m, b, t, s, z, o), e) = Rec(m, 0, 0, Append(s, e), z, o)
  <1> PICK l : l = Rec(m, b, t, s, z, o)
    OBVIOUS
  <1>1. l.states = s /\ l.last = z
    BY RecFields
  <1>2. [l EXCEPT !.states = Append(@, e), !.brace = 0, !.lit = 0]
          = [[[l EXCEPT !.states = Append(l.states, e)] EXCEPT !.brace = 0] EXCEPT !.lit = 0]
    OBVIOUS
  <1>3. [l EXCEPT !.states = Append(@, e), !.brace = 0, !.lit = 0]
          = Rec(m, 0, 0, Append(s, e), z, o)
    <2> DEFINE q == Append(s, e)
    <2>1. [l EXCEPT !.states = Append(@, e), !.brace = 0, !.lit = 0]
            = [[[l EXCEPT !.states = q] EXCEPT !.brace = 0] EXCEPT !.lit = 0]
      BY <1>1, <1>2
    <2> HIDE DEF q
    <2>2. [l EXCEPT !.states = q] = Rec(m, b, t, q, z, o)
      BY DEF Rec
    <2>3. [Rec(m, b, t, q, z, o) EXCEPT !.brace = 0] = Rec(m, 0, t, q, z, o)
      BY DEF Rec
    <2>4. [Rec(m, 0, t, q, z, o) EXCEPT !.lit = 0] = Rec(m, 0, 0, q, z, o)
      BY DEF Rec
    <2>5. [[[l EXCEPT !.states = q] EXCEPT !.brace = 0] EXCEPT !.lit = 0]
            = Rec(m, 0, 0, q, z, o)
      BY <2>2, <2>3, <2>4, Zenon
    <2> QED
      BY <2>1, <2>5 DEF q
  <1> QED
    BY <1>3, Zenon DEF Enter

\* Tokens.
LEMMA RecTell ==
    ASSUME NEW m, NEW b, NEW t, NEW s, NEW z, NEW o, NEW e, NEW f
    PROVE  Tell(Rec(m, b, t, s, z, o), e, f) = Rec(m, b, t, s, f, e)
  <1> PICK l : l = Rec(m, b, t, s, z, o)
    OBVIOUS
  <1>1. l.states = s /\ l.last = z
    BY RecFields
  <1>2. [l EXCEPT !.out = e, !.last = f] = [[l EXCEPT !.out = e] EXCEPT !.last = f]
    OBVIOUS
  <1>3. [l EXCEPT !.out = e, !.last = f] = Rec(m, b, t, s, f, e)
    <2>1. [l EXCEPT !.out = e] = Rec(m, b, t, s, z, e)
      BY DEF Rec
    <2>2. [Rec(m, b, t, s, z, e) EXCEPT !.last = f] = Rec(m, b, t, s, f, e)
      BY DEF Rec
    <2> QED
      BY <1>2, <2>1, <2>2, Zenon
  <1> QED
    BY <1>3, Zenon DEF Tell

\* The call is open.
LEMMA RecOpen ==
    ASSUME NEW m, NEW b, NEW t, NEW s, NEW z, NEW o
    PROVE  Open(Rec(m, b, t, s, z, o)) = Rec(m, b, t, SetLast(s, AsCall(s[Len(s)])), z, o)
  <1> PICK l : l = Rec(m, b, t, s, z, o)
    OBVIOUS
  <1>1. l.states = s /\ l.last = z
    BY RecFields
  <1>2. [l EXCEPT !.states[Len(l.states)].pop = "FUNCTION"]
          = [l EXCEPT !.states = [l.states EXCEPT ![Len(l.states)] =
                                    [l.states[Len(l.states)] EXCEPT !.pop = "FUNCTION"]]]
    OBVIOUS
  <1>3. [l EXCEPT !.states[Len(l.states)].pop = "FUNCTION"]
           = Rec(m, b, t, [s EXCEPT ![Len(s)] = [s[Len(s)] EXCEPT !.pop = "FUNCTION"]], z, o)
    <2> DEFINE q == [s EXCEPT ![Len(s)] = [s[Len(s)] EXCEPT !.pop = "FUNCTION"]]
    <2>1. [l EXCEPT !.states = q] = Rec(m, b, t, q, z, o)
      <3> HIDE DEF q
      <3> QED
        BY DEF Rec
    <2> QED
      BY <1>1, <1>2, <2>1, Zenon
  <1> QED
    BY <1>3, Zenon DEF Open, AsCall, SetLast

\* One of them replaced.
WithBrace(l, e) == [l EXCEPT !.brace = e]
WithLit(l, e)   == [l EXCEPT !.lit = e]
WithOut(l, e)   == [l EXCEPT !.out = e]

\* What replacing them leaves of the record.
LEMMA RecWith ==
    ASSUME NEW m, NEW b, NEW t, NEW s, NEW z, NEW o, NEW e
    PROVE  /\ WithBrace(Rec(m, b, t, s, z, o), e) = Rec(m, e, t, s, z, o)
           /\ WithLit(Rec(m, b, t, s, z, o), e) = Rec(m, b, e, s, z, o)
           /\ WithOut(Rec(m, b, t, s, z, o), e) = Rec(m, b, t, s, z, e)
  BY DEF Rec, WithBrace, WithLit, WithOut

-----------------------------------------------------------------------------
(* Leaving a state.                                                        *)

\* q is s with e on top.
On(q, s, e) == /\ q # <<>> /\ Last(q) = e /\ q[Len(q)] = e /\ Front(q) = s
               /\ \A d : SetLast(q, d) = Append(s, d)

\* What is appended is on top.
LEMMA AppendedOn ==
    ASSUME NEW T, NEW s \in Seq(T), NEW e
    PROVE  On(Append(s, e), s, e)
  <1>1. PICK U : U = T \cup {e}
    OBVIOUS
  <1>2. s \in Seq(U) /\ e \in U
    BY <1>1
  <1>3. /\ Append(s, e) # <<>> /\ Last(Append(s, e)) = e
        /\ Len(Append(s, e)) = Len(s) + 1 /\ Front(Append(s, e)) = s
        /\ Append(s, e) \in Seq(U)
    BY <1>2, Appended
  <1>4. ASSUME NEW d
        PROVE  SetLast(Append(s, e), d) = Append(s, d)
    <2>1. PICK V : V = U \cup {d}
      OBVIOUS
    <2>2. d \in V /\ s \in Seq(V) /\ e \in V
      BY <1>2, <2>1
    <2>3. Append(s, e) \in Seq(V)
      BY <2>2, Appended
    <2> QED
      BY <1>3, <2>2, <2>3, Replaced
  <1>5. Append(s, e)[Len(Append(s, e))] = e
    BY <1>3, LastFront
  <1> QED
    BY <1>3, <1>4, <1>5 DEF On

\* On to the next argument.
LEMMA PopOn ==
    ASSUME NEW m, NEW b, NEW t, NEW z, NEW o, NEW q, NEW s, NEW e, On(q, s, e),
           e.args # <<>>, NEW early, ~early
    PROVE  PopNextMode(Rec(m, b, t, q, z, o), early)
             = Rec(ModeOf(Head(e.args)), b, t, Append(s, Following(e)), z, o)
  <1>1. PICK l : l = Rec(m, b, t, q, z, o)
    OBVIOUS
  <1>2. l.states = q
    BY <1>1, RecFields
  <1>3. l.states # <<>> /\ Top(l) = e /\ l.states[Len(l.states)] = e
    BY <1>2 DEF On, Top
  <1>4. SetLast(q, Following(e)) = Append(s, Following(e))
    BY DEF On
  <1>5. PopNextMode(l, early)
          = MoveOn(l, ModeOf(Head(Top(l).args)), Following(l.states[Len(l.states)]))
    BY <1>3, Zenon DEF PopNextMode, MoveOn
  <1>6. PICK f, g : f = ModeOf(Head(e.args)) /\ g = Following(e)
    OBVIOUS
  <1>7. PopNextMode(l, early) = MoveOn(l, f, g)
    BY <1>3, <1>5, <1>6, Zenon
  <1>8. MoveOn(Rec(m, b, t, q, z, o), f, g) = Rec(f, b, t, SetLast(q, g), z, o)
    BY RecMoveOn
  <1> QED
    BY <1>1, <1>4, <1>6, <1>7, <1>8, Zenon

\* Out of a state.
LEMMA PopOut ==
    ASSUME NEW m, NEW b, NEW t, NEW z, NEW o, NEW q, NEW s, NEW e, On(q, s, e),
           NEW early, early \/ e.args = <<>>
    PROVE  PopNextMode(Rec(m, b, t, q, z, o), early)
             = Rec(e.mode, e.brace, e.lit, s, z, o)
  <1>1. PICK l : l = Rec(m, b, t, q, z, o)
    OBVIOUS
  <1>2. l.states = q
    BY <1>1, RecFields
  <1>3. l.states # <<>> /\ Top(l) = e /\ Front(q) = s
    BY <1>2 DEF On, Top
  <1>4. PopNextMode(l, early) = MoveOut(l, Top(l).mode, Top(l).brace, Top(l).lit)
    BY <1>3, Zenon DEF PopNextMode, MoveOut
  <1>5. PICK f, g, h : f = e.mode /\ g = e.brace /\ h = e.lit
    OBVIOUS
  <1>6. PopNextMode(l, early) = MoveOut(l, f, g, h)
    BY <1>3, <1>4, <1>5, Zenon
  <1>7. MoveOut(Rec(m, b, t, q, z, o), f, g, h) = Rec(f, g, h, Front(q), z, o)
    BY RecMoveOut
  <1> QED
    BY <1>1, <1>3, <1>5, <1>6, <1>7, Zenon

\* The parts of a state.
WithArgs(e, x)  == [e EXCEPT !.args = x]
WithComma(e, x) == [e EXCEPT !.comma = x]

\* A state's fields.
LEMMA StateFields ==
    ASSUME NEW a, NEW p, NEW c, NEW d, NEW k, NEW m, NEW b, NEW t
    PROVE  /\ State(a, p, c, d, k, m, b, t).args = a
           /\ State(a, p, c, d, k, m, b, t).pop = p
           /\ State(a, p, c, d, k, m, b, t).comma = c
           /\ State(a, p, c, d, k, m, b, t).code = d
           /\ State(a, p, c, d, k, m, b, t).call = k
           /\ State(a, p, c, d, k, m, b, t).mode = m
           /\ State(a, p, c, d, k, m, b, t).brace = b
           /\ State(a, p, c, d, k, m, b, t).lit = t
  BY DEF State

\* Two of them replaced.
LEMMA StateWith ==
    ASSUME NEW a, NEW p, NEW c, NEW d, NEW k, NEW m, NEW b, NEW t, NEW x
    PROVE  /\ WithArgs(State(a, p, c, d, k, m, b, t), x) = State(x, p, c, d, k, m, b, t)
           /\ WithComma(State(a, p, c, d, k, m, b, t), x) = State(a, p, x, d, k, m, b, t)
           /\ AsCall(State(a, p, c, d, k, m, b, t)) = State(a, "FUNCTION", c, d, k, m, b, t)
  BY DEF State, WithArgs, WithComma, AsCall

\* What follows a state.
LEMMA FollowingState ==
    ASSUME NEW a, NEW p, NEW c, NEW d, NEW k, NEW m, NEW b, NEW t
    PROVE  Following(State(a, p, c, d, k, m, b, t))
             = State(Tail(a), p, CommaEnds(c, a), d, k, m, b, t)
  <1>1. PICK e : e = State(a, p, c, d, k, m, b, t)
    OBVIOUS
  <1>2. e.args = a /\ e.comma = c
    BY <1>1, StateFields
  <1>3. PICK r : r = Tail(a)
    OBVIOUS
  <1>4. PICK f : f = WithArgs(e, r)
    OBVIOUS
  <1>5. f = State(r, p, c, d, k, m, b, t)
    BY <1>1, <1>4, StateWith
  <1>6. f.comma = c
    BY <1>5, StateFields
  <1>7. Following(e) = WithComma(f, CommaEnds(f.comma, a))
    BY <1>2, <1>3, <1>4, Zenon DEF Following, WithArgs, WithComma, CommaEnds
  <1>8. PICK n : n = CommaEnds(c, a)
    OBVIOUS
  <1>9. WithComma(State(r, p, c, d, k, m, b, t), n) = State(r, p, n, d, k, m, b, t)
    BY StateWith
  <1> QED
    BY <1>1, <1>3, <1>5, <1>6, <1>7, <1>8, <1>9, Zenon

-----------------------------------------------------------------------------
(* The lexer moves as the author does.                                     *)

\* The states of an author inside a construct.
LEMMA StatesOn ==
    ASSUME NEW S, NEW a \in Seq(S), Len(a) > 1
    PROVE  /\ On(StatesOf(a), StatesOf(Front(a)), StateOf(Last(a), Last(Front(a))))
           /\ Front(a) \in Seq(S) /\ Front(a) # <<>>
  <1>1. a # <<>>
    OBVIOUS
  <1>2. /\ Front(a) \in Seq(S) /\ Len(Front(a)) = Len(a) - 1 /\ Last(a) \in S
        /\ a = Append(Front(a), Last(a))
    BY <1>1, LastFront
  <1>3. Front(a) # <<>>
    BY <1>2
  <1>4. PICK T : StatesOf(Front(a)) \in Seq(T)
    BY <1>2, <1>3, StatesType
  <1>5. StatesOf(Append(Front(a), Last(a)))
          = Append(StatesOf(Front(a)), StateOf(Last(a), Last(Front(a))))
    BY <1>2, <1>3, StatesAppend
  <1>6. PICK s, e : s = StatesOf(Front(a)) /\ e = StateOf(Last(a), Last(Front(a)))
    OBVIOUS
  <1>7. On(Append(s, e), s, e)
    BY <1>4, <1>6, AppendedOn
  <1> QED
    BY <1>2, <1>3, <1>5, <1>6, <1>7, Zenon

\* What a construct's state says.
LEMMA StateOfFields ==
    ASSUME NEW f, NEW g
    PROVE  /\ StateOf(f, g).args = Tail(f.args) /\ StateOf(f, g).pop = PopOf(f)
           /\ StateOf(f, g).comma = CommaEnds(f.form # "index", f.args)
           /\ StateOf(f, g).code = (f.form = "code") /\ StateOf(f, g).call = (f.form = "call")
           /\ StateOf(f, g).mode = ModeOf(Head(g.args))
           /\ StateOf(f, g).brace = BraceOf(g) /\ StateOf(f, g).lit = LitOf(g)
  BY DEF StateOf, State

\* The lexer enters what the author opens.
LEMMA PushLex ==
    ASSUME NEW a \in Seq(FrameType), a # <<>>, NEW z, NEW f \in FrameType,
           f.args # <<>>, f.groups = <<>>, f.form # "script"
    PROVE  Push(Lex(a, z), f.args, PopOf(f), f.form = "code", f.form = "call")
             = Lex(Append(a, f), z)
  <1>1. PICK l : l = Lex(a, z)
    OBVIOUS
  <1>2. PICK S : S = StatesOf(a)
    OBVIOUS
  <1>3. PICK e : e = State(f.args, PopOf(f), PopOf(f) # "ARRAYINDEX", f.form = "code",
                           f.form = "call", l.mode, l.brace, l.lit)
    OBVIOUS
  <1>4. Push(l, f.args, PopOf(f), f.form = "code", f.form = "call")
          = PopNextMode(Enter(l, e), FALSE)
    BY <1>3, Zenon DEF Push, Enter, State
  <1>5. PICK g : g = Last(a)
    OBVIOUS
  <1>6. l = Rec(ModeOf(Head(g.args)), BraceOf(g), LitOf(g), S, z, <<>>)
    BY <1>1, <1>2, <1>5, Zenon DEF Lex
  <1>7. /\ Enter(l, e) = Rec(ModeOf(Head(g.args)), 0, 0, Append(S, e), z, <<>>)
        /\ l.mode = ModeOf(Head(g.args)) /\ l.brace = BraceOf(g) /\ l.lit = LitOf(g)
    BY <1>6, RecEnter, RecFields
  <1>8. On(Append(S, e), S, e)
    <2>1. PICK T : StatesOf(a) \in Seq(T)
      BY StatesType
    <2> QED
      BY <1>2, <2>1, AppendedOn
  <1>9. e.args = f.args
    BY <1>3, StateFields
  <1>10. PopNextMode(Rec(ModeOf(Head(g.args)), 0, 0, Append(S, e), z, <<>>), FALSE)
           = Rec(ModeOf(Head(e.args)), 0, 0, Append(S, Following(e)), z, <<>>)
    <2>1. PICK m, q, y : m = ModeOf(Head(g.args)) /\ q = Append(S, e) /\ y = FALSE
      OBVIOUS
    <2>2. e.args # <<>> /\ On(q, S, e) /\ ~y
      BY <1>8, <1>9, <2>1
    <2>3. PopNextMode(Rec(m, 0, 0, q, z, <<>>), y)
            = Rec(ModeOf(Head(e.args)), 0, 0, Append(S, Following(e)), z, <<>>)
      BY <2>2, PopOn
    <2> QED
      BY <2>1, <2>3, Zenon
  <1>11. Following(e) = State(Tail(f.args), PopOf(f), CommaEnds(PopOf(f) # "ARRAYINDEX", f.args),
                              f.form = "code", f.form = "call", l.mode, l.brace, l.lit)
    <2>1. PICK r, p, c, d, k, m, b, t :
              /\ r = f.args /\ p = PopOf(f) /\ c = (PopOf(f) # "ARRAYINDEX")
              /\ d = (f.form = "code") /\ k = (f.form = "call")
              /\ m = l.mode /\ b = l.brace /\ t = l.lit
      OBVIOUS
    <2>2. Following(State(r, p, c, d, k, m, b, t))
            = State(Tail(r), p, CommaEnds(c, r), d, k, m, b, t)
      BY FollowingState
    <2> QED
      BY <1>3, <2>1, <2>2, Zenon
  <1>12. (PopOf(f) # "ARRAYINDEX") = (f.form # "index")
    BY DEF PopOf
  <1>13. Following(e) = StateOf(f, g)
    BY <1>7, <1>11, <1>12, Zenon DEF StateOf
  <1>14. Count(f, {"group", "body"}) = 0 /\ Count(f, {"set"}) = 0
    <2>1. \A K : {i \in DOMAIN f.groups : f.groups[i] \in K} = {}
      OBVIOUS
    <2> QED
      BY <2>1, FS_EmptySet DEF Count
  <1>15. BraceOf(f) = 0 /\ LitOf(f) = 0
    BY <1>14 DEF BraceOf, LitOf
  <1>16. StatesOf(Append(a, f)) = Append(S, StateOf(f, g))
    BY <1>2, <1>5, StatesAppend
  <1>17. Last(Append(a, f)) = f
    BY Appended
  <1> QED
    BY <1>1, <1>4, <1>7, <1>9, <1>10, <1>13, <1>15, <1>16, <1>17, Zenon DEF Lex

\* It leaves what the author closes, early or after the last argument.
LEMMA PopLex ==
    ASSUME NEW a \in Seq(FrameType), Len(a) > 1, NEW z, NEW early,
           early \/ Tail(Last(a).args) = <<>>
    PROVE  PopNextMode(Lex(a, z), early) = Lex(Front(a), z)
  <1>1. PICK f, g : f = Last(a) /\ g = Last(Front(a))
    OBVIOUS
  <1>2. On(StatesOf(a), StatesOf(Front(a)), StateOf(f, g))
    BY <1>1, StatesOn
  <1>3. PICK e : e = StateOf(f, g)
    OBVIOUS
  <1>4. /\ e.args = Tail(f.args) /\ e.mode = ModeOf(Head(g.args))
        /\ e.brace = BraceOf(g) /\ e.lit = LitOf(g)
    BY <1>3, StateOfFields
  <1>5. early \/ e.args = <<>>
    BY <1>1, <1>4
  <1>6. PICK m, b, t, q, s : /\ m = ModeOf(Head(f.args)) /\ b = BraceOf(f) /\ t = LitOf(f)
                             /\ q = StatesOf(a) /\ s = StatesOf(Front(a))
    OBVIOUS
  <1>7. PopNextMode(Rec(m, b, t, q, z, <<>>), early) = Rec(e.mode, e.brace, e.lit, s, z, <<>>)
    BY <1>2, <1>3, <1>5, <1>6, PopOut
  <1> QED
    BY <1>1, <1>4, <1>6, <1>7, Zenon DEF Lex

\* A construct, made of its parts.
Fr(o, r, g) == [form |-> o, args |-> r, groups |-> g]

\* Its fields.
LEMMA FrFields ==
    ASSUME NEW o, NEW r, NEW g
    PROVE  Fr(o, r, g).form = o /\ Fr(o, r, g).args = r /\ Fr(o, r, g).groups = g
  BY DEF Fr

\* Nothing is open in an argument.
LEMMA NoGroups ==
    ASSUME NEW f, f.groups = <<>>
    PROVE  /\ \A K : Count(f, K) = 0
           /\ BraceOf(f) = 0 /\ LitOf(f) = 0
  <1>1. ASSUME NEW K
        PROVE  Count(f, K) = 0
    <2>1. {i \in DOMAIN f.groups : f.groups[i] \in K} = {}
      OBVIOUS
    <2> QED
      BY <2>1, FS_EmptySet DEF Count
  <1> QED
    BY <1>1 DEF BraceOf, LitOf

\* The state that h pushed in g, before its arguments.
Ahead(e, h, g) == e = State(h.args, PopOf(h), TRUE, h.form = "code", h.form = "call",
                            ModeOf(Head(g.args)), BraceOf(g), LitOf(g))

\* The lexer goes on to h's argument.
LEMMA OnLex ==
    ASSUME NEW a \in Seq(FrameType), Len(a) > 1, NEW z,
           NEW h \in FrameType, h.args # <<>>, h.groups = <<>>, h.form # "index",
           NEW e, Ahead(e, h, Last(Front(a))),
           NEW m, NEW q, On(q, StatesOf(Front(a)), e), NEW early, ~early
    PROVE  PopNextMode(Rec(m, 0, 0, q, z, <<>>), early) = Lex(Append(Front(a), h), z)
  <1>1. PICK s, g : s = StatesOf(Front(a)) /\ g = Last(Front(a))
    OBVIOUS
  <1>2. e.args = h.args
    BY DEF Ahead, State
  <1>3. PopNextMode(Rec(m, 0, 0, q, z, <<>>), early)
          = Rec(ModeOf(Head(e.args)), 0, 0, Append(s, Following(e)), z, <<>>)
    BY <1>1, <1>2, PopOn
  <1>4. Following(e) = StateOf(h, g)
    <2>1. PICK r, p, c, d, k, n, b, t :
              /\ r = h.args /\ p = PopOf(h) /\ c = TRUE
              /\ d = (h.form = "code") /\ k = (h.form = "call")
              /\ n = ModeOf(Head(g.args)) /\ b = BraceOf(g) /\ t = LitOf(g)
      OBVIOUS
    <2>2. Following(State(r, p, c, d, k, n, b, t))
            = State(Tail(r), p, CommaEnds(c, r), d, k, n, b, t)
      BY FollowingState
    <2>3. (h.form # "index") = TRUE
      OBVIOUS
    <2> QED
      BY <1>1, <2>1, <2>2, <2>3, Zenon DEF StateOf, Ahead
  <1>5. /\ Front(a) \in Seq(FrameType) /\ Front(a) # <<>>
    BY StatesOn
  <1>6. StatesOf(Append(Front(a), h)) = Append(s, StateOf(h, g))
    BY <1>1, <1>5, StatesAppend
  <1>7. Last(Append(Front(a), h)) = h
    BY <1>5, Appended
  <1>8. BraceOf(h) = 0 /\ LitOf(h) = 0
    BY NoGroups
  <1> QED
    BY <1>2, <1>3, <1>4, <1>6, <1>7, <1>8, Zenon DEF Lex

\* h is f on its next argument, whose comma may end it.
Onward(f, h) == /\ h.form = f.form /\ h.args = Tail(f.args) /\ h.args # <<>>
                /\ h.groups = <<>> /\ f.groups = <<>>
                /\ f.form # "index" /\ CommaEnds(TRUE, f.args)

\* The lexer goes on to the next argument.
LEMMA NextLex ==
    ASSUME NEW a \in Seq(FrameType), Len(a) > 1, NEW z, NEW h \in FrameType,
           Onward(Last(a), h), PopOf(h) = PopOf(Last(a)), NEW early, ~early
    PROVE  PopNextMode(Lex(a, z), early) = Lex(Append(Front(a), h), z)
  <1>1. PICK f, g : f = Last(a) /\ g = Last(Front(a))
    OBVIOUS
  <1>2. PICK e, q : e = StateOf(f, g) /\ q = StatesOf(a)
    OBVIOUS
  <1>3. On(q, StatesOf(Front(a)), e)
    BY <1>1, <1>2, StatesOn
  <1>4. Ahead(e, h, g)
    <2>1. /\ h.args = Tail(f.args) /\ h.form = f.form /\ PopOf(h) = PopOf(f)
      BY <1>1 DEF Onward
    <2>2. CommaEnds(f.form # "index", f.args) = TRUE
      BY <1>1 DEF Onward, CommaEnds
    <2> QED
      BY <1>2, <2>1, <2>2, Zenon DEF Ahead, StateOf
  <1>5. BraceOf(f) = 0 /\ LitOf(f) = 0
    BY <1>1, NoGroups DEF Onward
  <1>6. h.args # <<>> /\ h.groups = <<>> /\ h.form # "index"
    BY <1>1 DEF Onward
  <1>7. PICK m : m = ModeOf(Head(f.args))
    OBVIOUS
  <1>8. Ahead(e, h, Last(Front(a)))
    BY <1>1, <1>4
  <1>9. PopNextMode(Rec(m, 0, 0, q, z, <<>>), early) = Lex(Append(Front(a), h), z)
    BY <1>3, <1>6, <1>8, OnLex
  <1> QED
    BY <1>1, <1>2, <1>5, <1>7, <1>9, Zenon DEF Lex

\* The lexer opens a call.
LEMMA OpenLex ==
    ASSUME NEW a \in Seq(FrameType), Len(a) > 1, NEW z, NEW h \in FrameType,
           Onward(Last(a), h), PopOf(h) = "FUNCTION"
    PROVE  OpenCall(Lex(a, z)) = Lex(Append(Front(a), h), z)
  <1>1. PICK f, g : f = Last(a) /\ g = Last(Front(a))
    OBVIOUS
  <1>2. PICK d, q, s : d = StateOf(f, g) /\ q = StatesOf(a) /\ s = StatesOf(Front(a))
    OBVIOUS
  <1>3. On(q, s, d)
    BY <1>1, <1>2, StatesOn
  <1>4. PICK e : e = AsCall(d)
    OBVIOUS
  <1>5. Ahead(e, h, g)
    <2>1. /\ h.args = Tail(f.args) /\ h.form = f.form
      BY <1>1 DEF Onward
    <2>2. CommaEnds(f.form # "index", f.args) = TRUE
      BY <1>1 DEF Onward, CommaEnds
    <2>3. PICK r, p, c, k, l, m, b, t :
              /\ r = Tail(f.args) /\ p = PopOf(f) /\ c = TRUE
              /\ k = (f.form = "code") /\ l = (f.form = "call")
              /\ m = ModeOf(Head(g.args)) /\ b = BraceOf(g) /\ t = LitOf(g)
      OBVIOUS
    <2>4. d = State(r, p, c, k, l, m, b, t)
      BY <1>2, <2>2, <2>3, Zenon DEF StateOf
    <2>5. AsCall(State(r, p, c, k, l, m, b, t)) = State(r, "FUNCTION", c, k, l, m, b, t)
      BY StateWith
    <2> QED
      BY <1>4, <2>1, <2>3, <2>4, <2>5, Zenon DEF Ahead
  <1>6. BraceOf(f) = 0 /\ LitOf(f) = 0
    BY <1>1, NoGroups DEF Onward
  <1>7. h.args # <<>> /\ h.groups = <<>> /\ h.form # "index"
    BY <1>1 DEF Onward
  <1>8. PICK m, y : m = ModeOf(Head(f.args)) /\ y = FALSE
    OBVIOUS
  <1>9. Ahead(e, h, Last(Front(a)))
    BY <1>1, <1>5
  <1>10. On(Append(s, e), s, e)
    <2>1. PICK T : StatesOf(Front(a)) \in Seq(T)
      BY StatesOn, StatesType
    <2> QED
      BY <1>2, <2>1, AppendedOn
  <1>11. PICK p : p = Append(s, e)
    OBVIOUS
  <1>12. PopNextMode(Rec(m, 0, 0, p, z, <<>>), y) = Lex(Append(Front(a), h), z)
    <2>1. On(p, StatesOf(Front(a)), e) /\ ~y
      BY <1>2, <1>8, <1>10, <1>11
    <2> QED
      BY <1>7, <1>9, <2>1, OnLex
  <1>13. Open(Rec(m, 0, 0, q, z, <<>>)) = Rec(m, 0, 0, p, z, <<>>)
    <2>1. q[Len(q)] = d /\ SetLast(q, e) = Append(s, e)
      BY <1>3 DEF On
    <2>2. Open(Rec(m, 0, 0, q, z, <<>>)) = Rec(m, 0, 0, SetLast(q, AsCall(q[Len(q)])), z, <<>>)
      BY RecOpen
    <2> QED
      BY <1>4, <1>11, <2>1, <2>2, Zenon
  <1>14. Lex(a, z) = Rec(m, 0, 0, q, z, <<>>)
    BY <1>1, <1>2, <1>6, <1>8, Zenon DEF Lex
  <1>15. OpenCall(Lex(a, z)) = PopNextMode(Open(Lex(a, z)), FALSE)
    BY Zenon DEF OpenCall, Open
  <1> QED
    BY <1>8, <1>12, <1>13, <1>14, <1>15, Zenon

-----------------------------------------------------------------------------
(* The author's constructs.                                                *)

\* A construct among the others, with other arguments or groups.
LEMMA FrameWith ==
    ASSUME NEW f \in FrameType, NEW r, NEW g
    PROVE  /\ f = Fr(f.form, f.args, f.groups)
           /\ [f EXCEPT !.args = r] = Fr(f.form, r, f.groups)
           /\ [f EXCEPT !.groups = g] = Fr(f.form, f.args, g)
           /\ r \in Seq(ArgType) => Fr(f.form, r, f.groups) \in FrameType
           /\ g \in Seq(GroupType) => Fr(f.form, f.args, g) \in FrameType
  BY DEF FrameType, Fr

\* The author with its last construct replaced.
LEMMA Rewritten ==
    ASSUME author \in Seq(FrameType), author # <<>>, NEW r \in Seq(ArgType),
           NEW k \in GroupType
    PROVE  /\ Here \in FrameType
           /\ Advanced(r) = Append(Front(author), Fr(Here.form, r, Here.groups))
           /\ Grouped(k) = Append(Front(author), Fr(Here.form, Here.args, Append(Here.groups, k)))
           /\ Here.groups # <<>> =>
                Ungrouped = Append(Front(author), Fr(Here.form, Here.args, Front(Here.groups)))
  <1>1. PICK f : f = Here
    OBVIOUS
  <1>2. author[Len(author)] = f /\ f \in FrameType
    BY <1>1, LastFront DEF Here
  <1>3. f.groups \in Seq(GroupType)
    BY <1>2 DEF FrameType
  <1>4. ASSUME NEW h \in FrameType
        PROVE  SetLast(author, h) = Append(Front(author), h)
    BY Replaced
  <1>5. Advanced(r) = Append(Front(author), Fr(f.form, r, f.groups))
    <2>1. Advanced(r) = SetLast(author, [author[Len(author)] EXCEPT !.args = r])
      BY Zenon DEF Advanced, SetLast
    <2>2. [f EXCEPT !.args = r] = Fr(f.form, r, f.groups)
      BY <1>2, FrameWith
    <2>3. Fr(f.form, r, f.groups) \in FrameType
      BY <1>2, FrameWith
    <2> QED
      BY <1>2, <1>4, <2>1, <2>2, <2>3, Zenon
  <1>6. Grouped(k) = Append(Front(author), Fr(f.form, f.args, Append(f.groups, k)))
    <2>1. PICK g : g = Append(f.groups, k)
      OBVIOUS
    <2>2. g \in Seq(GroupType)
      BY <1>3, <2>1
    <2>3. Grouped(k) = SetLast(author, [author[Len(author)] EXCEPT
                                          !.groups = Append(author[Len(author)].groups, k)])
      BY Zenon DEF Grouped, SetLast
    <2>4. [f EXCEPT !.groups = g] = Fr(f.form, f.args, g)
      BY <1>2, FrameWith
    <2>5. Fr(f.form, f.args, g) \in FrameType
      BY <1>2, <2>2, FrameWith
    <2> QED
      BY <1>2, <1>4, <2>1, <2>3, <2>4, <2>5, Zenon
  <1>7. ASSUME f.groups # <<>>
        PROVE  Ungrouped = Append(Front(author), Fr(f.form, f.args, Front(f.groups)))
    <2>1. PICK g : g = Front(f.groups)
      OBVIOUS
    <2>2. g \in Seq(GroupType)
      BY <1>3, <1>7, <2>1, LastFront
    <2>3. Ungrouped = SetLast(author, [author[Len(author)] EXCEPT
                                         !.groups = Front(author[Len(author)].groups)])
      BY Zenon DEF Ungrouped, SetLast
    <2>4. [f EXCEPT !.groups = g] = Fr(f.form, f.args, g)
      BY <1>2, FrameWith
    <2>5. Fr(f.form, f.args, g) \in FrameType
      BY <1>2, <2>2, FrameWith
    <2> QED
      BY <1>2, <1>4, <2>1, <2>3, <2>4, <2>5, Zenon
  <1> QED
    BY <1>1, <1>2, <1>5, <1>6, <1>7

\* One more is open.
LEMMA CountMore ==
    ASSUME NEW f, f.groups \in Seq(GroupType), NEW h, NEW k \in GroupType,
           h.groups = Append(f.groups, k), NEW K
    PROVE  /\ Count(f, K) \in Nat /\ Count(h, K) \in Nat
           /\ Count(h, K) = IF k \in K THEN Count(f, K) + 1 ELSE Count(f, K)
  <1>1. PICK n \in Nat : n = Len(f.groups)
    OBVIOUS
  <1>2. PICK g, e : g = f.groups /\ e = h.groups
    OBVIOUS
  <1>3. /\ DOMAIN g = 1 .. n /\ DOMAIN e = 1 .. n + 1
        /\ e[n + 1] = k /\ \A i \in 1 .. n : e[i] = g[i]
    BY <1>1, <1>2
  <1>4. PICK A, B : A = {i \in DOMAIN g : g[i] \in K} /\ B = {i \in DOMAIN e : e[i] \in K}
    OBVIOUS
  <1>5. A \subseteq 1 .. n /\ n + 1 \notin A
    BY <1>3, <1>4
  <1>6. IsFiniteSet(A)
    <2>1. IsFiniteSet(1 .. n)
      BY FS_Interval
    <2> QED
      BY <1>5, <2>1, FS_Subset
  <1>7. Cardinality(A) \in Nat
    BY <1>6, FS_CardinalityType
  <1>8. Count(f, K) = Cardinality(A) /\ Count(h, K) = Cardinality(B)
    BY <1>2, <1>4, Zenon DEF Count
  <1>9. CASE k \in K
    <2>1. B = A \cup {n + 1}
      BY <1>3, <1>4, <1>9
    <2>2. Cardinality(B) = Cardinality(A) + 1
      BY <1>5, <1>6, <2>1, FS_AddElement
    <2> QED
      BY <1>7, <1>9, <1>8, <2>2
  <1>10. CASE k \notin K
    <2>1. B = A
      BY <1>3, <1>4, <1>10
    <2> QED
      BY <1>7, <1>10, <1>8, <2>1
  <1> QED
    BY <1>9, <1>10

\* The lexer's counts are those of the current argument, its states are not.
LEMMA GroupLex ==
    ASSUME NEW a \in Seq(FrameType), a # <<>>, NEW z, NEW h \in FrameType,
           h.form = Last(a).form, h.args = Last(a).args
    PROVE  Lex(Append(Front(a), h), z)
             = Rec(ModeOf(Head(h.args)), BraceOf(h), LitOf(h), StatesOf(a), z, <<>>)
  <1>1. PICK b : b = Append(Front(a), h)
    OBVIOUS
  <1>2. /\ Front(a) \in Seq(FrameType) /\ Len(Front(a)) = Len(a) - 1
        /\ Last(a) \in FrameType
        /\ \A i \in 1 .. Len(a) - 1 : Front(a)[i] = a[i]
        /\ Last(a) = a[Len(a)]
    BY LastFront
  <1>3. /\ Len(b) = Len(a) /\ Last(b) = h
        /\ \A i \in 1 .. Len(a) - 1 : b[i] = a[i]
        /\ b[Len(a)] = h
    BY <1>1, <1>2, Appended
  <1>4. ASSUME NEW i \in 1 .. Len(a) - 1
        PROVE  StateOf(b[i + 1], b[i]) = StateOf(a[i + 1], a[i])
    <2>1. b[i] = a[i]
      BY <1>3
    <2>2. b[i + 1].form = a[i + 1].form /\ b[i + 1].args = a[i + 1].args
      <3>1. CASE i + 1 = Len(a)
        BY <1>2, <1>3, <3>1
      <3>2. CASE i + 1 # Len(a)
        BY <1>3, <3>2
      <3> QED
        BY <3>1, <3>2
    <2>3. PopOf(b[i + 1]) = PopOf(a[i + 1])
      BY <2>2 DEF PopOf, Called
    <2> QED
      BY <2>1, <2>2, <2>3, Zenon DEF StateOf
  <1>5. StatesOf(b) = StatesOf(a)
    BY <1>3, <1>4 DEF StatesOf
  <1> QED
    BY <1>1, <1>3, <1>5, Zenon DEF Lex

-----------------------------------------------------------------------------
(* The invariant.                                                          *)

\* Where expressions stand.
ExprTypes == {"DEFAULT", "E", "P", "D", "M"}

\* The arguments a call has left, ")" the last of them.
CallFits(args) ==
    LET n == Len(args)
    IN /\ args \in Seq(Inner \cup {"(", "<", ")"}) /\ n > 1 /\ args[n] = ")"
       /\ args[1] = "(" => n > 2
       /\ args[1] = "<" => n > 3
       /\ \A i \in 1 .. n - 1 : /\ i > 1 => args[i] \in Inner
                                /\ args[i] # ")"
                                /\ args[i] \in Final => i = n - 1

\* The arguments a construct may have left.
ArgsFit(f) ==
    /\ f.args # <<>>
    /\ f.form = "script" => f.args = <<"DEFAULT">>
    /\ f.form \in {"plain", "call"} => f.args \in Seq(CommandType) /\ FinalAtEnd(f.args)
    /\ f.form = "call" => f.args[Len(f.args)] \notin Special \cup {"M", "Z"}
    /\ f.form \in {"function", "code"} => CallFits(f.args)
    /\ f.form = "declare" => f.args \in {<<"V", "(", "F">>, <<"F">>}
    /\ f.form = "index" => f.args = <<"P">>

\* What an argument may hold open.
Holds(f, k) ==
    LET h == Head(f.args)
    IN \/ k = "set" /\ h \in ExprTypes
       \/ k = "group" /\ \/ h \in ExprTypes /\ (h = "D" => f.form = "plain")
                         \/ h = "S" /\ f.form \in {"function", "call"}
       \/ k = "body" /\ h = "Z"

\* A construct that an author can be in.
Fit(f) == ArgsFit(f) /\ \A i \in 1 .. Len(f.groups) : Holds(f, f.groups[i])

\* What an author can have open.  A command is written as a call only in a statement.
Shaped(a) ==
    /\ a \in Seq(FrameType) /\ a # <<>>
    /\ \A i \in 1 .. Len(a) : /\ Fit(a[i])
                              /\ a[i].form = "script" <=> i = 1
                              /\ a[i].form = "call" => i = 2

\* What the lexer remembers of the text, by what the author may write next in f.
Places  == {"start", "inner", "bare", "operand", "dot", "called", "fresh"}
Lasts   == {"PERIOD", "STRING", "OP", "OTHER"}
Follows(p, z, f) ==
    /\ p \in Places /\ z \in Lasts
    /\ p = "dot" <=> z = "PERIOD"
    /\ p = "dot" => Head(f.args) \in ExprTypes \cup {"V"}
    /\ p \in {"start", "fresh"} => z # "STRING"
    /\ p = "start" => z # "OP"
    /\ p = "operand" => z = "OP"
    /\ f.form = "call" /\ Head(f.args) = "R" => z # "STRING"

\* The inductive invariant.
IInv == /\ Shaped(author)
        /\ lexer = Lex(author, lexer.last)
        /\ Follows(place, lexer.last, Here)
        /\ ReadAsMeant

\* What a construct's arguments say of the current one.
HeadFits(f, h) ==
    /\ h \in ArgType /\ h # ")"
    /\ f.form = "script" <=> h = "DEFAULT"
    /\ f.form \in {"plain", "call"} => h \in CommandType
    /\ f.form \in {"function", "code"} => h \in Inner \cup {"(", "<"}
    /\ f.form = "declare" => h \in {"V", "F"}
    /\ f.form = "index" => h = "P"
    /\ f.form = "call" => h # "Z"

\* They do: what fits a construct begins with a type its form allows.
LEMMA ArgsHead ==
    ASSUME NEW f \in FrameType, ArgsFit(f)
    PROVE  HeadFits(f, Head(f.args))
  <1>1. PICK r \in Seq(ArgType) : r = f.args
    BY DEF FrameType
  <1>2. /\ Len(r) \in Nat /\ Len(r) > 0 /\ Head(r) = r[1] /\ r[1] \in ArgType
        /\ f.form \in Holding \cup {"script"}
    BY <1>1 DEF ArgsFit, FrameType
  <1>3. CASE f.form = "script"
    BY <1>1, <1>2, <1>3 DEF ArgsFit, HeadFits
  <1>4. CASE f.form \in {"plain", "call"}
    <2>1. r \in Seq(CommandType) /\ FinalAtEnd(r)
      BY <1>1, <1>4 DEF ArgsFit
    <2>2. r[1] \in CommandType
      BY <1>2, <2>1
    <2>3. ASSUME f.form = "call", r[1] = "Z"
          PROVE  FALSE
      <3>1. r[Len(r)] # "Z"
        BY <1>1, <2>3 DEF ArgsFit
      <3>2. Len(r) > 1
        BY <1>2, <2>3, <3>1
      <3> QED
        BY <1>2, <2>1, <2>3, <3>2 DEF FinalAtEnd, Final
    <2> QED
      BY <1>1, <1>2, <1>4, <2>2, <2>3 DEF HeadFits, CommandType, Special
  <1>5. CASE f.form \in {"function", "code"}
    <2>1. CallFits(r)
      BY <1>1, <1>5 DEF ArgsFit
    <2>2. r[1] \in Inner \cup {"(", "<"}
      BY <1>2, <2>1 DEF CallFits
    <2> QED
      BY <1>1, <1>2, <1>5, <2>2 DEF HeadFits, Inner
  <1>6. CASE f.form = "declare"
    <2>1. r[1] \in {"V", "F"}
      BY <1>1, <1>2, <1>6 DEF ArgsFit
    <2> QED
      BY <1>1, <1>2, <1>6, <2>1 DEF HeadFits
  <1>7. CASE f.form = "index"
    BY <1>1, <1>2, <1>7 DEF ArgsFit, HeadFits
  <1> QED
    BY <1>2, <1>3, <1>4, <1>5, <1>6, <1>7 DEF Holding

\* What is left after the current argument.
LeftFits(f, h, t) ==
    /\ f.form \in {"plain", "call"} /\ h \in Final => t = <<>>
    /\ f.form \in {"function", "code"} => t # <<>>
    /\ f.form \in {"function", "code"} /\ h \in Final => t = <<")">>
    /\ f.form \in {"function", "code"} /\ h \in {"(", "<"} => Head(t) \in Inner /\ t # <<")">>
    /\ f.form \in {"script", "index"} => t = <<>>
    /\ f.form = "declare" /\ h = "V" => t = <<"(", "F">>
    /\ f.form = "declare" /\ h = "F" => t = <<>>
    /\ f.form = "call" /\ t = <<>> => h \notin Special \cup {"M", "Z"}

\* They say so: what ends a list of arguments is never followed by another.
LEMMA ArgsLeft ==
    ASSUME NEW f \in FrameType, ArgsFit(f)
    PROVE  LeftFits(f, Head(f.args), Tail(f.args))
  <1>1. PICK r \in Seq(ArgType) : r = f.args
    BY DEF FrameType
  <1>0. PICK h, t : h = Head(r) /\ t = Tail(r)
    OBVIOUS
  <1>2. /\ Len(r) \in Nat /\ Len(r) > 0 /\ h = r[1] /\ t \in Seq(ArgType)
        /\ Len(t) = Len(r) - 1 /\ \A i \in 1 .. Len(r) - 1 : t[i] = r[i + 1]
    BY <1>0, <1>1 DEF ArgsFit
  <1>3. ASSUME f.form \in {"plain", "call"}, h \in Final
        PROVE  t = <<>>
    <2>1. FinalAtEnd(r)
      BY <1>1, <1>3 DEF ArgsFit
    <2>2. Len(r) = 1
      BY <1>2, <1>3, <2>1 DEF FinalAtEnd
    <2> QED
      BY <1>2, <2>2
  <1>4. ASSUME f.form \in {"function", "code"}
        PROVE  /\ t # <<>>
               /\ h \in Final => t = <<")">>
               /\ h \in {"(", "<"} => Head(t) \in Inner /\ t # <<")">>
    <2>1. CallFits(r)
      BY <1>1, <1>4 DEF ArgsFit
    <2>2. PICK n \in Nat : n = Len(r)
      BY <1>2
    <2>3. n > 1 /\ r[n] = ")" /\ Len(t) = n - 1
      BY <1>2, <2>1, <2>2 DEF CallFits
    <2>4. ASSUME h \in Final
          PROVE  t = <<")">>
      <3>1. n = 2
        BY <1>2, <2>1, <2>2, <2>3, <2>4 DEF CallFits
      <3>2. t[1] = ")" /\ Len(t) = 1
        BY <1>2, <2>2, <2>3, <3>1
      <3> QED
        BY <1>2, <3>2
    <2>5. ASSUME h \in {"(", "<"}
          PROVE  Head(t) \in Inner /\ t # <<")">>
      <3>1. n > 2
        BY <1>2, <2>1, <2>2, <2>5 DEF CallFits
      <3>2. r[2] \in Inner
        BY <1>2, <2>1, <2>2, <3>1 DEF CallFits
      <3>3. Len(t) > 1 /\ Head(t) = r[2]
        BY <1>2, <2>2, <2>3, <3>1
      <3>4. Len(<<")">>) = 1
        OBVIOUS
      <3>5. t # <<")">>
        BY <3>3, <3>4
      <3> QED
        BY <3>2, <3>3, <3>5
    <2> QED
      BY <2>3, <2>4, <2>5
  <1>5. ASSUME f.form \in {"script", "index"}
        PROVE  t = <<>>
    BY <1>1, <1>2, <1>5 DEF ArgsFit
  <1>6. ASSUME f.form = "declare"
        PROVE  (h = "V" => t = <<"(", "F">>) /\ (h = "F" => t = <<>>)
    <2>1. CASE r = <<"V", "(", "F">>
      <3>1. Tail(r) = <<"(", "F">> /\ Head(r) = "V"
        BY <2>1
      <3> QED
        BY <1>0, <3>1
    <2>2. CASE r = <<"F">>
      BY <1>2, <2>2
    <2> QED
      BY <1>1, <1>6, <2>1, <2>2 DEF ArgsFit
  <1>7. ASSUME f.form = "call", t = <<>>
        PROVE  h \notin Special \cup {"M", "Z"}
    <2>1. Len(r) = 1
      BY <1>2, <1>7
    <2> QED
      BY <1>1, <1>2, <1>7, <2>1 DEF ArgsFit
  <1>8. LeftFits(f, h, t)
    BY <1>3, <1>4, <1>5, <1>6, <1>7 DEF LeftFits
  <1> QED
    BY <1>0, <1>1, <1>8

\* The construct on its next argument.
LEMMA NextFits ==
    ASSUME NEW f \in FrameType, ArgsFit(f),
           \/ f.form \in {"plain", "call"} /\ Len(f.args) > 1
           \/ f.form \in {"function", "code"} /\ Len(f.args) > 2,
           NEW g, g = Fr(f.form, Tail(f.args), <<>>)
    PROVE  g \in FrameType /\ Fit(g)
  <1>1. PICK r \in Seq(ArgType) : r = f.args
    BY DEF FrameType
  <1>2. PICK t : t = Tail(r)
    OBVIOUS
  <1>3. PICK n \in Nat : Len(r) = n + 1 /\ n > 0
    <2>1. PICK k \in Nat : k = Len(r)
      OBVIOUS
    <2>2. k > 1
      BY <1>1, <2>1
    <2>3. PICK n \in Nat : k = n + 1 /\ n > 0
      BY <2>2
    <2> QED
      BY <2>1, <2>3
  <1>4. /\ Len(r) = n + 1 /\ t \in Seq(ArgType)
        /\ Len(t) = n /\ \A i \in 1 .. n : t[i] = r[i + 1]
    BY <1>2, <1>3
  <1>5. t # <<>>
    BY <1>3, <1>4
  <1>6. g.form = f.form /\ g.args = t /\ g.groups = <<>>
    BY <1>1, <1>2, FrFields
  <1>7. g \in FrameType
    <2>1. <<>> \in Seq(GroupType)
      OBVIOUS
    <2> QED
      BY <1>1, <1>2, <1>4, <2>1 DEF FrameType, Fr
  <1>8. CASE f.form \in {"plain", "call"}
    <2>1. r \in Seq(CommandType) /\ FinalAtEnd(r)
      BY <1>1, <1>8 DEF ArgsFit
    <2>2. t \in Seq(CommandType)
      BY <1>2, <1>3, <1>4, <2>1
    <2>3. FinalAtEnd(t)
      BY <1>4, <2>1 DEF FinalAtEnd
    <2>4. f.form = "call" => t[Len(t)] \notin Special \cup {"M", "Z"}
      <3>1. t[n] = r[n + 1]
        BY <1>3, <1>4
      <3>2. f.form = "call" => r[n + 1] \notin Special \cup {"M", "Z"}
        BY <1>1, <1>4 DEF ArgsFit
      <3> QED
        BY <1>4, <3>1, <3>2
    <2> QED
      BY <1>5, <1>6, <1>7, <1>8, <2>2, <2>3, <2>4 DEF ArgsFit, Fit
  <1>9. CASE f.form \in {"function", "code"}
    <2>1. CallFits(r)
      BY <1>1, <1>9 DEF ArgsFit
    <2>2. n > 1
      BY <1>1, <1>4, <1>9
    <2>3. /\ r \in Seq(Inner \cup {"(", "<", ")"}) /\ r[n + 1] = ")"
          /\ \A i \in 1 .. n : /\ i > 1 => r[i] \in Inner
                               /\ r[i] # ")"
                               /\ r[i] \in Final => i = n
      BY <1>4, <2>1 DEF CallFits
    <2>4. t \in Seq(Inner \cup {"(", "<", ")"})
      BY <1>2, <1>3, <1>4, <2>3
    <2>5. t[n] = ")"
      BY <1>3, <1>4, <2>3
    <2>6. \A i \in 1 .. n - 1 : /\ t[i] \in Inner /\ t[i] # ")"
                                /\ t[i] \in Final => i = n - 1
      BY <1>4, <2>3
    <2>7. t[1] \notin {"(", "<"}
      BY <2>2, <2>6 DEF Inner
    <2>8. CallFits(t)
      BY <1>4, <2>2, <2>4, <2>5, <2>6, <2>7 DEF CallFits
    <2> QED
      BY <1>5, <1>6, <1>7, <1>9, <2>8 DEF ArgsFit, Fit
  <1> QED
    BY <1>8, <1>9

\* The last of an author's constructs.
LEMMA ShapedLast ==
    ASSUME NEW a, Shaped(a)
    PROVE  /\ a \in Seq(FrameType) /\ a # <<>> /\ Len(a) \in Nat /\ Len(a) > 0
           /\ Last(a) \in FrameType /\ Fit(Last(a))
           /\ Last(a).form = "script" <=> Len(a) = 1
           /\ Last(a).form = "call" => Len(a) = 2
           /\ Last(a).groups \in Seq(GroupType) /\ Last(a).args \in Seq(ArgType)
           /\ Last(a).args # <<>> /\ ArgsFit(Last(a))
           /\ HeadFits(Last(a), Head(Last(a).args))
  <1>1. a \in Seq(FrameType) /\ a # <<>>
    BY DEF Shaped
  <1>2. Len(a) \in Nat /\ Len(a) > 0
    BY <1>1
  <1>3. Last(a) = a[Len(a)] /\ Last(a) \in FrameType
    BY <1>1, LastFront
  <1>4. /\ Fit(a[Len(a)])
        /\ a[Len(a)].form = "script" <=> Len(a) = 1
        /\ a[Len(a)].form = "call" => Len(a) = 2
    <2>1. PICK n \in Nat : n = Len(a) /\ n > 0
      BY <1>2
    <2>2. n \in 1 .. n
      BY <2>1
    <2> QED
      BY <2>1, <2>2 DEF Shaped
  <1>5. ArgsFit(Last(a)) /\ Last(a).args # <<>>
    BY <1>3, <1>4 DEF Fit, ArgsFit
  <1>6. HeadFits(Last(a), Head(Last(a).args))
    BY <1>3, <1>5, ArgsHead
  <1>7. Last(a).groups \in Seq(GroupType) /\ Last(a).args \in Seq(ArgType)
    BY <1>3 DEF FrameType
  <1> QED
    BY <1>1, <1>2, <1>3, <1>4, <1>5, <1>6, <1>7

\* One more construct.
LEMMA ShapedAppend ==
    ASSUME NEW a, Shaped(a), NEW f \in FrameType, Fit(f), f.form # "script",
           f.form = "call" => Len(a) = 1
    PROVE  Shaped(Append(a, f)) /\ Last(Append(a, f)) = f
  <1>1. PICK b : b = Append(a, f)
    OBVIOUS
  <1>2. PICK n \in Nat : Len(a) = n /\ n > 0
    BY ShapedLast
  <1>3. a \in Seq(FrameType)
    BY DEF Shaped
  <1>4. /\ b \in Seq(FrameType) /\ b # <<>> /\ Len(b) = n + 1
        /\ b[n + 1] = f /\ \A i \in 1 .. n : b[i] = a[i]
        /\ Last(b) = f
    BY <1>1, <1>2, <1>3, Appended
  <1>5. ASSUME NEW i \in 1 .. n + 1
        PROVE  Fit(b[i]) /\ (b[i].form = "script" <=> i = 1) /\ (b[i].form = "call" => i = 2)
    <2>1. CASE i = n + 1
      BY <1>2, <1>4, <2>1
    <2>2. CASE i # n + 1
      <3>1. i \in 1 .. n /\ b[i] = a[i]
        BY <1>4, <2>2
      <3> QED
        BY <1>2, <3>1 DEF Shaped
    <2> QED
      BY <2>1, <2>2
  <1>6. Shaped(b)
    BY <1>4, <1>5 DEF Shaped
  <1> QED
    BY <1>1, <1>4, <1>6

\* One construct less.
LEMMA ShapedFront ==
    ASSUME NEW a, Shaped(a), Len(a) > 1
    PROVE  Shaped(Front(a)) /\ Len(Front(a)) = Len(a) - 1
  <1>1. PICK n \in Nat : Len(a) = n + 1 /\ n > 0
    <2>1. PICK k \in Nat : k = Len(a)
      BY ShapedLast
    <2>2. PICK n \in Nat : k = n + 1 /\ n > 0
      BY <2>1
    <2> QED
      BY <2>1, <2>2
  <1>2. a \in Seq(FrameType) /\ a # <<>>
    BY DEF Shaped
  <1>3. /\ Front(a) \in Seq(FrameType) /\ Len(Front(a)) = n
        /\ \A i \in 1 .. n : Front(a)[i] = a[i]
    BY <1>1, <1>2, LastFront
  <1>4. Front(a) # <<>>
    BY <1>1, <1>3
  <1> QED
    BY <1>1, <1>3, <1>4 DEF Shaped

\* The last construct replaced by one of its form.
LEMMA ShapedReplaced ==
    ASSUME NEW a, Shaped(a), NEW h \in FrameType, Fit(h), h.form = Last(a).form
    PROVE  Shaped(Append(Front(a), h)) /\ Last(Append(Front(a), h)) = h
  <1>1. PICK b : b = Append(Front(a), h)
    OBVIOUS
  <1>2. PICK n \in Nat : Len(a) = n + 1
    <2>1. PICK k \in Nat : k = Len(a) /\ k > 0
      BY ShapedLast
    <2>2. PICK n \in Nat : k = n + 1
      BY <2>1
    <2> QED
      BY <2>1, <2>2
  <1>3. a \in Seq(FrameType) /\ a # <<>>
    BY DEF Shaped
  <1>4. /\ Front(a) \in Seq(FrameType) /\ Len(Front(a)) = n
        /\ \A i \in 1 .. n : Front(a)[i] = a[i]
        /\ Last(a) = a[n + 1]
    <2>1. \A i \in 1 .. Len(a) - 1 : Front(a)[i] = a[i]
      BY <1>3, LastFront
    <2>2. Front(a) \in Seq(FrameType) /\ Len(Front(a)) = Len(a) - 1 /\ Last(a) = a[Len(a)]
      BY <1>3, LastFront
    <2> QED
      BY <1>2, <2>1, <2>2
  <1>5. /\ b \in Seq(FrameType) /\ b # <<>> /\ Len(b) = n + 1 /\ Last(b) = h
        /\ b[n + 1] = h /\ \A i \in 1 .. n : b[i] = a[i]
    BY <1>1, <1>4, Appended
  <1>6. ASSUME NEW i \in 1 .. n + 1
        PROVE  Fit(b[i]) /\ (b[i].form = "script" <=> i = 1) /\ (b[i].form = "call" => i = 2)
    <2>1. Fit(a[i]) /\ (a[i].form = "script" <=> i = 1) /\ (a[i].form = "call" => i = 2)
      BY <1>2 DEF Shaped
    <2>2. CASE i = n + 1
      BY <1>4, <1>5, <2>1, <2>2
    <2>3. CASE i # n + 1
      BY <1>5, <2>1, <2>3
    <2> QED
      BY <2>2, <2>3
  <1>7. Shaped(b)
    BY <1>5, <1>6 DEF Shaped
  <1> QED
    BY <1>1, <1>5, <1>7

\* What the lexer's rules see of the author's last construct, f, whose
\* arguments are h and then t.
At(l, f, h, t) ==
    /\ l.mode = ModeOf(h) /\ l.brace = BraceOf(f) /\ l.lit = LitOf(f)
    /\ FuncPop(l) <=> f.form = "call" \/ (f.form \in {"function", "code"} /\ h \notin {"(", "<"})
    /\ CmdPop(l) <=> \/ f.form \in {"script", "plain", "declare"}
                     \/ f.form \in {"function", "code"} /\ h \in {"(", "<"}
    /\ ArrayPop(l) <=> f.form = "index"
    /\ CommaPop(l) <=> /\ f.form # "index" /\ h # "P"
                       /\ ~ (h \in {"S", "R"} /\ t \in {<<>>, <<")">>})
    /\ InCall(l) <=> f.form = "call"
    /\ f.form = "script" => l.states = <<>>
    /\ f.form # "script" => /\ l.states # <<>> /\ Top(l).args = t
                            /\ Top(l).code <=> f.form = "code"

\* Where the lexer is where an author is, the tests its rules make are
\* questions about the author's last construct.
LEMMA LexAt ==
    ASSUME NEW a, Shaped(a), NEW z, NEW l, l = Lex(a, z)
    PROVE  At(l, Last(a), Head(Last(a).args), Tail(Last(a).args))
  <1>1. PICK f : f = Last(a)
    OBVIOUS
  <1>2. PICK h, t : h = Head(f.args) /\ t = Tail(f.args)
    OBVIOUS
  <1>3. /\ l.mode = ModeOf(h) /\ l.brace = BraceOf(f) /\ l.lit = LitOf(f)
        /\ l.states = StatesOf(a)
    BY <1>1, <1>2, RecFields DEF Lex
  <1>4. HeadFits(f, h) /\ f.form \in Holding \cup {"script"}
    BY <1>1, <1>2, ShapedLast DEF FrameType
  <1>5. CASE f.form = "script"
    <2>1. l.states = <<>>
      BY <1>1, <1>3, <1>5, ShapedLast, StatesEmpty
    <2>2. FuncPop(l) = FALSE /\ CmdPop(l) = TRUE /\ ArrayPop(l) = FALSE
          /\ CommaPop(l) = TRUE /\ InCall(l) = FALSE
      BY <2>1 DEF FuncPop, CmdPop, ArrayPop, CommaPop, InCall
    <2>3. h = "DEFAULT"
      BY <1>4, <1>5 DEF HeadFits
    <2>4. At(l, f, h, t)
      BY <1>3, <1>5, <2>1, <2>2, <2>3 DEF At
    <2> QED
      BY <1>1, <1>2, <2>4
  <1>6. CASE f.form # "script"
    <2>1. PICK g, e : g = Last(Front(a)) /\ e = StateOf(f, g)
      OBVIOUS
    <2>2. a \in Seq(FrameType) /\ Len(a) > 1
      <3>1. a \in Seq(FrameType) /\ Len(a) \in Nat /\ Len(a) > 0
        BY ShapedLast
      <3>2. PICK n \in Nat : n = Len(a) /\ n > 0
        BY <3>1
      <3>3. n # 1
        BY <1>1, <1>6, <3>2, ShapedLast
      <3>4. n > 1
        BY <3>2, <3>3
      <3> QED
        BY <3>1, <3>2, <3>4
    <2>3. On(StatesOf(a), StatesOf(Front(a)), e)
      BY <1>1, <2>1, <2>2, StatesOn
    <2>4. l.states # <<>> /\ Top(l) = e
      BY <1>3, <2>3 DEF On, Top
    <2>5. /\ e.args = t /\ e.pop = PopOf(f) /\ e.comma = CommaEnds(f.form # "index", f.args)
          /\ e.code = (f.form = "code") /\ e.call = (f.form = "call")
      BY <1>2, <2>1, StateOfFields
    <2>6. /\ FuncPop(l) <=> PopOf(f) = "FUNCTION"
          /\ CmdPop(l) <=> PopOf(f) = "COMMAND"
          /\ ArrayPop(l) <=> PopOf(f) = "ARRAYINDEX"
          /\ InCall(l) <=> f.form = "call"
      BY <2>4, <2>5 DEF FuncPop, CmdPop, ArrayPop, InCall
    <2>7. CommaPop(l) <=> CommaEnds(f.form # "index", f.args)
      BY <2>4, <2>5 DEF CommaPop
    <2>8. CommaEnds(f.form # "index", f.args)
            <=> /\ f.form # "index" /\ h # "P"
                /\ ~ (h \in {"S", "R"} /\ t \in {<<>>, <<")">>})
      BY <1>2 DEF CommaEnds
    <2>9. /\ PopOf(f) = "FUNCTION" <=> \/ f.form = "call"
                                       \/ f.form \in {"function", "code"} /\ h \notin {"(", "<"}
          /\ PopOf(f) = "COMMAND" <=> \/ f.form \in {"plain", "declare"}
                                      \/ f.form \in {"function", "code"} /\ h \in {"(", "<"}
          /\ PopOf(f) = "ARRAYINDEX" <=> f.form = "index"
      BY <1>2, <1>4, <1>6 DEF PopOf, Called, Holding
    <2>10. At(l, f, h, t)
      BY <1>3, <1>6, <2>4, <2>5, <2>6, <2>7, <2>8, <2>9 DEF At
    <2> QED
      BY <1>1, <1>2, <2>10
  <1> QED
    BY <1>5, <1>6

-----------------------------------------------------------------------------
(* A lexeme written and read.                                              *)

\* The lexer reads x as meant, and is then where open is.
Reads(x, meant, open) == ScanOne(lexer, x) = Emit(Lex(open, lexer.last), meant)

\* The last token after these.
After(z, meant) == IF meant = <<>> THEN z ELSE Seen(Last(meant))

\* No argument's mode is the lexer's error.
LEMMA NoError ==
    ASSUME NEW h \in ArgType
    PROVE  ModeOf(h) # "ERROR"
  BY DEF ModeOf, ArgType, CommandType, Special

\* A lexeme that is read as it was meant, by a lexer that is then where
\* the author is, keeps the invariant.
LEMMA Written ==
    ASSUME ReadAsMeant, NEW x, NEW meant, NEW open, NEW next,
           Write(x, meant, open, next), Reads(x, meant, open), Shaped(open),
           Follows(next, After(lexer.last, meant), Last(open))
    PROVE  IInv'
  <1>1. PICK l : l = ScanOne(lexer, x)
    OBVIOUS
  <1>2. PICK f, z : f = Last(open) /\ z = After(lexer.last, meant)
    OBVIOUS
  <1>3. PICK m, b, t, s, y, o : /\ m = ModeOf(Head(f.args)) /\ b = BraceOf(f)
                                /\ t = LitOf(f) /\ s = StatesOf(open)
                                /\ y = lexer.last /\ o = <<>>
    OBVIOUS
  <1>4. l = Rec(m, b, t, s, z, meant)
    <2>1. PICK k : k = Lex(open, y)
      OBVIOUS
    <2>2. k = Rec(m, b, t, s, y, o)
      BY <1>2, <1>3, <2>1, Zenon DEF Lex
    <2>3. Rec(m, b, t, s, y, o).last = y
      BY RecFields
    <2>4. Emit(k, meant) = Tell(k, meant, IF meant = <<>> THEN k.last ELSE Seen(Last(meant)))
      BY Zenon DEF Emit, Tell
    <2>5. Emit(k, meant) = Tell(k, meant, z)
      BY <1>2, <1>3, <2>2, <2>3, <2>4, Zenon DEF After
    <2>6. Tell(Rec(m, b, t, s, y, o), meant, z) = Rec(m, b, t, s, z, meant)
      BY RecTell
    <2> QED
      BY <1>1, <1>3, <2>1, <2>2, <2>5, <2>6, Zenon DEF Reads
  <1>5. l.out = meant /\ l.mode = m
    <2>1. Rec(m, b, t, s, z, meant).out = meant /\ Rec(m, b, t, s, z, meant).mode = m
      BY RecFields
    <2> QED
      BY <1>4, <2>1, Zenon
  <1>6. m # "ERROR"
    <2>1. Head(f.args) \in ArgType
      BY <1>2, ShapedLast DEF HeadFits
    <2> QED
      BY <1>3, <2>1, NoError
  <1>7. /\ lexer' = WithOut(l, o) /\ author' = open /\ place' = next
        /\ misread' = IF misread = "" /\ (l.out # meant \/ l.mode = "ERROR") THEN x.k ELSE misread
    BY <1>1, <1>3, Zenon DEF Write, WithOut
  <1>8. misread' = ""
    BY <1>5, <1>6, <1>7 DEF ReadAsMeant
  <1>9. WithOut(Rec(m, b, t, s, z, meant), o) = Rec(m, b, t, s, z, o)
    BY RecWith
  <1>10. lexer' = Rec(m, b, t, s, z, o)
    BY <1>4, <1>7, <1>9, Zenon
  <1>11. lexer'.last = z
    <2>1. Rec(m, b, t, s, z, o).last = z
      BY RecFields
    <2> QED
      BY <1>10, <2>1, Zenon
  <1>12. lexer' = Lex(open, z)
    BY <1>2, <1>3, <1>10, Zenon DEF Lex
  <1>13. lexer' = Lex(author', lexer'.last)
    BY <1>7, <1>11, <1>12, Zenon
  <1>14. Shaped(author')
    BY <1>7
  <1>15. Follows(place', lexer'.last, Last(author'))
    BY <1>2, <1>7, <1>11, Zenon
  <1> QED
    BY <1>8, <1>13, <1>14, <1>15 DEF IInv, Here, ReadAsMeant

-----------------------------------------------------------------------------
(* The lexer's rules.                                                      *)

\* The rule of each mode.
LEMMA ScanRules ==
    ASSUME NEW l, NEW x
    PROVE  /\ l.mode = "DEFAULT" => ScanOne(l, x) = ModeDefault(l, x)
           /\ l.mode \in {"E", "D", "M"} => ScanOne(l, x) = ModeExpr(l, x)
           /\ l.mode = "V" => ScanOne(l, x) = ModeVariable(l, x)
           /\ l.mode \in {"S", "R"} => ScanOne(l, x) = ModeString(l, x)
           /\ l.mode = "L" => ScanOne(l, x) = ModeList(l, x)
           /\ l.mode \in Special => ScanOne(l, x) = ModeSpecial(l, x)
           /\ l.mode = "Z" => ScanOne(l, x) = ModeBody(l, x)
           /\ l.mode \in {"P1", "P3"} => ScanOne(l, x) = ModeOpen(l, x)
           /\ l.mode = "P2" => ScanOne(l, x) = ModeClose(l, x)
           /\ l.mode = "F" => ScanOne(l, x) = ModeParameters(l, x)
  BY DEF ScanOne, Special

\* What a mode is, by the argument.
LEMMA Modes ==
    ASSUME NEW h \in ArgType, h # ")"
    PROVE  /\ h = "DEFAULT" <=> ModeOf(h) = "DEFAULT"
           /\ h \in {"E", "P", "D", "M"} <=> ModeOf(h) \in {"E", "D", "M"}
           /\ h \in {"E", "P"} <=> ModeOf(h) = "E"
           /\ h = "M" <=> ModeOf(h) = "M"
           /\ h = "D" <=> ModeOf(h) = "D"
           /\ h = "V" <=> ModeOf(h) = "V"
           /\ h = "S" <=> ModeOf(h) = "S"
           /\ h = "R" <=> ModeOf(h) = "R"
           /\ h = "L" <=> ModeOf(h) = "L"
           /\ h \in Special <=> ModeOf(h) \in Special
           /\ h = "Z" <=> ModeOf(h) = "Z"
           /\ h = "(" <=> ModeOf(h) = "P1"
           /\ h = "<" <=> ModeOf(h) = "P3"
           /\ h = "F" <=> ModeOf(h) = "F"
  BY DEF ModeOf, ArgType, CommandType, Special

\* Four lexemes, by name.
LBrace == "{"
RBrace == "}"
Sep    == ","
Stop   == ";"

\* The tokens of the lexemes that are no word.
LEMMA Tokens ==
    /\ Token["("] = "PAREN_LEFT" /\ Token[")"] = "PAREN_RIGHT" /\ Token["["] = "BRACKET_LEFT"
    /\ Token["]"] = "BRACKET_RIGHT" /\ Token[LBrace] = "BRACE_LEFT" /\ Token[RBrace] = "BRACE_RIGHT"
    /\ Token[Sep] = "COMMA" /\ Token["."] = "PERIOD" /\ Token[Stop] = "END"
    /\ Token["op"] = "OP" /\ Token["quoted"] = "QUOTED" /\ Token["junk"] = "WORD"
  BY Zenon DEF Token, LBrace, RBrace, Sep, Stop

Plain == {"(", ")", "[", "]", LBrace, RBrace, Sep, ".", Stop, "op", "quoted", "junk"}

\* Mode DEFAULT.
LEMMA DefaultRows ==
    ASSUME NEW l, NEW x
    PROVE  /\ x.k = "code" => ModeDefault(l, x) = MatchMessagecode(l, x)
           /\ x.k = "[" => ModeDefault(l, x) = Emit(PushIndex(l), <<"BRACKET_LEFT">>)
           /\ x.k \in Name => ModeDefault(l, x) = DefaultWord(l, x)
           /\ x.k \in Plain \ {"["} => ModeDefault(l, x) = Emit(l, <<Token[x.k]>>)
  BY Zenon DEF ModeDefault, Name, Plain, LBrace, RBrace, Sep, Stop

\* The expression modes.
LEMMA ExprRows ==
    ASSUME NEW l, NEW x
    PROVE  /\ x.k = "code" => ModeExpr(l, x) = MatchMessagecode(l, x)
           /\ x.k = "[" => ModeExpr(l, x) = Emit(PushIndex(l), <<"BRACKET_LEFT">>)
           /\ x.k \in Name => ModeExpr(l, x) = ExprWord(l, x)
           /\ x.k \in {".", "op", "quoted", "junk"} => ModeExpr(l, x) = Emit(l, <<Token[x.k]>>)
           /\ x.k = LBrace => ModeExpr(l, x) = Emit(WithLit(l, l.lit + 1), <<"BRACE_LEFT">>)
           /\ x.k = RBrace /\ l.lit > 0 =>
                ModeExpr(l, x) = Emit(WithLit(l, l.lit - 1), <<"BRACE_RIGHT">>)
           /\ x.k = RBrace /\ ~(l.lit > 0) /\ CmdPop(l) => ModeExpr(l, x) = EndAtBrace(l)
           /\ x.k = Stop /\ CmdPop(l) => ModeExpr(l, x) = EndStatement(l)
           /\ x.k = Sep /\ ~(l.lit > 0) /\ CommaPop(l) => ModeExpr(l, x) = NextArgument(l)
           /\ x.k = Sep /\ (l.lit > 0 \/ ~CommaPop(l)) => ModeExpr(l, x) = Emit(l, <<"COMMA">>)
           /\ x.k = "]" /\ ArrayPop(l) =>
                ModeExpr(l, x) = Emit(PopNextMode(l, FALSE), <<"BRACKET_RIGHT">>)
  BY Tokens, Zenon DEF ModeExpr, Name, WithLit, LBrace, RBrace, Sep, Stop

\* Their parentheses.
LEMMA ParenRows ==
    ASSUME NEW l, NEW x
    PROVE  /\ x.k = "(" /\ l.mode = "E" =>
                ModeExpr(l, x) = Emit(WithBrace(l, l.brace + 1), <<"PAREN_LEFT">>)
           /\ x.k = "(" /\ l.mode # "E" => ModeExpr(l, x) = Emit(l, <<"PAREN_LEFT">>)
           /\ x.k = ")" /\ l.mode # "M" /\ ~(l.lit > 0) /\ FuncPop(l) /\ l.brace = 0 =>
                ModeExpr(l, x) = EndCall(l)
           /\ x.k = ")" /\ l.mode = "E" /\ (l.lit > 0 \/ ~FuncPop(l) \/ l.brace # 0) =>
                ModeExpr(l, x) = Emit(WithBrace(l, l.brace + (-1)), <<"PAREN_RIGHT">>)
           /\ x.k = ")" /\ l.mode # "E" /\ (l.mode = "M" \/ ~FuncPop(l)) =>
                ModeExpr(l, x) = Emit(l, <<"PAREN_RIGHT">>)
  BY Zenon DEF ModeExpr, WithBrace, Name

\* Mode V.
LEMMA VariableRows ==
    ASSUME NEW l, NEW x
    PROVE  /\ x.k = "code" => ModeVariable(l, x) = MatchMessagecode(l, x)
           /\ x.k = "[" => ModeVariable(l, x) = Emit(PushIndex(l), <<"BRACKET_LEFT">>)
           /\ x.k \in Name => ModeVariable(l, x) = Emit(l, <<"WORD">>)
           /\ x.k = "." => ModeVariable(l, x) = Emit(l, <<"PERIOD">>)
           /\ x.k = Sep => ModeVariable(l, x) = NextArgument(l)
           /\ x.k = RBrace /\ CmdPop(l) => ModeVariable(l, x) = EndAtBrace(l)
           /\ x.k = Stop /\ CmdPop(l) => ModeVariable(l, x) = EndStatement(l)
           /\ x.k = ")" /\ FuncPop(l) => ModeVariable(l, x) = EndCall(l)
           /\ x.k = "(" /\ l.states # <<>> /\ Top(l).args # <<>> /\ Head(Top(l).args) = "(" =>
                ModeVariable(l, x) = Emit(PopNextMode(PopNextMode(l, FALSE), FALSE),
                                          <<"PAREN_LEFT">>)
  BY Zenon DEF ModeVariable, Name, LBrace, RBrace, Sep, Stop

\* The modes of text.
LEMMA StringRows ==
    ASSUME NEW l, NEW x
    PROVE  /\ x.k = "function" /\ InCall(l) /\ l.mode # "R" /\ l.last # "STRING" =>
                ModeString(l, x) = ExprWord(l, x)
           /\ x.k \in {"word", "builtin", "("} => ModeString(l, x) = StringRun(l, x, l.mode = "R")
           /\ x.k = RBrace /\ CmdPop(l) => ModeString(l, x) = EndAtBrace(l)
           /\ x.k = Stop /\ CmdPop(l) => ModeString(l, x) = EndStatement(l)
           /\ x.k = Stop /\ ~CmdPop(l) => ModeString(l, x) = StringRun(l, x, l.mode = "R")
           /\ x.k = Sep /\ CommaPop(l) => ModeString(l, x) = NextArgument(l)
           /\ x.k = Sep /\ ~CommaPop(l) => ModeString(l, x) = StringRun(l, x, l.mode = "R")
           /\ x.k = "quoted" /\ InCall(l) => ModeString(l, x) = Emit(l, <<"QUOTED">>)
           /\ x.k = "code" /\ l.mode # "R" => ModeString(l, x) = MatchMessagecode(l, x)
           /\ x.k = ")" /\ l.mode # "R" /\ FuncPop(l) /\ (l.brace = 0 \/ Top(l).code) =>
                ModeString(l, x) = EndCall(l)
           /\ x.k = ")" /\ l.mode = "R" /\ FuncPop(l) /\ l.brace = 0 /\ InCall(l)
                /\ l.last # "STRING" => ModeString(l, x) = EndCall(l)
           /\ x.k = ")" /\ l.mode # "R" /\ l.brace # 0 /\ ~Top(l).code =>
                ModeString(l, x) = StringRun(l, x, l.mode = "R")
  BY Zenon DEF ModeString, LBrace, RBrace, Sep, Stop

\* Mode L, whose commas are always separators.
LEMMA ListRows ==
    ASSUME NEW l, NEW x
    PROVE  /\ x.k = "function" /\ InCall(l) /\ l.last # "STRING" =>
                ModeList(l, x) = ExprWord(l, x)
           /\ x.k \in {"word", "builtin"} => ModeList(l, x) = Emit(l, <<"STRING">>)
           /\ x.k = RBrace /\ CmdPop(l) => ModeList(l, x) = EndAtBrace(l)
           /\ x.k = Stop /\ CmdPop(l) => ModeList(l, x) = EndStatement(l)
           /\ x.k = Stop /\ ~CmdPop(l) => ModeList(l, x) = Emit(l, <<"STRING">>)
           /\ x.k = Sep => ModeList(l, x) = Emit(l, <<"COMMA">>)
           /\ x.k = "quoted" /\ InCall(l) => ModeList(l, x) = Emit(l, <<"QUOTED">>)
           /\ x.k = "code" => ModeList(l, x) = MatchMessagecode(l, x)
           /\ x.k = ")" /\ FuncPop(l) => ModeList(l, x) = EndCall(l)
  BY Zenon DEF ModeList, LBrace, RBrace, Sep, Stop

\* A run of text.
LEMMA RunRows ==
    ASSUME NEW l, NEW x, NEW raw \in BOOLEAN
    PROVE  /\ x.k \notin {"(", ")"} => StringRun(l, x, raw) = Emit(l, <<"STRING">>)
           /\ ~FuncPop(l) \/ raw \/ Top(l).code => StringRun(l, x, raw) = Emit(l, <<"STRING">>)
           /\ FuncPop(l) /\ ~raw /\ ~Top(l).code /\ x.k = "(" =>
                StringRun(l, x, raw) = Emit(WithBrace(l, l.brace + 1), <<"STRING">>)
           /\ FuncPop(l) /\ ~raw /\ ~Top(l).code /\ x.k = ")" =>
                StringRun(l, x, raw) = Emit(WithBrace(l, l.brace - 1), <<"STRING">>)
  BY DEF StringRun, WithBrace

\* The other modes.
LEMMA SpecialRows ==
    ASSUME NEW l, NEW x
    PROVE  /\ x.k = RBrace /\ CmdPop(l) => ModeSpecial(l, x) = EndAtBrace(l)
           /\ x.k = ")" /\ FuncPop(l) =>
                ModeSpecial(l, x) = Emit(PopNextMode(l, TRUE), <<"PAREN_RIGHT">>)
           /\ x.k = Stop /\ CmdPop(l) => ModeSpecial(l, x) = EndStatement(l)
           /\ x.k = Sep => ModeSpecial(l, x) = NextArgument(l)
           /\ x.k \in Name => ModeSpecial(l, x) = Emit(l, <<"SPECIAL">>)
  BY Zenon DEF ModeSpecial, Name, LBrace, RBrace, Sep, Stop

\* Mode Z, which counts the braces of the code.
LEMMA BodyRows ==
    ASSUME NEW l, NEW x
    PROVE  /\ x.k = LBrace => ModeBody(l, x) = Emit(WithBrace(l, l.brace + 1),
                                                 IF l.brace = 0 THEN <<>> ELSE <<"STRING">>)
           /\ x.k = Stop /\ l.brace # 0 => ModeBody(l, x) = Emit(l, <<"STRING">>)
           /\ x.k = Stop /\ l.brace = 0 => ModeBody(l, x) = Emit(PopNextMode(l, FALSE), <<"END">>)
           /\ x.k = RBrace /\ l.brace = 1 => ModeBody(l, x) = Emit(PopNextMode(l, FALSE), <<"END">>)
           /\ x.k = RBrace /\ l.brace # 1 =>
                ModeBody(l, x) = Emit(WithBrace(l, l.brace - 1), <<"STRING">>)
           /\ x.k \in {"word", "builtin"} => ModeBody(l, x) = Emit(l, <<"STRING">>)
  BY Zenon DEF ModeBody, WithBrace, LBrace, RBrace, Sep, Stop

\* The modes of a call's parentheses and of a declaration's parameters.
LEMMA CallRows ==
    ASSUME NEW l, NEW x
    PROVE  /\ x.k = "(" /\ l.mode # "P3" => ModeOpen(l, x) = Emit(OpenCall(l), <<"PAREN_LEFT">>)
           /\ x.k = "(" /\ x.next # ")" => ModeOpen(l, x) = Emit(OpenCall(l), <<"PAREN_LEFT">>)
           /\ x.k = "(" /\ l.mode = "P3" /\ x.next = ")" =>
                ModeOpen(l, x) = Emit(PopNextMode(OpenCall(l), FALSE), <<"PAREN_LEFT">>)
           /\ x.k = ")" => ModeParameters(l, x) = Emit(PopNextMode(l, TRUE), <<"PAREN_RIGHT">>)
           /\ x.k = Sep => ModeParameters(l, x) = Emit(l, <<"COMMA">>)
           /\ x.k \in Name => ModeParameters(l, x) = Emit(l, <<"WORD">>)
  BY Tokens, Zenon DEF ModeOpen, ModeParameters, Name, LBrace, RBrace, Sep, Stop

\* Words.
LEMMA WordRows ==
    ASSUME NEW l, NEW x
    PROVE  /\ x.k \in {"word", "builtin", "command"} => ExprWord(l, x) = Emit(l, <<"WORD">>)
           /\ x.k \in Name /\ l.last = "PERIOD" => ExprWord(l, x) = Emit(l, <<"WORD">>)
           /\ x.k = "function" /\ l.last # "PERIOD" =>
                ExprWord(l, x) = Emit(Push(l, x.args, "COMMAND", FALSE, FALSE), <<"FUNCTION">>)
           /\ x.k \in {"word", "builtin"} => DefaultWord(l, x) = Emit(l, <<"WORD">>)
           /\ x.k = "command" /\ l.last \in {"PERIOD", "OP"} =>
                DefaultWord(l, x) = Emit(l, <<"WORD">>)
           /\ x.k = "command" /\ l.last \notin {"PERIOD", "OP"} =>
                DefaultWord(l, x) = Emit(Push(l, x.args, IF x.form = "call" THEN "FUNCTION" ELSE "COMMAND",
                                              FALSE, x.form = "call"), <<"COMMAND">>)
           /\ x.k = "declare" /\ l.last # "PERIOD" =>
                DefaultWord(l, x) = Emit(Push(l, <<"V", "(", "F">>, "COMMAND", FALSE, FALSE),
                                         <<"KEYWORD">>)
           /\ x.k = "function" => DefaultWord(l, x) = ExprWord(l, x)
  <1>1. /\ x.k \in {"word", "builtin", "command"} => ExprWord(l, x) = Emit(l, <<"WORD">>)
        /\ x.k \in Name /\ l.last = "PERIOD" => ExprWord(l, x) = Emit(l, <<"WORD">>)
        /\ x.k = "function" /\ l.last # "PERIOD" =>
             ExprWord(l, x) = Emit(Push(l, x.args, "COMMAND", FALSE, FALSE), <<"FUNCTION">>)
    BY DEF ExprWord, Name
  <1> QED
    BY <1>1 DEF DefaultWord

-----------------------------------------------------------------------------
(* The author's and the lexer's present.                                   *)

\* What is known where f is the last construct, on h with t left after it.
Known(f, h, t) ==
    /\ f \in FrameType /\ Fit(f) /\ f.groups \in Seq(GroupType) /\ f.args \in Seq(ArgType)
    /\ f.args # <<>> /\ h \in ArgType /\ h # ")"
    /\ HeadFits(f, h) /\ LeftFits(f, h, t) /\ At(lexer, f, h, t)
    /\ Follows(place, lexer.last, f)

\* The invariant says all of it.
LEMMA Present ==
    ASSUME IInv
    PROVE  /\ Known(Here, Argument, Tail(Here.args))
           /\ Shaped(author) /\ ReadAsMeant /\ lexer = Lex(author, lexer.last)
           /\ Last(author) = Here
  <1>1. Shaped(author) /\ lexer = Lex(author, lexer.last) /\ ReadAsMeant
        /\ Follows(place, lexer.last, Here)
    BY DEF IInv
  <1>2. /\ Here \in FrameType /\ Fit(Here) /\ ArgsFit(Here) /\ HeadFits(Here, Argument)
        /\ Here.groups \in Seq(GroupType) /\ Here.args \in Seq(ArgType) /\ Here.args # <<>>
    BY <1>1, ShapedLast DEF Here, Argument
  <1>3. LeftFits(Here, Argument, Tail(Here.args))
    BY <1>2, ArgsLeft DEF Argument
  <1>4. At(lexer, Here, Argument, Tail(Here.args))
    BY <1>1, LexAt DEF Here, Argument
  <1>5. Argument \in ArgType /\ Argument # ")"
    BY <1>2 DEF HeadFits
  <1> QED
    BY <1>1, <1>2, <1>3, <1>4, <1>5 DEF Known, Here

\* What is open there.
LEMMA Opening ==
    ASSUME NEW f \in FrameType, f.groups \in Seq(GroupType), Fit(f), NEW o,
           o = IF f.groups = <<>> THEN f.form ELSE Last(f.groups)
    PROVE  /\ o \in Holding \cup {"script"} => f.groups = <<>> /\ f.form = o
           /\ o \in GroupType => /\ f.groups # <<>> /\ Last(f.groups) = o /\ Holds(f, o)
                                 /\ Front(f.groups) \in Seq(GroupType)
                                 /\ \A i \in 1 .. Len(Front(f.groups)) :
                                        Holds(f, Front(f.groups)[i])
  <1>1. f.form \in Holding \cup {"script"}
    BY DEF FrameType
  <1>2. \A k \in GroupType : k \notin Holding \cup {"script"}
    BY DEF Holding, GroupType
  <1>3. CASE f.groups = <<>>
    BY <1>1, <1>2, <1>3
  <1>4. CASE f.groups # <<>>
    <2>1. PICK n \in Nat : Len(f.groups) = n + 1
      <3>1. PICK k \in Nat : k = Len(f.groups) /\ k > 0
        BY <1>4
      <3>2. PICK n \in Nat : k = n + 1
        BY <3>1
      <3> QED
        BY <3>1, <3>2
    <2>2. /\ Last(f.groups) = f.groups[n + 1] /\ Last(f.groups) \in GroupType
          /\ Front(f.groups) \in Seq(GroupType) /\ Len(Front(f.groups)) = n
      BY <1>4, <2>1, LastFront
    <2>3. \A i \in 1 .. n : Front(f.groups)[i] = f.groups[i]
      BY <1>4, <2>1, LastFront
    <2>4. \A i \in 1 .. n + 1 : Holds(f, f.groups[i])
      BY <2>1 DEF Fit
    <2>5. Holds(f, f.groups[n + 1])
      BY <2>1, <2>4
    <2> QED
      BY <1>2, <1>4, <2>2, <2>3, <2>4, <2>5
  <1> QED
    BY <1>3, <1>4

\* A lexeme that leaves the lexer where it is.
LEMMA Stays ==
    ASSUME IInv, NEW x, NEW meant, ScanOne(lexer, x) = Emit(lexer, meant)
    PROVE  Reads(x, meant, author)
  BY Zenon DEF Reads, IInv

-----------------------------------------------------------------------------
(* Lexemes within an argument.                                             *)

\* What the tokens leave behind.
LEMMA Afters ==
    ASSUME NEW z
    PROVE  /\ After(z, <<>>) = z
           /\ After(z, <<"STRING">>) = "STRING" /\ After(z, <<"PERIOD">>) = "PERIOD"
           /\ After(z, <<"PAREN_LEFT">>) = "OP" /\ After(z, <<"OP">>) = "OP"
           /\ \A k \in {"WORD", "SPECIAL", "QUOTED", "COMMAND", "FUNCTION", "KEYWORD", "CODE",
                        "COMMA", "END", "PAREN_RIGHT", "BRACKET_LEFT", "BRACKET_RIGHT",
                        "BRACE_LEFT", "BRACE_RIGHT"} : After(z, <<k>>) = "OTHER"
           /\ After(z, <<"END", "BRACE_RIGHT">>) = "OTHER"
  BY DEF After, Seen, Last

\* The author goes on in the same argument, and so does the lexer.
LEMMA StaysWritten ==
    ASSUME IInv, NEW x, NEW meant, NEW next, Write(x, meant, author, next),
           ScanOne(lexer, x) = Emit(lexer, meant),
           Follows(next, After(lexer.last, meant), Here)
    PROVE  IInv'
  <1>1. Reads(x, meant, author)
    BY Stays
  <1>2. ReadAsMeant /\ Shaped(author)
    BY Present
  <1>3. Follows(next, After(lexer.last, meant), Last(author))
    BY DEF Here
  <1> QED
    BY <1>1, <1>2, <1>3, Written

\* The rule that reads a lexeme in an argument.
LEMMA Scanned ==
    ASSUME IInv, NEW x
    PROVE  /\ Argument = "DEFAULT" => ScanOne(lexer, x) = ModeDefault(lexer, x)
           /\ Argument \in {"E", "P", "D", "M"} => ScanOne(lexer, x) = ModeExpr(lexer, x)
           /\ Argument = "V" => ScanOne(lexer, x) = ModeVariable(lexer, x)
           /\ Argument \in {"S", "R"} => ScanOne(lexer, x) = ModeString(lexer, x)
           /\ Argument = "L" => ScanOne(lexer, x) = ModeList(lexer, x)
           /\ Argument \in Special => ScanOne(lexer, x) = ModeSpecial(lexer, x)
           /\ Argument = "Z" => ScanOne(lexer, x) = ModeBody(lexer, x)
           /\ Argument \in {"(", "<"} => ScanOne(lexer, x) = ModeOpen(lexer, x)
           /\ Argument = "F" => ScanOne(lexer, x) = ModeParameters(lexer, x)
  <1>1. PICK h, l : h = Argument /\ l = lexer
    OBVIOUS
  <1>2. l.mode = ModeOf(h) /\ h \in ArgType /\ h # ")"
    BY <1>1, Present DEF Known, At
  <1>3. /\ h = "DEFAULT" => ScanOne(l, x) = ModeDefault(l, x)
        /\ h \in {"E", "P", "D", "M"} => ScanOne(l, x) = ModeExpr(l, x)
        /\ h = "V" => ScanOne(l, x) = ModeVariable(l, x)
        /\ h \in {"S", "R"} => ScanOne(l, x) = ModeString(l, x)
        /\ h = "L" => ScanOne(l, x) = ModeList(l, x)
    BY <1>2, Modes, ScanRules
  <1>4. /\ h \in Special => ScanOne(l, x) = ModeSpecial(l, x)
        /\ h = "Z" => ScanOne(l, x) = ModeBody(l, x)
        /\ h \in {"(", "<"} => ScanOne(l, x) = ModeOpen(l, x)
        /\ h = "F" => ScanOne(l, x) = ModeParameters(l, x)
    BY <1>2, Modes, ScanRules
  <1> QED
    BY <1>1, <1>3, <1>4

\* The argument whose code has a brace open.
LEMMA BodyHere ==
    ASSUME IInv, Form = "body"
    PROVE  Argument = "Z" /\ Here.groups # <<>>
  <1>1. PICK f, o : f = Here /\ o = IF f.groups = <<>> THEN f.form ELSE Last(f.groups)
    OBVIOUS
  <1>2. o = "body"
    BY <1>1 DEF Form
  <1>3. Known(f, Argument, Tail(Here.args))
    BY <1>1, Present
  <1>4. Holds(f, o) /\ f.groups # <<>>
    BY <1>1, <1>2, <1>3, Opening DEF Known, GroupType
  <1>5. Head(f.args) = "Z"
    BY <1>2, <1>4 DEF Holds
  <1> QED
    BY <1>1, <1>4, <1>5 DEF Argument

\* A lexeme's fields.
LEMMA LexemeFields ==
    ASSUME NEW k, NEW r, NEW e
    PROVE  /\ Lexeme(k).k = k /\ Lexeme(k).next = ""
           /\ [Lexeme(k) EXCEPT !.args = r].k = k /\ [Lexeme(k) EXCEPT !.args = r].args = r
           /\ [Lexeme(k) EXCEPT !.next = e].k = k /\ [Lexeme(k) EXCEPT !.next = e].next = e
           /\ [Lexeme(k) EXCEPT !.args = r, !.form = e].k = k
           /\ [Lexeme(k) EXCEPT !.args = r, !.form = e].args = r
           /\ [Lexeme(k) EXCEPT !.args = r, !.form = e].form = e
  BY DEF Lexeme

\* A name or a number is a word, text or a special literal by the argument alone.
LEMMA WordStep ==
    ASSUME IInv, Word
    PROVE  IInv'
  <1>1. PICK k \in {"word", "builtin"} :
            /\ Expression \/ Text \/ Argument \in Special \cup {"V", "F"} \/ Form = "body"
            /\ ~(Argument = "R" /\ Here.form = "call")
            /\ Write(Lexeme(k),
                     <<IF Text \/ Form = "body" THEN "STRING"
                       ELSE IF Argument \in Special THEN "SPECIAL" ELSE "WORD">>,
                     author, IF k = "builtin" THEN "bare" ELSE "inner")
    BY DEF Word
  <1>2. PICK x, m, n : /\ x = Lexeme(k)
                       /\ m = IF Text \/ Form = "body" THEN "STRING"
                              ELSE IF Argument \in Special THEN "SPECIAL" ELSE "WORD"
                       /\ n = IF k = "builtin" THEN "bare" ELSE "inner"
    OBVIOUS
  <1>3. PICK l : l = lexer
    OBVIOUS
  <1>4. Form = "body" => Argument = "Z"
    BY BodyHere
  <1>5. x.k = k /\ x.k \in Name
    BY <1>2, LexemeFields DEF Name
  <1>6. ScanOne(l, x) = Emit(l, <<m>>)
    <2>1. CASE Argument = "DEFAULT"
      <3>1. m = "WORD" /\ ScanOne(l, x) = ModeDefault(l, x)
        BY <1>2, <1>3, <1>4, <2>1, Scanned DEF Text, Special
      <3>2. ModeDefault(l, x) = Emit(l, <<"WORD">>)
        BY <1>5, DefaultRows, WordRows
      <3> QED
        BY <3>1, <3>2
    <2>2. CASE Argument \in {"E", "P", "D", "M"}
      <3>1. m = "WORD" /\ ScanOne(l, x) = ModeExpr(l, x)
        BY <1>2, <1>3, <1>4, <2>2, Scanned DEF Text, Special
      <3>2. ModeExpr(l, x) = ExprWord(l, x)
        BY <1>5, ExprRows
      <3>3. ExprWord(l, x) = Emit(l, <<"WORD">>)
        BY <1>5, WordRows
      <3> QED
        BY <3>1, <3>2, <3>3
    <2>3. CASE Argument = "V"
      <3>1. m = "WORD" /\ ScanOne(l, x) = ModeVariable(l, x)
        BY <1>2, <1>3, <1>4, <2>3, Scanned DEF Text, Special
      <3> QED
        BY <1>5, <3>1, VariableRows
    <2>4. CASE Argument = "F"
      <3>1. m = "WORD" /\ ScanOne(l, x) = ModeParameters(l, x)
        BY <1>2, <1>3, <1>4, <2>4, Scanned DEF Text, Special
      <3> QED
        BY <1>5, <3>1, CallRows
    <2>5. CASE Argument \in {"S", "R"}
      <3>1. m = "STRING" /\ ScanOne(l, x) = ModeString(l, x)
        BY <1>2, <1>3, <2>5, Scanned DEF Text
      <3>2. PICK raw \in BOOLEAN : raw = (l.mode = "R")
        OBVIOUS
      <3>3. ModeString(l, x) = StringRun(l, x, raw)
        BY <1>5, <3>2, StringRows
      <3>4. StringRun(l, x, raw) = Emit(l, <<"STRING">>)
        BY <1>5, RunRows
      <3> QED
        BY <3>1, <3>3, <3>4
    <2>6. CASE Argument = "L"
      <3>1. m = "STRING" /\ ScanOne(l, x) = ModeList(l, x)
        BY <1>2, <1>3, <2>6, Scanned DEF Text
      <3> QED
        BY <1>5, <3>1, ListRows
    <2>7. CASE Argument \in Special
      <3>1. m = "SPECIAL" /\ ScanOne(l, x) = ModeSpecial(l, x)
        BY <1>2, <1>3, <1>4, <2>7, Scanned DEF Text, Special
      <3> QED
        BY <1>5, <3>1, SpecialRows
    <2>8. CASE Form = "body"
      <3>1. m = "STRING" /\ ScanOne(l, x) = ModeBody(l, x)
        BY <1>2, <1>3, <1>4, <2>8, Scanned
      <3> QED
        BY <1>5, <3>1, BodyRows
    <2> QED
      BY <1>1, <2>1, <2>2, <2>3, <2>4, <2>5, <2>6, <2>7, <2>8 DEF Expression, Text
  <1>7. Follows(n, After(lexer.last, <<m>>), Here)
    <2>1. m \in {"STRING", "SPECIAL", "WORD"}
      BY <1>2
    <2>2. PICK z : z = After(lexer.last, <<m>>)
      OBVIOUS
    <2>3. z = IF m = "STRING" THEN "STRING" ELSE "OTHER"
      BY <2>1, <2>2, Afters
    <2> QED
      BY <1>1, <1>2, <2>2, <2>3 DEF Follows, Places, Lasts, Argument
  <1>8. Write(x, <<m>>, author, n)
    BY <1>1, <1>2, Zenon
  <1>9. ScanOne(lexer, x) = Emit(lexer, <<m>>)
    BY <1>3, <1>6
  <1> QED
    BY <1>7, <1>8, <1>9, StaysWritten

\* An operator, or a character of no token, costs at most its own statement.
LEMMA OperatorStep ==
    ASSUME IInv, Operator
    PROVE  IInv'
  <1>1. PICK k \in {"op", "junk"} :
            /\ Expression /\ place \notin {"called", "start"}
            /\ Write(Lexeme(k), <<Token[k]>>, author, IF k = "op" THEN "operand" ELSE "inner")
    BY DEF Operator
  <1>2. PICK x, m, n, l : /\ x = Lexeme(k) /\ m = Token[k] /\ l = lexer
                          /\ n = IF k = "op" THEN "operand" ELSE "inner"
    OBVIOUS
  <1>3. x.k = k /\ m = IF k = "op" THEN "OP" ELSE "WORD"
    BY <1>2, LexemeFields, Tokens
  <1>4. ScanOne(l, x) = Emit(l, <<m>>)
    <2>1. \/ ScanOne(l, x) = ModeDefault(l, x)
          \/ ScanOne(l, x) = ModeExpr(l, x)
      BY <1>1, <1>2, Scanned DEF Expression
    <2>2. ModeDefault(l, x) = Emit(l, <<Token[k]>>)
      BY <1>3, DefaultRows DEF Plain
    <2>3. ModeExpr(l, x) = Emit(l, <<Token[k]>>)
      BY <1>3, ExprRows
    <2> QED
      BY <1>2, <2>1, <2>2, <2>3
  <1>5. Follows(n, After(lexer.last, <<m>>), Here)
    <2>1. PICK z : z = After(lexer.last, <<m>>)
      OBVIOUS
    <2>2. z = IF k = "op" THEN "OP" ELSE "OTHER"
      BY <1>3, <2>1, Afters
    <2> QED
      BY <1>2, <2>1, <2>2 DEF Follows, Places, Lasts
  <1>6. Write(x, <<m>>, author, n) /\ ScanOne(lexer, x) = Emit(lexer, <<m>>)
    BY <1>1, <1>2, <1>4, Zenon
  <1> QED
    BY <1>5, <1>6, StaysWritten

\* After a period the lexer knows that a member comes.
LEMMA PeriodStep ==
    ASSUME IInv, Period
    PROVE  IInv'
  <1>1. /\ Expression \/ Argument = "V"
        /\ Write(Lexeme("."), <<"PERIOD">>, author, "dot")
    BY DEF Period
  <1>2. PICK x, l : x = Lexeme(".") /\ l = lexer
    OBVIOUS
  <1>3. x.k = "."
    BY <1>2, LexemeFields
  <1>4. ScanOne(l, x) = Emit(l, <<"PERIOD">>)
    <2>1. \/ ScanOne(l, x) = ModeDefault(l, x)
          \/ ScanOne(l, x) = ModeExpr(l, x)
          \/ ScanOne(l, x) = ModeVariable(l, x)
      BY <1>1, <1>2, Scanned DEF Expression
    <2>2. ModeDefault(l, x) = Emit(l, <<Token[x.k]>>)
      BY <1>3, DefaultRows DEF Plain
    <2>3. ModeExpr(l, x) = Emit(l, <<Token[x.k]>>)
      BY <1>3, ExprRows
    <2>4. ModeVariable(l, x) = Emit(l, <<"PERIOD">>)
      BY <1>3, VariableRows
    <2>5. Token[x.k] = "PERIOD"
      BY <1>3, Tokens
    <2> QED
      BY <2>1, <2>2, <2>3, <2>4, <2>5
  <1>5. Follows("dot", After(lexer.last, <<"PERIOD">>), Here)
    <2>1. PICK z : z = After(lexer.last, <<"PERIOD">>)
      OBVIOUS
    <2>2. z = "PERIOD"
      BY <2>1, Afters
    <2>3. Here.form = "call" => Argument # "R"
      BY <1>1 DEF Expression
    <2> QED
      BY <1>1, <2>1, <2>2, <2>3 DEF Follows, Places, Lasts, Expression, ExprTypes, Argument
  <1>6. Write(x, <<"PERIOD">>, author, "dot") /\ ScanOne(lexer, x) = Emit(lexer, <<"PERIOD">>)
    BY <1>1, <1>2, <1>4, Zenon
  <1> QED
    BY <1>5, <1>6, StaysWritten

\* A word, however it is spelt.
LEMMA Worded ==
    ASSUME IInv, NEW x, x.k \in {"command", "function"}, NEW next \in {"inner", "called"},
           Write(x, <<"WORD">>, author, next),
           \/ Expression /\ x.k = "command" /\ (Argument = "DEFAULT" => lexer.last = "OP")
           \/ (Expression \/ Argument = "V") /\ lexer.last = "PERIOD"
    PROVE  IInv'
  <1>1. PICK l : l = lexer
    OBVIOUS
  <1>2. x.k \in Name
    BY DEF Name
  <1>3. ScanOne(l, x) = Emit(l, <<"WORD">>)
    <2>1. CASE Argument = "DEFAULT"
      <3>1. ScanOne(l, x) = ModeDefault(l, x)
        BY <1>1, <2>1, Scanned
      <3>2. ModeDefault(l, x) = DefaultWord(l, x)
        BY <1>2, DefaultRows
      <3>3. DefaultWord(l, x) = Emit(l, <<"WORD">>)
        BY <1>1, <1>2, <2>1, WordRows
      <3> QED
        BY <3>1, <3>2, <3>3
    <2>2. CASE Argument \in {"E", "P", "D", "M"}
      <3>1. ScanOne(l, x) = ModeExpr(l, x)
        BY <1>1, <2>2, Scanned
      <3>2. ModeExpr(l, x) = ExprWord(l, x)
        BY <1>2, ExprRows
      <3>3. ExprWord(l, x) = Emit(l, <<"WORD">>)
        BY <1>1, <1>2, WordRows
      <3> QED
        BY <3>1, <3>2, <3>3
    <2>3. CASE Argument = "V"
      <3>1. ScanOne(l, x) = ModeVariable(l, x)
        BY <1>1, <2>3, Scanned
      <3> QED
        BY <1>2, <3>1, VariableRows
    <2> QED
      BY <2>1, <2>2, <2>3 DEF Expression
  <1>4. Follows(next, After(lexer.last, <<"WORD">>), Here)
    <2>1. PICK z : z = After(lexer.last, <<"WORD">>)
      OBVIOUS
    <2>2. z = "OTHER"
      BY <2>1, Afters
    <2> QED
      BY <2>1, <2>2 DEF Follows, Places, Lasts
  <1>5. ScanOne(lexer, x) = Emit(lexer, <<"WORD">>)
    BY <1>1, <1>3
  <1> QED
    BY <1>4, <1>5, StaysWritten

\* A member is a word, though a command or a function has its name.
LEMMA MemberStep ==
    ASSUME IInv, Member
    PROVE  IInv'
  <1>1. Follows(place, lexer.last, Here)
    BY DEF IInv
  <1>2. /\ Expression \/ Argument = "V"
        /\ lexer.last = "PERIOD"
    BY <1>1 DEF Member, Follows, Argument, Expression, ExprTypes
  <1>3. CASE \E args \in Commands :
               Write([Lexeme("command") EXCEPT !.args = args], <<"WORD">>, author, "inner")
    <2>1. PICK args \in Commands :
              Write([Lexeme("command") EXCEPT !.args = args], <<"WORD">>, author, "inner")
      BY <1>3
    <2>2. PICK x : x = [Lexeme("command") EXCEPT !.args = args]
      OBVIOUS
    <2>3. x.k = "command"
      BY <2>2, LexemeFields
    <2>4. Write(x, <<"WORD">>, author, "inner")
      BY <2>1, <2>2, Zenon
    <2> QED
      BY <1>2, <2>3, <2>4, Worded
  <1>4. CASE \E args \in Functions :
               Write([Lexeme("function") EXCEPT !.args = args], <<"WORD">>, author, "called")
    <2>1. PICK args \in Functions :
              Write([Lexeme("function") EXCEPT !.args = args], <<"WORD">>, author, "called")
      BY <1>4
    <2>2. PICK x : x = [Lexeme("function") EXCEPT !.args = args]
      OBVIOUS
    <2>3. x.k = "function"
      BY <2>2, LexemeFields
    <2>4. Write(x, <<"WORD">>, author, "called")
      BY <2>1, <2>2, Zenon
    <2> QED
      BY <1>2, <2>3, <2>4, Worded
  <1> QED
    BY <1>3, <1>4 DEF Member

\* A command's name where an operand stands is a word.
LEMMA CommandOperandStep ==
    ASSUME IInv, CommandOperand
    PROVE  IInv'
  <1>1. PICK args \in Commands :
            /\ Expression /\ (Argument = "DEFAULT" => place = "operand")
            /\ Write([Lexeme("command") EXCEPT !.args = args], <<"WORD">>, author, "inner")
    BY DEF CommandOperand
  <1>2. PICK x : x = [Lexeme("command") EXCEPT !.args = args]
    OBVIOUS
  <1>3. x.k = "command"
    BY <1>2, LexemeFields
  <1>4. Write(x, <<"WORD">>, author, "inner")
    BY <1>1, <1>2, Zenon
  <1>5. Argument = "DEFAULT" => lexer.last = "OP"
    BY <1>1 DEF IInv, Follows
  <1> QED
    BY <1>1, <1>3, <1>4, <1>5, Worded

\* A string literal, in an expression or in the text of a call.
LEMMA QuotedStep ==
    ASSUME IInv, Quoted
    PROVE  IInv'
  <1>1. /\ Expression \/ (Text /\ Here.form = "call")
        /\ Write(Lexeme("quoted"), <<"QUOTED">>, author, "inner")
    BY DEF Quoted
  <1>2. PICK x, l : x = Lexeme("quoted") /\ l = lexer
    OBVIOUS
  <1>3. x.k = "quoted"
    BY <1>2, LexemeFields
  <1>4. Here.form = "call" => InCall(l)
    BY <1>2, Present DEF Known, At
  <1>5. ScanOne(l, x) = Emit(l, <<"QUOTED">>)
    <2>1. CASE Expression
      <3>1. \/ ScanOne(l, x) = ModeDefault(l, x)
            \/ ScanOne(l, x) = ModeExpr(l, x)
        BY <1>2, <2>1, Scanned DEF Expression
      <3>2. ModeDefault(l, x) = Emit(l, <<Token[x.k]>>)
        BY <1>3, DefaultRows DEF Plain
      <3>3. ModeExpr(l, x) = Emit(l, <<Token[x.k]>>)
        BY <1>3, ExprRows
      <3>4. Token[x.k] = "QUOTED"
        BY <1>3, Tokens
      <3> QED
        BY <3>1, <3>2, <3>3, <3>4
    <2>2. CASE Text /\ Here.form = "call"
      <3>1. \/ ScanOne(l, x) = ModeString(l, x)
            \/ ScanOne(l, x) = ModeList(l, x)
        BY <1>2, <2>2, Scanned DEF Text
      <3>2. ModeString(l, x) = Emit(l, <<"QUOTED">>)
        BY <1>3, <1>4, <2>2, StringRows
      <3>3. ModeList(l, x) = Emit(l, <<"QUOTED">>)
        BY <1>3, <1>4, <2>2, ListRows
      <3> QED
        BY <3>1, <3>2, <3>3
    <2> QED
      BY <1>1, <2>1, <2>2
  <1>6. Follows("inner", After(lexer.last, <<"QUOTED">>), Here)
    <2>1. PICK z : z = After(lexer.last, <<"QUOTED">>)
      OBVIOUS
    <2>2. z = "OTHER"
      BY <2>1, Afters
    <2> QED
      BY <2>1, <2>2 DEF Follows, Places, Lasts
  <1>7. Write(x, <<"QUOTED">>, author, "inner") /\ ScanOne(lexer, x) = Emit(lexer, <<"QUOTED">>)
    BY <1>1, <1>2, <1>5, Zenon
  <1> QED
    BY <1>6, <1>7, StaysWritten

-----------------------------------------------------------------------------
(* Constructs opened.                                                      *)

\* What push_command is given for f.
Pushes(f, r, p, d, k) ==
    r = f.args /\ p = PopOf(f) /\ d = (f.form = "code") /\ k = (f.form = "call")

\* A construct that the author may open.
New(f) == /\ f \in FrameType /\ ArgsFit(f) /\ f.args # <<>> /\ f.groups = <<>>
          /\ f.form # "script"

\* A frame is one, its arguments given.
LEMMA NewFrame ==
    ASSUME NEW o \in Holding, NEW r \in Seq(ArgType), r # <<>>, NEW f, f = Frame(o, r),
           ArgsFit(f)
    PROVE  New(f) /\ f.form = o /\ f.args = r
  BY DEF New, Frame, FrameType, Holding

\* The author opens f, and the lexer enters it.
LEMMA Entered ==
    ASSUME IInv, NEW f, New(f), f.form = "call" => Len(author) = 1,
           NEW x, NEW m, NEW n, Write(x, <<m>>, Append(author, f), n),
           NEW r, NEW p, NEW d, NEW k, Pushes(f, r, p, d, k),
           ScanOne(lexer, x) = Emit(Push(lexer, r, p, d, k), <<m>>),
           Follows(n, After(lexer.last, <<m>>), f)
    PROVE  IInv'
  <1>1. PICK z : z = lexer.last
    OBVIOUS
  <1>2. lexer = Lex(author, z) /\ ReadAsMeant /\ Shaped(author)
    BY <1>1, Present
  <1>3. author \in Seq(FrameType) /\ author # <<>>
    BY <1>2, ShapedLast
  <1>4. Fit(f)
    BY DEF New, Fit
  <1>5. Shaped(Append(author, f)) /\ Last(Append(author, f)) = f
    BY <1>2, <1>4, ShapedAppend DEF New
  <1>6. Push(Lex(author, z), f.args, PopOf(f), f.form = "code", f.form = "call")
          = Lex(Append(author, f), z)
    BY <1>3, PushLex DEF New
  <1>7. Push(lexer, r, p, d, k) = Lex(Append(author, f), lexer.last)
    BY <1>1, <1>2, <1>6, Zenon DEF Pushes
  <1>8. Reads(x, <<m>>, Append(author, f))
    BY <1>7, Zenon DEF Reads
  <1> QED
    BY <1>2, <1>5, <1>8, Written

\* The arguments of a construct opened.
LEMMA TablesFit ==
    /\ \A r \in Commands : r # <<>> => New(Frame("plain", r)) /\ r \in Seq(ArgType)
    /\ \A r \in CallForms : r # <<>> => New(Frame("call", r))
    /\ \A r \in Functions : New(Frame("function", r)) /\ Head(r) \in {"(", "<"}
    /\ \A r \in Codes : r # <<>> => New(Frame("code", r)) /\ Head(r) \in {"(", "<"}
    /\ New(Frame("declare", <<"V", "(", "F">>)) /\ New(Frame("index", <<"P">>))
  <1>1. ASSUME NEW r \in Commands, r # <<>>
        PROVE  /\ r \in Seq(CommandType) /\ r \in Seq(ArgType) /\ FinalAtEnd(r)
               /\ New(Frame("plain", r))
    <2>1. r \in Seq(CommandType) /\ FinalAtEnd(r)
      BY GS1LexerAssumption
    <2>2. r \in Seq(ArgType)
      BY <2>1 DEF ArgType
    <2>3. PICK f : f = Frame("plain", r)
      OBVIOUS
    <2>4. ArgsFit(f)
      BY <1>1, <2>1, <2>3 DEF ArgsFit, Frame
    <2> QED
      BY <1>1, <2>1, <2>2, <2>3, <2>4, NewFrame DEF Holding
  <1>2. ASSUME NEW r \in CallForms, r # <<>>
        PROVE  New(Frame("call", r))
    <2>1. r \in Commands /\ r[Len(r)] \notin Special \cup {"M", "Z"}
      BY <1>2, GS1LexerAssumption
    <2>2. r \in Seq(CommandType) /\ r \in Seq(ArgType) /\ FinalAtEnd(r)
      BY <1>1, <1>2, <2>1
    <2>3. PICK f : f = Frame("call", r)
      OBVIOUS
    <2>4. ArgsFit(f)
      BY <1>2, <2>1, <2>2, <2>3 DEF ArgsFit, Frame
    <2> QED
      BY <1>2, <2>2, <2>3, <2>4, NewFrame DEF Holding
  <1>3. ASSUME NEW r, Parenthesised(r), NEW o \in {"function", "code"}
        PROVE  New(Frame(o, r)) /\ Head(r) \in {"(", "<"}
    <2>1. r \in Seq(Inner \cup {"(", "<", ")"}) /\ Len(r) > 2
      BY <1>3 DEF Parenthesised
    <2>2. PICK n \in Nat : n = Len(r) /\ n > 2
      BY <2>1
    <2>3. /\ r[1] \in {"(", "<"} /\ r[n] = ")"
          /\ r[1] = "<" => n > 3
          /\ \A i \in 2 .. n - 1 : r[i] \in Inner /\ (r[i] \in Final => i = n - 1)
      BY <1>3, <2>2 DEF Parenthesised
    <2>4. \A i \in 1 .. n - 1 : /\ i > 1 => r[i] \in Inner
                                /\ r[i] # ")"
                                /\ r[i] \in Final => i = n - 1
      <3>1. TAKE i \in 1 .. n - 1
      <3>2. CASE i = 1
        BY <2>3, <3>2 DEF Final
      <3>3. CASE i > 1
        BY <2>2, <2>3, <3>3 DEF Inner
      <3> QED
        BY <2>2, <3>2, <3>3
    <2>5. CallFits(r)
      BY <2>1, <2>2, <2>3, <2>4 DEF CallFits
    <2>6. Head(r) = r[1] /\ r # <<>>
      BY <2>1, <2>2
    <2>7. r \in Seq(ArgType)
      BY <2>1 DEF ArgType, CommandType, Inner
    <2>8. PICK f : f = Frame(o, r)
      OBVIOUS
    <2>9. ArgsFit(f)
      BY <2>5, <2>6, <2>8 DEF ArgsFit, Frame
    <2>10. o \in Holding
      BY DEF Holding
    <2>11. New(f)
      BY <2>6, <2>7, <2>8, <2>9, <2>10, NewFrame
    <2> QED
      BY <2>3, <2>6, <2>8, <2>11
  <1>4. New(Frame("declare", <<"V", "(", "F">>))
    <2>1. PICK f, r : r = <<"V", "(", "F">> /\ f = Frame("declare", r)
      OBVIOUS
    <2>2. r \in Seq(ArgType) /\ r # <<>>
      BY <2>1 DEF ArgType, CommandType
    <2>3. ArgsFit(f)
      BY <2>1, <2>2 DEF ArgsFit, Frame
    <2> QED
      BY <2>1, <2>2, <2>3, NewFrame DEF Holding
  <1>5. New(Frame("index", <<"P">>))
    <2>1. PICK f, r : r = <<"P">> /\ f = Frame("index", r)
      OBVIOUS
    <2>2. r \in Seq(ArgType) /\ r # <<>>
      BY <2>1 DEF ArgType
    <2>3. ArgsFit(f)
      BY <2>1, <2>2 DEF ArgsFit, Frame
    <2> QED
      BY <2>1, <2>2, <2>3, NewFrame DEF Holding
  <1>6. /\ \A r \in Functions : Parenthesised(r)
        /\ \A r \in Codes : r # <<>> => Parenthesised(r)
    BY GS1LexerAssumption
  <1> QED
    BY <1>1, <1>2, <1>3, <1>4, <1>5, <1>6

\* A command without arguments is over with its name.
LEMMA PushNothing ==
    ASSUME NEW a \in Seq(FrameType), a # <<>>, NEW z, NEW p, NEW d, NEW k
    PROVE  Push(Lex(a, z), <<>>, p, d, k) = Lex(a, z)
  <1>1. PICK g, l, r, c : g = Last(a) /\ l = Lex(a, z) /\ r = <<>> /\ c = (p # "ARRAYINDEX")
    OBVIOUS
  <1>2. PICK m, b, t, s, o : /\ m = ModeOf(Head(g.args)) /\ b = BraceOf(g) /\ t = LitOf(g)
                             /\ s = StatesOf(a) /\ o = <<>>
    OBVIOUS
  <1>3. PICK e : e = State(r, p, c, d, k, l.mode, l.brace, l.lit)
    OBVIOUS
  <1>4. Push(l, r, p, d, k) = PopNextMode(Enter(l, e), FALSE)
    BY <1>1, <1>3, Zenon DEF Push, Enter, State
  <1>5. l = Rec(m, b, t, s, z, o)
    BY <1>1, <1>2, Zenon DEF Lex
  <1>6. l.mode = m /\ l.brace = b /\ l.lit = t /\ Enter(l, e) = Rec(m, 0, 0, Append(s, e), z, o)
    BY <1>5, RecFields, RecEnter
  <1>7. e.args = r /\ e.mode = m /\ e.brace = b /\ e.lit = t
    BY <1>3, <1>6, StateFields
  <1>8. On(Append(s, e), s, e)
    <2>1. PICK T : s \in Seq(T)
      BY <1>2, StatesType
    <2> QED
      BY <2>1, AppendedOn
  <1>9. PICK y, q, n : y = FALSE /\ q = Append(s, e) /\ n = 0
    OBVIOUS
  <1>10. PopNextMode(Rec(m, n, n, q, z, o), y) = Rec(e.mode, e.brace, e.lit, s, z, o)
    BY <1>1, <1>7, <1>8, <1>9, PopOut
  <1> QED
    BY <1>1, <1>4, <1>5, <1>6, <1>7, <1>9, <1>10, Zenon

\* A function's name opens its call: in an expression, or first in the text of one.
LEMMA BeginFunctionStep ==
    ASSUME IInv, BeginFunction
    PROVE  IInv'
  <1>1. PICK args \in Functions :
            /\ place # "dot"
            /\ Expression \/ (CallText /\ place = "fresh")
            /\ Write([Lexeme("function") EXCEPT !.args = args], <<"FUNCTION">>,
                     Append(author, Frame("function", args)), "inner")
    BY DEF BeginFunction
  <1>2. PICK x, f, l, r : /\ x = [Lexeme("function") EXCEPT !.args = args] /\ r = args
                          /\ f = Frame("function", args) /\ l = lexer
    OBVIOUS
  <1>3. x.k = "function" /\ x.args = r /\ x.k \in Name
    BY <1>2 DEF Name, Lexeme
  <1>4. New(f) /\ f.form = "function" /\ f.args = r /\ Head(r) \in {"(", "<"}
    BY <1>2, TablesFit DEF Frame
  <1>5. PICK p, d, k : p = "COMMAND" /\ d = FALSE /\ k = FALSE
    OBVIOUS
  <1>6. Pushes(f, r, p, d, k)
    BY <1>4, <1>5 DEF Pushes, PopOf, Called
  <1>7. Follows(place, lexer.last, Here)
    BY DEF IInv
  <1>8. ScanOne(l, x) = Emit(Push(l, r, p, d, k), <<"FUNCTION">>)
    <2>1. l.last # "PERIOD"
      BY <1>1, <1>2, <1>7 DEF Follows
    <2>2. ExprWord(l, x) = Emit(Push(l, r, p, d, k), <<"FUNCTION">>)
      BY <1>3, <1>5, <2>1, WordRows
    <2>3. CASE Argument = "DEFAULT"
      <3>1. ScanOne(l, x) = ModeDefault(l, x)
        BY <1>2, <2>3, Scanned
      <3>2. ModeDefault(l, x) = DefaultWord(l, x)
        BY <1>3, DefaultRows
      <3>3. DefaultWord(l, x) = ExprWord(l, x)
        BY <1>3, WordRows
      <3> QED
        BY <2>2, <3>1, <3>2, <3>3
    <2>4. CASE Argument \in {"E", "P", "D", "M"}
      <3>1. ScanOne(l, x) = ModeExpr(l, x)
        BY <1>2, <2>4, Scanned
      <3>2. ModeExpr(l, x) = ExprWord(l, x)
        BY <1>3, ExprRows
      <3> QED
        BY <2>2, <3>1, <3>2
    <2>5. CASE CallText /\ place = "fresh"
      <3>1. l.last # "STRING"
        BY <1>2, <1>7, <2>5 DEF Follows
      <3>2. InCall(l) /\ (Argument = "S" => l.mode = "S")
        BY <1>2, <2>5, Present, Modes DEF Known, At, CallText
      <3>3. \/ ScanOne(l, x) = ModeString(l, x) /\ l.mode # "R"
            \/ ScanOne(l, x) = ModeList(l, x)
        BY <1>2, <2>5, <3>2, Scanned DEF CallText
      <3>4. l.mode # "R" => ModeString(l, x) = ExprWord(l, x)
        BY <1>3, <3>1, <3>2, StringRows
      <3>5. ModeList(l, x) = ExprWord(l, x)
        BY <1>3, <3>1, <3>2, ListRows
      <3> QED
        BY <2>2, <3>3, <3>4, <3>5
    <2> QED
      BY <1>1, <2>3, <2>4, <2>5 DEF Expression
  <1>9. Follows("inner", After(lexer.last, <<"FUNCTION">>), f)
    <2>1. PICK z : z = After(lexer.last, <<"FUNCTION">>)
      OBVIOUS
    <2>2. z = "OTHER"
      BY <2>1, Afters
    <2> QED
      BY <2>1, <2>2 DEF Follows, Places, Lasts
  <1>10. Write(x, <<"FUNCTION">>, Append(author, f), "inner")
    BY <1>1, <1>2, Zenon
  <1>11. ScanOne(lexer, x) = Emit(Push(lexer, r, p, d, k), <<"FUNCTION">>)
    BY <1>2, <1>8
  <1> QED
    BY <1>4, <1>6, <1>9, <1>10, <1>11, Entered

\* A message code is one in every argument that may hold one.
LEMMA BeginCodeStep ==
    ASSUME IInv, BeginCode
    PROVE  IInv'
  <1>1. PICK args \in Codes :
            /\ Expression \/ Argument \in {"S", "L", "V"}
            /\ Write([Lexeme("code") EXCEPT !.args = args], <<"CODE">>,
                     IF args = <<>> THEN author ELSE Append(author, Frame("code", args)), "bare")
    BY DEF BeginCode
  <1>2. PICK x, f, l, r : /\ x = [Lexeme("code") EXCEPT !.args = args] /\ r = args
                          /\ f = Frame("code", args) /\ l = lexer
    OBVIOUS
  <1>3. x.k = "code" /\ x.args = r
    BY <1>2 DEF Lexeme
  <1>4. ScanOne(l, x) = MatchMessagecode(l, x)
    <2>1. Argument = "S" => l.mode # "R"
      BY <1>2, Present, Modes DEF Known, At
    <2>2. \/ ScanOne(l, x) = ModeDefault(l, x)
          \/ ScanOne(l, x) = ModeExpr(l, x)
          \/ ScanOne(l, x) = ModeVariable(l, x)
          \/ ScanOne(l, x) = ModeList(l, x)
          \/ ScanOne(l, x) = ModeString(l, x) /\ l.mode # "R"
      BY <1>1, <1>2, <2>1, Scanned DEF Expression
    <2>3. ModeDefault(l, x) = MatchMessagecode(l, x)
      BY <1>3, DefaultRows
    <2>4. ModeExpr(l, x) = MatchMessagecode(l, x)
      BY <1>3, ExprRows
    <2>5. ModeVariable(l, x) = MatchMessagecode(l, x)
      BY <1>3, VariableRows
    <2>6. ModeList(l, x) = MatchMessagecode(l, x)
      BY <1>3, ListRows
    <2>7. l.mode # "R" => ModeString(l, x) = MatchMessagecode(l, x)
      BY <1>3, StringRows
    <2> QED
      BY <2>2, <2>3, <2>4, <2>5, <2>6, <2>7
  <1>5. ASSUME NEW g, g.form # "call" \/ Head(g.args) # "R"
        PROVE  Follows("bare", After(lexer.last, <<"CODE">>), g)
    <2>1. PICK z : z = After(lexer.last, <<"CODE">>)
      OBVIOUS
    <2>2. z = "OTHER"
      BY <2>1, Afters
    <2> QED
      BY <1>5, <2>1, <2>2 DEF Follows, Places, Lasts
  <1>6. CASE r = <<>>
    <2>1. ScanOne(lexer, x) = Emit(lexer, <<"CODE">>)
      BY <1>2, <1>3, <1>4, <1>6 DEF MatchMessagecode
    <2>2. Write(x, <<"CODE">>, author, "bare")
      BY <1>1, <1>2, <1>6, Zenon
    <2>3. Here.form # "call" \/ Head(Here.args) # "R"
      BY <1>1 DEF Argument, Expression
    <2>4. Follows("bare", After(lexer.last, <<"CODE">>), Here)
      BY <1>5, <2>3
    <2> QED
      BY <2>1, <2>2, <2>4, StaysWritten
  <1>7. CASE r # <<>>
    <2>1. New(f) /\ f.form = "code" /\ f.args = r /\ Head(r) \in {"(", "<"}
      BY <1>2, <1>7, TablesFit DEF Frame
    <2>2. PICK p, d, k : p = "COMMAND" /\ d = TRUE /\ k = FALSE
      OBVIOUS
    <2>3. Pushes(f, r, p, d, k)
      BY <2>1, <2>2 DEF Pushes, PopOf, Called
    <2>4. ScanOne(l, x) = Emit(Push(l, r, p, d, k), <<"CODE">>)
      BY <1>3, <1>4, <1>7, <2>2 DEF MatchMessagecode
    <2>5. ScanOne(lexer, x) = Emit(Push(lexer, r, p, d, k), <<"CODE">>)
      BY <1>2, <2>4
    <2>6. Write(x, <<"CODE">>, Append(author, f), "bare")
      BY <1>1, <1>2, <1>7, Zenon
    <2>7. Follows("bare", After(lexer.last, <<"CODE">>), f)
      BY <1>5, <2>1
    <2> QED
      BY <2>1, <2>3, <2>5, <2>6, <2>7, Entered
  <1> QED
    BY <1>6, <1>7

\* Where a statement starts.
LEMMA AtStart ==
    ASSUME IInv, Form = "script"
    PROVE  Here.form = "script" /\ Here.groups = <<>> /\ Argument = "DEFAULT" /\ Len(author) = 1
  <1>1. PICK f, o : f = Here /\ o = IF f.groups = <<>> THEN f.form ELSE Last(f.groups)
    OBVIOUS
  <1>2. o = "script"
    BY <1>1 DEF Form
  <1>3. Known(f, Argument, Tail(Here.args)) /\ Shaped(author)
    BY <1>1, Present
  <1>4. f.form = "script" /\ f.groups = <<>>
    BY <1>2, <1>1, <1>3, Opening DEF Known, Holding
  <1>5. Argument = "DEFAULT"
    BY <1>3, <1>4 DEF Known, HeadFits
  <1> QED
    BY <1>1, <1>3, <1>4, <1>5, ShapedLast DEF Here

\* A command's name at the start of a statement opens its arguments, if it has any.
LEMMA BeginCommandStep ==
    ASSUME IInv, BeginCommand
    PROVE  IInv'
  <1>1. PICK args \in Commands, form \in {"plain", "call", "empty"} :
            /\ Form = "script" /\ place = "start"
            /\ form = "call" => args \in CallForms
            /\ Write([Lexeme("command") EXCEPT !.args = args, !.form = form], <<"COMMAND">>,
                     IF args = <<>> THEN author
                     ELSE Append(author, Frame(IF form = "call" THEN "call" ELSE "plain", args)),
                     IF args = <<>> THEN "inner" ELSE "fresh")
    BY DEF BeginCommand
  <1>2. PICK x, o, l, r : /\ x = [Lexeme("command") EXCEPT !.args = args, !.form = form]
                          /\ o = IF form = "call" THEN "call" ELSE "plain"
                          /\ r = args /\ l = lexer
    OBVIOUS
  <1>3. x.k = "command" /\ x.args = r /\ x.form = form
    BY <1>2 DEF Lexeme
  <1>4. PICK p, d, k : /\ p = (IF x.form = "call" THEN "FUNCTION" ELSE "COMMAND")
                       /\ d = FALSE /\ k = (x.form = "call")
    OBVIOUS
  <1>5. /\ Argument = "DEFAULT" /\ Len(author) = 1
        /\ Follows(place, lexer.last, Here) /\ lexer = Lex(author, lexer.last)
        /\ author \in Seq(FrameType) /\ author # <<>>
    BY <1>1, AtStart, Present, ShapedLast DEF Known
  <1>6. ScanOne(l, x) = Emit(Push(l, r, p, d, k), <<"COMMAND">>)
    <2>1. l.last \notin {"PERIOD", "OP"}
      BY <1>1, <1>2, <1>5 DEF Follows
    <2>2. ScanOne(l, x) = ModeDefault(l, x)
      BY <1>2, <1>5, Scanned
    <2>3. ModeDefault(l, x) = DefaultWord(l, x)
      BY <1>3, DefaultRows DEF Name
    <2>4. DefaultWord(l, x) = Emit(Push(l, r, p, d, k), <<"COMMAND">>)
      BY <1>3, <1>4, <2>1, WordRows
    <2> QED
      BY <2>2, <2>3, <2>4
  <1>7. ASSUME NEW n \in {"inner", "fresh"}, NEW g, g.form # "call" \/ Head(g.args) # "R" \/ n = "fresh"
        PROVE  Follows(n, After(lexer.last, <<"COMMAND">>), g)
    <2>1. PICK z : z = After(lexer.last, <<"COMMAND">>)
      OBVIOUS
    <2>2. z = "OTHER"
      BY <2>1, Afters
    <2> QED
      BY <1>7, <2>1, <2>2 DEF Follows, Places, Lasts
  <1>8. CASE r = <<>>
    <2>1. PICK z : z = lexer.last
      OBVIOUS
    <2>2. Push(Lex(author, z), <<>>, p, d, k) = Lex(author, z)
      BY <1>5, PushNothing
    <2>3. ScanOne(lexer, x) = Emit(lexer, <<"COMMAND">>)
      BY <1>2, <1>5, <1>6, <1>8, <2>1, <2>2, Zenon
    <2>4. Write(x, <<"COMMAND">>, author, "inner")
      BY <1>1, <1>2, <1>8, Zenon
    <2>5. Here.form # "call"
      BY <1>1, AtStart
    <2>6. Follows("inner", After(lexer.last, <<"COMMAND">>), Here)
      BY <1>7, <2>5
    <2> QED
      BY <2>3, <2>4, <2>6, StaysWritten
  <1>9. CASE r # <<>>
    <2>1. PICK f : f = Frame(o, r)
      OBVIOUS
    <2>2. New(f) /\ f.form = o /\ f.args = r
      BY <1>1, <1>2, <1>9, <2>1, TablesFit DEF Frame
    <2>3. Pushes(f, r, p, d, k)
      BY <1>2, <1>3, <1>4, <2>2 DEF Pushes, PopOf, Called
    <2>4. ScanOne(lexer, x) = Emit(Push(lexer, r, p, d, k), <<"COMMAND">>)
      BY <1>2, <1>6
    <2>5. Write(x, <<"COMMAND">>, Append(author, f), "fresh")
      BY <1>1, <1>2, <1>9, <2>1, Zenon
    <2>6. Follows("fresh", After(lexer.last, <<"COMMAND">>), f)
      BY <1>7
    <2> QED
      BY <1>5, <2>2, <2>3, <2>4, <2>5, <2>6, Entered
  <1> QED
    BY <1>8, <1>9

\* A declaration opens three modes: name, parenthesis, parameters.
LEMMA BeginDeclarationStep ==
    ASSUME IInv, BeginDeclaration
    PROVE  IInv'
  <1>1. PICK x, f, l, r : /\ x = Lexeme("declare") /\ r = <<"V", "(", "F">>
                          /\ f = Frame("declare", r) /\ l = lexer
    OBVIOUS
  <1>2. /\ Form = "script" /\ place = "start"
        /\ Write(x, <<"KEYWORD">>, Append(author, f), "inner")
    BY <1>1, Zenon DEF BeginDeclaration
  <1>3. x.k = "declare"
    BY <1>1, LexemeFields
  <1>4. New(f) /\ f.form = "declare" /\ f.args = r
    BY <1>1, TablesFit DEF Frame
  <1>5. PICK p, d, k : p = "COMMAND" /\ d = FALSE /\ k = FALSE
    OBVIOUS
  <1>6. Pushes(f, r, p, d, k)
    BY <1>4, <1>5 DEF Pushes, PopOf, Called
  <1>7. ScanOne(l, x) = Emit(Push(l, r, p, d, k), <<"KEYWORD">>)
    <2>1. l.last # "PERIOD"
      BY <1>1, <1>2 DEF IInv, Follows
    <2>2. ScanOne(l, x) = ModeDefault(l, x)
      BY <1>1, <1>2, AtStart, Scanned
    <2>3. ModeDefault(l, x) = DefaultWord(l, x)
      BY <1>3, DefaultRows DEF Name
    <2>4. DefaultWord(l, x) = Emit(Push(l, <<"V", "(", "F">>, "COMMAND", FALSE, FALSE), <<"KEYWORD">>)
      BY <1>3, <2>1, WordRows
    <2> QED
      BY <1>1, <1>5, <2>2, <2>3, <2>4, Zenon
  <1>8. Follows("inner", After(lexer.last, <<"KEYWORD">>), f)
    <2>1. PICK z : z = After(lexer.last, <<"KEYWORD">>)
      OBVIOUS
    <2>2. z = "OTHER"
      BY <2>1, Afters
    <2> QED
      BY <2>1, <2>2 DEF Follows, Places, Lasts
  <1>9. ScanOne(lexer, x) = Emit(Push(lexer, r, p, d, k), <<"KEYWORD">>)
    BY <1>1, <1>7
  <1> QED
    BY <1>2, <1>4, <1>6, <1>8, <1>9, Entered

\* An index saves the counts of the argument around it.
LEMMA OpenIndexStep ==
    ASSUME IInv, OpenIndex
    PROVE  IInv'
  <1>1. PICK x, f, l, r : /\ x = Lexeme("[") /\ r = <<"P">>
                          /\ f = Frame("index", r) /\ l = lexer
    OBVIOUS
  <1>2. /\ Expression \/ Argument = "V"
        /\ Write(x, <<"BRACKET_LEFT">>, Append(author, f), "fresh")
    BY <1>1, Zenon DEF OpenIndex
  <1>3. x.k = "["
    BY <1>1, LexemeFields
  <1>4. New(f) /\ f.form = "index" /\ f.args = r
    BY <1>1, TablesFit DEF Frame
  <1>5. PICK p, d, k : p = "ARRAYINDEX" /\ d = FALSE /\ k = FALSE
    OBVIOUS
  <1>6. Pushes(f, r, p, d, k)
    BY <1>4, <1>5 DEF Pushes, PopOf
  <1>7. ScanOne(l, x) = Emit(Push(l, r, p, d, k), <<"BRACKET_LEFT">>)
    <2>1. \/ ScanOne(l, x) = ModeDefault(l, x)
          \/ ScanOne(l, x) = ModeExpr(l, x)
          \/ ScanOne(l, x) = ModeVariable(l, x)
      BY <1>1, <1>2, Scanned DEF Expression
    <2>2. ModeDefault(l, x) = Emit(PushIndex(l), <<"BRACKET_LEFT">>)
      BY <1>3, DefaultRows
    <2>3. ModeExpr(l, x) = Emit(PushIndex(l), <<"BRACKET_LEFT">>)
      BY <1>3, ExprRows
    <2>4. ModeVariable(l, x) = Emit(PushIndex(l), <<"BRACKET_LEFT">>)
      BY <1>3, VariableRows
    <2>5. PushIndex(l) = Push(l, r, p, d, k)
      BY <1>1, <1>5, Zenon DEF PushIndex
    <2> QED
      BY <2>1, <2>2, <2>3, <2>4, <2>5
  <1>8. Follows("fresh", After(lexer.last, <<"BRACKET_LEFT">>), f)
    <2>1. PICK z : z = After(lexer.last, <<"BRACKET_LEFT">>)
      OBVIOUS
    <2>2. z = "OTHER"
      BY <2>1, Afters
    <2> QED
      BY <2>1, <2>2 DEF Follows, Places, Lasts
  <1>9. ScanOne(lexer, x) = Emit(Push(lexer, r, p, d, k), <<"BRACKET_LEFT">>)
    BY <1>1, <1>7
  <1> QED
    BY <1>2, <1>4, <1>6, <1>8, <1>9, Entered

-----------------------------------------------------------------------------
(* Arguments opened and constructs closed.                                 *)

\* The author is in a construct.
LEMMA InConstruct ==
    ASSUME IInv, Here.form # "script"
    PROVE  /\ author \in Seq(FrameType) /\ author # <<>> /\ Len(author) > 1
           /\ Shaped(Front(author)) /\ Len(Front(author)) = Len(author) - 1
           /\ Last(author) = Here
  <1>1. Shaped(author) /\ Last(author) = Here
    BY Present
  <1>2. /\ author \in Seq(FrameType) /\ author # <<>> /\ Len(author) \in Nat /\ Len(author) > 0
        /\ Len(author) # 1
    BY <1>1, ShapedLast
  <1>3. Len(author) > 1
    <2>1. PICK n \in Nat : n = Len(author)
      BY <1>2
    <2>2. n # 1 /\ n > 0
      BY <1>2, <2>1
    <2>3. n > 1
      BY <2>2
    <2> QED
      BY <2>1, <2>3
  <1> QED
    BY <1>1, <1>2, <1>3, ShapedFront

\* What is open in the current argument, none in a construct's own.
LEMMA OpenHere ==
    ASSUME IInv
    PROVE  /\ Form \in Holding \cup {"script"} => Here.groups = <<>> /\ Here.form = Form
           /\ Form \in GroupType => /\ Here.groups # <<>> /\ Last(Here.groups) = Form
                                    /\ Holds(Here, Form)
                                    /\ Front(Here.groups) \in Seq(GroupType)
                                    /\ \A i \in 1 .. Len(Front(Here.groups)) :
                                           Holds(Here, Front(Here.groups)[i])
           /\ Argument \notin ExprTypes \cup {"S", "Z"} => Here.groups = <<>>
  <1>1. PICK f, o : f = Here /\ o = IF f.groups = <<>> THEN f.form ELSE Last(f.groups)
    OBVIOUS
  <1>2. o = Form
    BY <1>1 DEF Form
  <1>3. f \in FrameType /\ f.groups \in Seq(GroupType) /\ Fit(f)
    BY <1>1, Present DEF Known
  <1>4. /\ o \in Holding \cup {"script"} => f.groups = <<>> /\ f.form = o
        /\ o \in GroupType => /\ f.groups # <<>> /\ Last(f.groups) = o /\ Holds(f, o)
                              /\ Front(f.groups) \in Seq(GroupType)
                              /\ \A i \in 1 .. Len(Front(f.groups)) : Holds(f, Front(f.groups)[i])
    BY <1>1, <1>3, Opening
  <1>5. f.groups # <<>> => o \in GroupType
    BY <1>1, <1>3, LastFront
  <1>6. o \in GroupType /\ Holds(f, o) => Head(f.args) \in ExprTypes \cup {"S", "Z"}
    BY DEF Holds
  <1> QED
    BY <1>1, <1>2, <1>4, <1>5, <1>6 DEF Argument

\* The author's last construct becomes h, and the lexer is there.
LEMMA Moved ==
    ASSUME IInv, NEW h \in FrameType, Fit(h), h.form = Here.form,
           NEW x, NEW m, NEW n, Write(x, m, Append(Front(author), h), n),
           Reads(x, m, Append(Front(author), h)), Follows(n, After(lexer.last, m), h)
    PROVE  IInv'
  <1>1. Shaped(author) /\ Last(author) = Here /\ ReadAsMeant
    BY Present
  <1>2. /\ Shaped(Append(Front(author), h)) /\ Last(Append(Front(author), h)) = h
    BY <1>1, ShapedReplaced
  <1> QED
    BY <1>1, <1>2, Written

\* The author leaves a construct, and the lexer its state.
LEMMA Closed ==
    ASSUME IInv, Here.form # "script", NEW x, NEW m, NEW n,
           Write(x, m, Front(author), n),
           NEW early, early \/ Tail(Here.args) = <<>>,
           ScanOne(lexer, x) = Emit(PopNextMode(lexer, early), m),
           Follows(n, After(lexer.last, m), Last(Front(author)))
    PROVE  IInv'
  <1>1. PICK z : z = lexer.last
    OBVIOUS
  <1>2. lexer = Lex(author, z) /\ ReadAsMeant
    BY <1>1, Present
  <1>3. /\ author \in Seq(FrameType) /\ Len(author) > 1 /\ Shaped(Front(author))
        /\ Last(author) = Here
    BY InConstruct
  <1>4. PopNextMode(Lex(author, z), early) = Lex(Front(author), z)
    BY <1>3, PopLex
  <1>5. Reads(x, m, Front(author))
    BY <1>1, <1>2, <1>4, Zenon DEF Reads
  <1> QED
    BY <1>2, <1>3, <1>5, Written

\* The lexer's last token where a construct is left.
LEMMA Outside ==
    ASSUME NEW n \in {"inner", "start", "fresh", "bare"}, NEW z, z = "OTHER", NEW f
    PROVE  Follows(n, z, f)
  BY DEF Follows, Places, Lasts

\* A "]" ends the index it was written for.
LEMMA CloseIndexStep ==
    ASSUME IInv, CloseIndex
    PROVE  IInv'
  <1>1. PICK x, l : x = Lexeme("]") /\ l = lexer
    OBVIOUS
  <1>2. Form = "index" /\ Write(x, <<"BRACKET_RIGHT">>, Front(author), "inner")
    BY <1>1, Zenon DEF CloseIndex
  <1>3. x.k = "]"
    BY <1>1, LexemeFields
  <1>4. Here.form = "index"
    BY <1>2, OpenHere DEF Holding
  <1>5. Argument = "P" /\ ArrayPop(l) /\ Tail(Here.args) = <<>>
    BY <1>1, <1>4, Present DEF Known, HeadFits, At, LeftFits
  <1>6. ScanOne(l, x) = ModeExpr(l, x)
    BY <1>1, <1>5, Scanned
  <1>7. ModeExpr(l, x) = Emit(PopNextMode(l, FALSE), <<"BRACKET_RIGHT">>)
    BY <1>3, <1>5, ExprRows
  <1>8. PICK early : early = FALSE
    OBVIOUS
  <1>9. ScanOne(lexer, x) = Emit(PopNextMode(lexer, early), <<"BRACKET_RIGHT">>)
    BY <1>1, <1>6, <1>7, <1>8, Zenon
  <1>10. Follows("inner", After(lexer.last, <<"BRACKET_RIGHT">>), Last(Front(author)))
    BY Afters, Outside
  <1> QED
    BY <1>2, <1>4, <1>5, <1>9, <1>10, Closed

\* ")" where it ends a call.
LEMMA EndsCall ==
    ASSUME IInv, Here.groups = <<>>, NEW x, x.k = ")",
           \/ Here.form \in {"function", "code"} /\ Argument \notin {"(", "<"}
           \/ Here.form = "call" /\ Argument \notin Special \cup {"M", "Z"}
    PROVE  ScanOne(lexer, x) = EndCall(lexer)
  <1>1. PICK l, f : l = lexer /\ f = Here
    OBVIOUS
  <1>2. BraceOf(f) = 0 /\ LitOf(f) = 0
    BY <1>1, NoGroups
  <1>3. FuncPop(l) /\ l.brace = 0 /\ l.lit = 0 /\ l.mode = ModeOf(Argument)
    BY <1>1, <1>2, Present DEF Known, At
  <1>4. Argument \in {"E", "S", "V", "P", "L", "D", "R"}
    BY Present DEF Known, HeadFits, Inner, CommandType
  <1>5. CASE Argument \in {"E", "P", "D"}
    <2>1. l.mode # "M"
      BY <1>3, <1>5 DEF ModeOf
    <2>2. ModeExpr(l, x) = EndCall(l)
      BY <1>3, <2>1, ParenRows
    <2> QED
      BY <1>1, <1>5, <2>2, Scanned
  <1>6. CASE Argument = "V"
    <2>1. ModeVariable(l, x) = EndCall(l)
      BY <1>3, VariableRows
    <2> QED
      BY <1>1, <1>6, <2>1, Scanned
  <1>7. CASE Argument = "L"
    <2>1. ModeList(l, x) = EndCall(l)
      BY <1>3, ListRows
    <2> QED
      BY <1>1, <1>7, <2>1, Scanned
  <1>8. CASE Argument = "S"
    <2>1. l.mode # "R"
      BY <1>3, <1>8 DEF ModeOf
    <2>2. ModeString(l, x) = EndCall(l)
      BY <1>3, <2>1, StringRows
    <2> QED
      BY <1>1, <1>8, <2>2, Scanned
  <1>9. CASE Argument = "R"
    <2>1. l.mode = "R"
      BY <1>3, <1>9 DEF ModeOf
    <2>2. Here.form = "call"
      BY <1>9, Present DEF Known, HeadFits, Inner
    <2>3. InCall(l) /\ l.last # "STRING"
      BY <1>1, <1>9, <2>2, Present DEF Known, At, Follows, Argument
    <2>4. ModeString(l, x) = EndCall(l)
      BY <1>3, <2>1, <2>3, StringRows
    <2> QED
      BY <1>1, <1>9, <2>4, Scanned
  <1> QED
    BY <1>4, <1>5, <1>6, <1>7, <1>8, <1>9

\* A ")" of a call ends it, and of a command written as one is no token.
LEMMA CloseArgumentsStep ==
    ASSUME IInv, CloseArguments
    PROVE  IInv'
  <1>1. PICK x, l, m : /\ x = Lexeme(")") /\ l = lexer
                       /\ m = IF InCall(l) THEN <<>> ELSE <<"PAREN_RIGHT">>
    OBVIOUS
  <1>2. x.k = ")"
    BY <1>1, LexemeFields
  <1>3. PICK early : early = TRUE
    OBVIOUS
  <1>4. EndCall(l) = Emit(PopNextMode(l, early), m)
    BY <1>1, <1>3, Zenon DEF EndCall
  <1>5. place # "dot"
    BY DEF CloseArguments
  <1>6. CASE /\ Form \in {"function", "code"} /\ Argument \notin {"(", "<", ")"}
             /\ Write(Lexeme(")"), <<"PAREN_RIGHT">>, Front(author), "inner")
    <2>1. Here.form \in {"function", "code"} /\ Here.groups = <<>>
      BY <1>6, OpenHere DEF Holding
    <2>2. ScanOne(lexer, x) = EndCall(lexer)
      BY <1>2, <1>6, <2>1, EndsCall
    <2>3. m = <<"PAREN_RIGHT">>
      BY <1>1, <2>1, Present DEF Known, At
    <2>4. Write(x, m, Front(author), "inner") /\ ScanOne(lexer, x) = Emit(PopNextMode(lexer, early), m)
      BY <1>1, <1>4, <1>6, <2>2, <2>3, Zenon
    <2>5. Follows("inner", After(lexer.last, m), Last(Front(author)))
      BY <2>3, Afters, Outside
    <2>6. Here.form # "script"
      BY <2>1
    <2> QED
      BY <1>3, <2>4, <2>5, <2>6, Closed
  <1>7. CASE /\ Form = "declare" /\ Argument = "F"
             /\ Write(Lexeme(")"), <<"PAREN_RIGHT">>, Front(author), "inner")
    <2>1. Here.form = "declare"
      BY <1>7, OpenHere DEF Holding
    <2>2. ScanOne(l, x) = ModeParameters(l, x)
      BY <1>1, <1>7, Scanned
    <2>3. ModeParameters(l, x) = Emit(PopNextMode(l, TRUE), <<"PAREN_RIGHT">>)
      BY <1>2, CallRows
    <2>4. ScanOne(lexer, x) = Emit(PopNextMode(lexer, early), <<"PAREN_RIGHT">>)
      BY <1>1, <1>3, <2>2, <2>3, Zenon
    <2>5. Write(x, <<"PAREN_RIGHT">>, Front(author), "inner")
      BY <1>1, <1>7
    <2>6. Follows("inner", After(lexer.last, <<"PAREN_RIGHT">>), Last(Front(author)))
      BY Afters, Outside
    <2> QED
      BY <1>3, <2>1, <2>4, <2>5, <2>6, Closed
  <1>8. CASE /\ Form = "call" /\ Len(Here.args) = 1
             /\ Write(Lexeme(")"), <<>>, Front(author), "inner")
    <2>1. Here.form = "call" /\ Here.groups = <<>>
      BY <1>8, OpenHere DEF Holding
    <2>2. Argument \notin Special \cup {"M", "Z"}
      <3>1. Here.args \in Seq(ArgType) /\ LeftFits(Here, Argument, Tail(Here.args))
            /\ HeadFits(Here, Argument)
        BY Present DEF Known
      <3>2. Tail(Here.args) = <<>>
        <4>1. PICK r : r = Here.args
          OBVIOUS
        <4>2. r \in Seq(ArgType) /\ Len(r) = 1
          BY <1>8, <3>1, <4>1
        <4>3. Tail(r) \in Seq(ArgType) /\ Len(Tail(r)) = 0
          <5>1. r # <<>>
            BY <4>2
          <5>2. Tail(r) \in Seq(ArgType) /\ Len(Tail(r)) = Len(r) - 1
            BY <4>2, <5>1, HeadTail
          <5> QED
            BY <4>2, <5>2
        <4>4. Tail(r) = <<>>
          <5>1. PICK t \in Seq(ArgType) : t = Tail(r) /\ Len(t) = 0
            BY <4>3
          <5>2. t = <<>>
            BY <5>1
          <5> QED
            BY <5>1, <5>2
        <4> QED
          BY <4>1, <4>4
      <3> QED
        BY <2>1, <3>1, <3>2 DEF LeftFits
    <2>3. ScanOne(lexer, x) = EndCall(lexer)
      BY <1>2, <2>1, <2>2, EndsCall
    <2>4. m = <<>>
      BY <1>1, <2>1, Present DEF Known, At
    <2>5. Write(x, m, Front(author), "inner") /\ ScanOne(lexer, x) = Emit(PopNextMode(lexer, early), m)
      BY <1>1, <1>4, <1>8, <2>3, <2>4, Zenon
    <2>6. Last(Front(author)).form # "call"
      <3>1. Here.form = "call" => Len(author) = 2
        BY Present, ShapedLast
      <3>2. Shaped(Front(author)) /\ Len(Front(author)) = Len(author) - 1
        BY <2>1, InConstruct
      <3>3. PICK n : n = Len(author)
        OBVIOUS
      <3>4. n = 2 /\ n - 1 = 1
        BY <2>1, <3>1, <3>3
      <3> QED
        BY <3>2, <3>3, <3>4, ShapedLast
    <2>7. Follows("inner", After(lexer.last, m), Last(Front(author)))
      <3>1. PICK z : z = lexer.last
        OBVIOUS
      <3>2. After(z, m) = z
        BY <2>4, Afters
      <3>3. Follows(place, z, Here)
        BY <3>1 DEF IInv
      <3>4. z \in Lasts /\ z # "PERIOD"
        BY <1>5, <3>3 DEF Follows
      <3>5. Follows("inner", z, Last(Front(author)))
        BY <2>6, <3>4 DEF Follows, Places
      <3> QED
        BY <3>1, <3>2, <3>5
    <2> QED
      BY <1>3, <2>1, <2>5, <2>7, Closed
  <1> QED
    BY <1>6, <1>7, <1>8 DEF CloseArguments

-----------------------------------------------------------------------------
(* The next argument.                                                      *)

\* What the author has of a construct's arguments after the current one.
Later(f, h) == h.form = f.form /\ h.args = Tail(f.args) /\ h.groups = <<>> /\ f.groups = <<>>

\* The parts of the next argument's construct.
LEMMA LaterFrame ==
    ASSUME NEW f \in FrameType, ArgsFit(f), f.groups = <<>>,
           \/ f.form \in {"plain", "call"} /\ Len(f.args) > 1
           \/ f.form \in {"function", "code"} /\ Len(f.args) > 2,
           NEW h, h = Fr(f.form, Tail(f.args), <<>>)
    PROVE  /\ h \in FrameType /\ Fit(h) /\ Later(f, h) /\ h.args # <<>>
           /\ h.form \in {"function", "code"} => Head(h.args) \in Inner
           /\ PopOf(h) = IF h.form = "plain" THEN "COMMAND" ELSE "FUNCTION"
  <1>1. h \in FrameType /\ Fit(h)
    BY NextFits
  <1>2. h.form = f.form /\ h.args = Tail(f.args) /\ h.groups = <<>>
    BY FrFields
  <1>3. PICK r \in Seq(ArgType) : r = f.args
    BY DEF FrameType
  <1>4. PICK n \in Nat : n = Len(r) /\ n > 1
    <2>1. PICK n \in Nat : n = Len(r)
      BY <1>3
    <2>2. n > 1
      BY <1>3, <2>1
    <2> QED
      BY <2>1, <2>2
  <1>5. Tail(r) # <<>> /\ Head(Tail(r)) = r[2]
    <2>1. r # <<>>
      BY <1>4
    <2>2. PICK t : t = Tail(r)
      OBVIOUS
    <2>3. t \in Seq(ArgType) /\ Len(t) = n - 1 /\ \A i \in 1 .. n - 1 : t[i] = r[i + 1]
      BY <1>4, <2>1, <2>2, HeadTail
    <2>4. t # <<>> /\ Head(t) = t[1] /\ t[1] = r[2]
      BY <1>4, <2>3
    <2> QED
      BY <2>2, <2>4
  <1>6. CASE h.form \in {"function", "code"}
    <2>1. CallFits(r) /\ n > 2
      BY <1>2, <1>3, <1>4, <1>6 DEF ArgsFit
    <2>2. r[2] \in Inner
      BY <1>4, <2>1 DEF CallFits
    <2>3. PopOf(h) = "FUNCTION"
      BY <1>2, <1>3, <1>5, <1>6, <2>2 DEF PopOf, Called, Inner
    <2> QED
      BY <1>1, <1>2, <1>3, <1>5, <1>6, <2>2, <2>3 DEF Later
  <1>7. CASE h.form \in {"plain", "call"}
    <2>1. PopOf(h) = IF h.form = "plain" THEN "COMMAND" ELSE "FUNCTION"
      BY <1>7 DEF PopOf, Called
    <2> QED
      BY <1>1, <1>2, <1>3, <1>5, <1>7, <2>1 DEF Later
  <1> QED
    BY <1>2, <1>6, <1>7

\* The author moves on to h.
LEMMA AdvancedTo ==
    ASSUME IInv, NEW r \in Seq(ArgType), Here.groups = <<>>, NEW h, h = Fr(Here.form, r, <<>>)
    PROVE  Advanced(r) = Append(Front(author), h)
  <1>1. author \in Seq(FrameType) /\ author # <<>>
    BY Present, ShapedLast
  <1> QED
    BY <1>1, Rewritten DEF GroupType

\* A "(" leads to the first argument; after a declared name, past its own entry.
LEMMA OpenArgumentsStep ==
    ASSUME IInv, OpenArguments
    PROVE  IInv'
  <1>1. PICK x, l, f, z : x = Lexeme("(") /\ l = lexer /\ f = Here /\ z = lexer.last
    OBVIOUS
  <1>2. x.k = "("
    BY <1>1, LexemeFields
  <1>3. /\ Known(f, Argument, Tail(f.args)) /\ lexer = Lex(author, z) /\ ArgsFit(f)
        /\ Last(author) = f /\ author \in Seq(FrameType) /\ author # <<>>
    BY <1>1, Present, ShapedLast DEF Known, Fit
  <1>4. After(lexer.last, <<"PAREN_LEFT">>) = "OP"
    BY Afters
  <1>5. CASE /\ Argument = "("
             /\ Write(Lexeme("("), <<"PAREN_LEFT">>, Advanced(Tail(Here.args)), "fresh")
    <2>1. f.form \in {"function", "code"} /\ f.groups = <<>>
      <3>1. f.groups = <<>>
        BY <1>1, <1>5, OpenHere DEF ExprTypes
      <3>2. f.form \notin {"script", "plain", "call", "declare", "index"}
        BY <1>3, <1>5 DEF Known, HeadFits, CommandType, Special
      <3>3. f.form \in Holding \cup {"script"}
        BY <1>3 DEF Known, FrameType
      <3> QED
        BY <3>1, <3>2, <3>3 DEF Holding
    <2>2. PICK r \in Seq(ArgType), n \in Nat : r = f.args /\ n = Len(r)
      BY <1>3 DEF Known
    <2>3. r[1] = "(" /\ n > 2
      <3>1. CallFits(r)
        BY <1>3, <2>1, <2>2 DEF ArgsFit
      <3>2. Head(r) = r[1]
        BY <1>3, <2>2 DEF Known
      <3>3. r[1] = "("
        BY <1>1, <1>5, <2>2, <3>2 DEF Argument
      <3> QED
        BY <2>2, <3>1, <3>3 DEF CallFits
    <2>4. PICK h : h = Fr(f.form, Tail(f.args), <<>>)
      OBVIOUS
    <2>5. /\ h \in FrameType /\ Fit(h) /\ Later(f, h) /\ h.args # <<>>
          /\ PopOf(h) = "FUNCTION"
      <3>1. f \in FrameType /\ Len(f.args) > 2
        BY <1>3, <2>2, <2>3 DEF Known
      <3>2. /\ h \in FrameType /\ Fit(h) /\ Later(f, h) /\ h.args # <<>>
            /\ PopOf(h) = IF h.form = "plain" THEN "COMMAND" ELSE "FUNCTION"
        BY <1>3, <2>1, <2>4, <3>1, LaterFrame
      <3> QED
        BY <2>1, <3>2 DEF Later
    <2>6. Onward(f, h)
      BY <1>1, <1>5, <2>1, <2>5 DEF Onward, Later, CommaEnds, Argument
    <2>7. Len(author) > 1
      BY <1>1, <2>1, InConstruct
    <2>8. OpenCall(Lex(author, z)) = Lex(Append(Front(author), h), z)
      BY <1>3, <2>5, <2>6, <2>7, OpenLex
    <2>9. ScanOne(l, x) = Emit(OpenCall(l), <<"PAREN_LEFT">>)
      <3>1. ScanOne(l, x) = ModeOpen(l, x)
        BY <1>1, <1>5, Scanned
      <3>2. l.mode # "P3"
        BY <1>1, <1>3, <1>5 DEF Known, At, ModeOf
      <3> QED
        BY <1>2, <3>1, <3>2, CallRows
    <2>10. Reads(x, <<"PAREN_LEFT">>, Append(Front(author), h))
      BY <1>1, <1>3, <2>8, <2>9, Zenon DEF Reads
    <2>11. Write(x, <<"PAREN_LEFT">>, Append(Front(author), h), "fresh")
      <3>1. PICK t \in Seq(ArgType) : t = Tail(f.args)
        BY <1>3, HeadTail DEF Known
      <3>2. Advanced(t) = Append(Front(author), h)
        BY <1>1, <2>1, <2>4, <3>1, AdvancedTo
      <3> QED
        BY <1>1, <1>5, <3>1, <3>2, Zenon
    <2>12. Follows("fresh", After(lexer.last, <<"PAREN_LEFT">>), h)
      BY <1>4 DEF Follows, Places, Lasts
    <2>13. h.form = Here.form
      BY <1>1, <2>5 DEF Later
    <2> QED
      BY <2>5, <2>10, <2>11, <2>12, <2>13, Moved
  <1>6. CASE /\ Form = "declare" /\ Argument = "V"
             /\ Write(Lexeme("("), <<"PAREN_LEFT">>, Advanced(<<"F">>), "fresh")
    <2>1. f.form = "declare" /\ f.groups = <<>> /\ Tail(f.args) = <<"(", "F">>
      BY <1>1, <1>3, <1>6, OpenHere DEF Holding, Known, LeftFits
    <2>2. PICK r, s : r = <<"F">> /\ s = <<"(", "F">>
      OBVIOUS
    <2>3. r \in Seq(ArgType) /\ s \in Seq(ArgType) /\ r # <<>> /\ s # <<>> /\ Tail(s) = r
          /\ Head(s) = "("
      BY <2>2 DEF ArgType
    <2>4. PICK g, h : g = Fr(f.form, s, <<>>) /\ h = Fr(f.form, r, <<>>)
      OBVIOUS
    <2>5. /\ g.form = f.form /\ g.args = s /\ g.groups = <<>>
          /\ h.form = f.form /\ h.args = r /\ h.groups = <<>>
      BY <2>4, FrFields
    <2>6. g \in FrameType /\ h \in FrameType
      BY <2>1, <2>3, <2>4 DEF Fr, FrameType, Holding
    <2>7. Fit(h)
      BY <2>1, <2>2, <2>3, <2>5 DEF Fit, ArgsFit
    <2>8. PopOf(f) = PopOf(g) /\ PopOf(g) = PopOf(h)
      BY <2>1, <2>5 DEF PopOf, Called
    <2>9. Onward(f, g)
      BY <1>1, <1>6, <2>1, <2>2, <2>3, <2>5 DEF Onward, CommaEnds, Argument
    <2>10. Onward(g, h)
      BY <2>1, <2>3, <2>5 DEF Onward, CommaEnds
    <2>11. PICK early : early = FALSE
      OBVIOUS
    <2>12. Len(author) > 1
      BY <1>1, <2>1, InConstruct
    <2>13. PopNextMode(Lex(author, z), early) = Lex(Append(Front(author), g), z)
      BY <1>3, <2>6, <2>8, <2>9, <2>11, <2>12, NextLex
    <2>14. PICK a : a = Append(Front(author), g)
      OBVIOUS
    <2>15. a \in Seq(FrameType) /\ Len(a) > 1 /\ Last(a) = g /\ Front(a) = Front(author)
      <3>1. Front(author) \in Seq(FrameType) /\ Len(Front(author)) = Len(author) - 1
        BY <1>3, LastFront
      <3>2. PICK b \in Seq(FrameType), n \in Nat : b = Front(author) /\ Len(b) = n /\ n > 0
        BY <2>12, <3>1
      <3>3. /\ Append(b, g) \in Seq(FrameType) /\ Len(Append(b, g)) = n + 1
            /\ Last(Append(b, g)) = g /\ Front(Append(b, g)) = b
        BY <2>6, <3>2, Appended
      <3> QED
        BY <2>14, <3>2, <3>3
    <2>16. PopNextMode(Lex(a, z), early) = Lex(Append(Front(author), h), z)
      <3>1. Onward(Last(a), h) /\ PopOf(h) = PopOf(Last(a))
        BY <2>8, <2>10, <2>15
      <3>2. PopNextMode(Lex(a, z), early) = Lex(Append(Front(a), h), z)
        BY <2>6, <2>11, <2>15, <3>1, NextLex
      <3> QED
        BY <2>15, <3>2
    <2>17. ScanOne(l, x) = Emit(PopNextMode(PopNextMode(l, FALSE), FALSE), <<"PAREN_LEFT">>)
      <3>1. ScanOne(l, x) = ModeVariable(l, x)
        BY <1>1, <1>6, Scanned
      <3>2. l.states # <<>> /\ Top(l).args = s
        BY <1>1, <1>3, <2>1, <2>2 DEF Known, At
      <3> QED
        BY <1>2, <2>3, <3>1, <3>2, VariableRows
    <2>18. Reads(x, <<"PAREN_LEFT">>, Append(Front(author), h))
      BY <1>1, <1>3, <2>11, <2>13, <2>14, <2>16, <2>17, Zenon DEF Reads
    <2>19. Write(x, <<"PAREN_LEFT">>, Append(Front(author), h), "fresh")
      <3>1. Advanced(r) = Append(Front(author), h)
        BY <1>1, <2>1, <2>3, <2>4, AdvancedTo
      <3> QED
        BY <1>1, <1>6, <2>2, <3>1, Zenon
    <2>20. Follows("fresh", After(lexer.last, <<"PAREN_LEFT">>), h)
      BY <1>4 DEF Follows, Places, Lasts
    <2>21. h.form = Here.form
      BY <1>1, <2>5
    <2> QED
      BY <2>6, <2>7, <2>18, <2>19, <2>20, <2>21, Moved
  <1> QED
    BY <1>5, <1>6 DEF OpenArguments

\* The lookahead of playersays finds out which argument is written.
LEMMA OpenOptionalStep ==
    ASSUME IInv, OpenOptional
    PROVE  IInv'
  <1>1. PICK next \in {Sep, ")"} :
            /\ Argument = "<"
            /\ Write([Lexeme("(") EXCEPT !.next = next], <<"PAREN_LEFT">>,
                     Advanced(IF next = Sep THEN Tail(Here.args) ELSE Tail(Tail(Here.args))),
                     "fresh")
    BY Zenon DEF OpenOptional, Sep
  <1>2. PICK x, l, f, z : /\ x = [Lexeme("(") EXCEPT !.next = next]
                          /\ l = lexer /\ f = Here /\ z = lexer.last
    OBVIOUS
  <1>3. x.k = "(" /\ x.next = next
    BY <1>2 DEF Lexeme
  <1>4. /\ Known(f, Argument, Tail(f.args)) /\ lexer = Lex(author, z) /\ ArgsFit(f)
        /\ f \in FrameType /\ Last(author) = f /\ author \in Seq(FrameType) /\ author # <<>>
    BY <1>2, Present, ShapedLast DEF Known, Fit
  <1>5. f.form \in {"function", "code"} /\ f.groups = <<>>
    <2>1. f.groups = <<>>
      BY <1>1, <1>2, OpenHere DEF ExprTypes
    <2>2. f.form \notin {"script", "plain", "call", "declare", "index"}
      BY <1>1, <1>4 DEF Known, HeadFits, CommandType, Special
    <2>3. f.form \in Holding \cup {"script"}
      BY <1>4 DEF FrameType
    <2> QED
      BY <2>1, <2>2, <2>3 DEF Holding
  <1>6. PICK r \in Seq(ArgType), n \in Nat : r = f.args /\ n = Len(r)
    BY <1>4 DEF Known
  <1>7. r # <<>> /\ n > 3 /\ r[2] \in Inner \ {"P"}
    <2>1. CallFits(r)
      BY <1>4, <1>5, <1>6 DEF ArgsFit
    <2>2. Head(r) = r[1] /\ r # <<>>
      BY <1>4, <1>6 DEF Known
    <2>3. r[1] = "<"
      BY <1>1, <1>2, <1>6, <2>2 DEF Argument
    <2>4. n > 3
      BY <1>6, <2>1, <2>3 DEF CallFits
    <2>5. r[2] \in Inner /\ (r[2] \in Final => 2 = n - 1)
      BY <1>6, <2>1, <2>4 DEF CallFits
    <2> QED
      BY <2>2, <2>4, <2>5 DEF Final
  <1>8. PICK s, t : s = Tail(r) /\ t = Tail(s)
    OBVIOUS
  <1>9. /\ s \in Seq(ArgType) /\ Len(s) = n - 1 /\ s # <<>> /\ Head(s) = r[2]
        /\ t \in Seq(ArgType) /\ Len(t) = n - 2 /\ t # <<>> /\ t # <<")">>
    <2>1. s \in Seq(ArgType) /\ Len(s) = n - 1 /\ \A i \in 1 .. n - 1 : s[i] = r[i + 1]
      BY <1>6, <1>7, <1>8, HeadTail
    <2>2. s # <<>> /\ Head(s) = s[1] /\ s[1] = r[2]
      BY <1>7, <2>1
    <2>3. t \in Seq(ArgType) /\ Len(t) = n - 2
      BY <1>7, <1>8, <2>1, <2>2, HeadTail
    <2>4. Len(t) > 1
      BY <1>7, <2>3
    <2>5. t # <<>> /\ t # <<")">>
      <3>1. Len(<<")">>) = 1 /\ ~(1 > 1)
        OBVIOUS
      <3>2. t # <<>>
        BY <2>4
      <3> QED
        BY <2>4, <3>1, <3>2
    <2> QED
      BY <2>1, <2>2, <2>3, <2>5
  <1>10. PICK g, h : g = Fr(f.form, s, <<>>) /\ h = Fr(f.form, t, <<>>)
    OBVIOUS
  <1>11. /\ g \in FrameType /\ Fit(g) /\ Later(f, g) /\ g.args # <<>>
         /\ PopOf(g) = "FUNCTION"
    <2>1. g = Fr(f.form, Tail(f.args), <<>>) /\ Len(f.args) > 2
      BY <1>6, <1>7, <1>8, <1>10
    <2>2. /\ g \in FrameType /\ Fit(g) /\ Later(f, g) /\ g.args # <<>>
          /\ PopOf(g) = IF g.form = "plain" THEN "COMMAND" ELSE "FUNCTION"
      BY <1>4, <1>5, <2>1, LaterFrame
    <2> QED
      BY <1>5, <2>2 DEF Later
  <1>12. g.form = f.form /\ g.args = s /\ g.groups = <<>>
    BY <1>10, FrFields
  <1>13. /\ h \in FrameType /\ Fit(h) /\ Later(g, h) /\ h.args # <<>>
         /\ PopOf(h) = "FUNCTION"
    <2>1. h = Fr(g.form, Tail(g.args), <<>>) /\ Len(g.args) > 2
      <3>1. h = Fr(g.form, Tail(g.args), <<>>)
        BY <1>8, <1>10, <1>12, Zenon
      <3>2. Len(s) > 2
        BY <1>7, <1>9
      <3> QED
        BY <1>12, <3>1, <3>2
    <2>2. /\ h \in FrameType /\ Fit(h) /\ Later(g, h) /\ h.args # <<>>
          /\ PopOf(h) = IF h.form = "plain" THEN "COMMAND" ELSE "FUNCTION"
      BY <1>5, <1>11, <1>12, <2>1, LaterFrame DEF Fit
    <2> QED
      BY <1>5, <1>12, <2>2 DEF Later
  <1>14. Onward(f, g)
    BY <1>1, <1>2, <1>5, <1>11 DEF Onward, Later, CommaEnds, Argument
  <1>15. Onward(g, h)
    <2>1. CommaEnds(TRUE, s)
      BY <1>7, <1>8, <1>9 DEF CommaEnds
    <2> QED
      BY <1>5, <1>12, <1>13, <2>1 DEF Onward, Later
  <1>16. Len(author) > 1
    BY <1>2, <1>5, InConstruct
  <1>17. OpenCall(Lex(author, z)) = Lex(Append(Front(author), g), z)
    BY <1>4, <1>11, <1>14, <1>16, OpenLex
  <1>18. ScanOne(l, x) = ModeOpen(l, x) /\ l.mode = "P3"
    BY <1>1, <1>2, <1>4, Scanned DEF Known, At, ModeOf
  <1>19. ASSUME NEW d, d \in {g, h} PROVE Follows("fresh", After(lexer.last, <<"PAREN_LEFT">>), d)
    <2>1. After(lexer.last, <<"PAREN_LEFT">>) = "OP"
      BY Afters
    <2> QED
      BY <2>1 DEF Follows, Places, Lasts
  <1>20. CASE next = Sep
    <2>1. ModeOpen(l, x) = Emit(OpenCall(l), <<"PAREN_LEFT">>)
      <3>1. Sep # ")"
        BY Zenon DEF Sep
      <3> QED
        BY <1>3, <1>20, <3>1, CallRows
    <2>2. Reads(x, <<"PAREN_LEFT">>, Append(Front(author), g))
      BY <1>2, <1>4, <1>17, <1>18, <2>1, Zenon DEF Reads
    <2>3. Advanced(s) = Append(Front(author), g)
      BY <1>2, <1>5, <1>9, <1>10, AdvancedTo
    <2>4. Write(x, <<"PAREN_LEFT">>, Append(Front(author), g), "fresh")
      BY <1>1, <1>2, <1>6, <1>8, <1>20, <2>3, Zenon
    <2>5. g.form = Here.form
      BY <1>2, <1>12
    <2>6. Follows("fresh", After(lexer.last, <<"PAREN_LEFT">>), g)
      BY <1>19
    <2> QED
      BY <1>11, <2>2, <2>4, <2>5, <2>6, Moved
  <1>21. CASE next = ")"
    <2>1. ModeOpen(l, x) = Emit(PopNextMode(OpenCall(l), FALSE), <<"PAREN_LEFT">>)
      BY <1>3, <1>18, <1>21, CallRows
    <2>2. PICK a, early : a = Append(Front(author), g) /\ early = FALSE
      OBVIOUS
    <2>3. a \in Seq(FrameType) /\ Len(a) > 1 /\ Last(a) = g /\ Front(a) = Front(author)
      <3>1. Front(author) \in Seq(FrameType) /\ Len(Front(author)) = Len(author) - 1
        BY <1>4, LastFront
      <3>2. PICK b \in Seq(FrameType), m \in Nat : b = Front(author) /\ Len(b) = m /\ m > 0
        BY <1>16, <3>1
      <3>3. /\ Append(b, g) \in Seq(FrameType) /\ Len(Append(b, g)) = m + 1
            /\ Last(Append(b, g)) = g /\ Front(Append(b, g)) = b
        BY <1>11, <3>2, Appended
      <3> QED
        BY <2>2, <3>2, <3>3
    <2>4. PopNextMode(Lex(a, z), early) = Lex(Append(Front(author), h), z)
      <3>1. Onward(Last(a), h) /\ PopOf(h) = PopOf(Last(a))
        BY <1>11, <1>13, <1>15, <2>3
      <3>2. PopNextMode(Lex(a, z), early) = Lex(Append(Front(a), h), z)
        BY <1>13, <2>2, <2>3, <3>1, NextLex
      <3> QED
        BY <2>3, <3>2
    <2>5. Reads(x, <<"PAREN_LEFT">>, Append(Front(author), h))
      BY <1>2, <1>4, <1>17, <1>18, <2>1, <2>2, <2>4, Zenon DEF Reads
    <2>6. Advanced(t) = Append(Front(author), h)
      BY <1>2, <1>5, <1>9, <1>10, AdvancedTo
    <2>7. Write(x, <<"PAREN_LEFT">>, Append(Front(author), h), "fresh")
      <3>1. Sep # ")"
        BY Zenon DEF Sep
      <3> QED
        BY <1>1, <1>2, <1>6, <1>8, <1>21, <2>6, <3>1, Zenon
    <2>8. h.form = Here.form
      BY <1>2, <1>12, <1>13 DEF Later
    <2>9. Follows("fresh", After(lexer.last, <<"PAREN_LEFT">>), h)
      BY <1>19
    <2> QED
      BY <1>13, <2>5, <2>7, <2>8, <2>9, Moved
  <1> QED
    BY <1>20, <1>21

\* "," that ends an argument.
LEMMA NextArgumentRead ==
    ASSUME IInv, Here.groups = <<>>, NEW x, x.k = Sep, CommaPop(lexer),
           Argument \in {"E", "D", "M", "V", "S", "R"} \cup Special
    PROVE  ScanOne(lexer, x) = NextArgument(lexer)
  <1>1. PICK l, f : l = lexer /\ f = Here
    OBVIOUS
  <1>2. LitOf(f) = 0
    BY <1>1, NoGroups
  <1>3. l.lit = 0 /\ CommaPop(l)
    BY <1>1, <1>2, Present DEF Known, At
  <1>4. CASE Argument \in {"E", "D", "M"}
    <2>1. ~(l.lit > 0)
      BY <1>3
    <2>2. ModeExpr(l, x) = NextArgument(l)
      BY <1>3, <2>1, ExprRows, Zenon
    <2> QED
      BY <1>1, <1>4, <2>2, Scanned
  <1>5. CASE Argument = "V"
    <2>1. ModeVariable(l, x) = NextArgument(l)
      BY VariableRows
    <2> QED
      BY <1>1, <1>5, <2>1, Scanned
  <1>6. CASE Argument \in {"S", "R"}
    <2>1. ModeString(l, x) = NextArgument(l)
      BY <1>3, StringRows
    <2> QED
      BY <1>1, <1>6, <2>1, Scanned
  <1>7. CASE Argument \in Special
    <2>1. ModeSpecial(l, x) = NextArgument(l)
      BY SpecialRows
    <2> QED
      BY <1>1, <1>7, <2>1, Scanned
  <1> QED
    BY <1>4, <1>5, <1>6, <1>7

\* h holds k besides what f holds.
OneMore(f, h, k) == /\ f.groups \in Seq(GroupType) /\ k \in GroupType
                    /\ h.groups = Append(f.groups, k)

\* What it adds to a count.
LEMMA CountOne ==
    ASSUME NEW f, NEW h, NEW k, OneMore(f, h, k), NEW K
    PROVE  /\ Count(f, K) \in Nat /\ Count(h, K) \in Nat
           /\ k \in K => Count(h, K) = Count(f, K) + 1
           /\ k \notin K => Count(h, K) = Count(f, K)
  BY CountMore DEF OneMore

\* The construct without its innermost group.
LEMMA OneLess ==
    ASSUME NEW f \in FrameType, f.groups # <<>>, NEW h, h.groups = Front(f.groups)
    PROVE  OneMore(h, f, Last(f.groups))
  <1>1. PICK g \in Seq(GroupType) : g = f.groups
    BY DEF FrameType
  <1>2. Last(g) \in GroupType /\ Front(g) \in Seq(GroupType) /\ g = Append(Front(g), Last(g))
    BY <1>1, LastFront
  <1> QED
    BY <1>1, <1>2 DEF OneMore

\* Something is open.
LEMMA CountOpen ==
    ASSUME NEW f \in FrameType, f.groups # <<>>, NEW K, Last(f.groups) \in K
    PROVE  Count(f, K) \in Nat /\ Count(f, K) > 0
  <1>1. PICK h, k : h = Fr(f.form, f.args, Front(f.groups)) /\ k = Last(f.groups)
    OBVIOUS
  <1>2. h.groups = Front(f.groups)
    BY <1>1, FrFields
  <1>3. OneMore(h, f, k)
    BY <1>1, <1>2, OneLess
  <1>4. Count(h, K) \in Nat /\ Count(f, K) = Count(h, K) + 1
    BY <1>1, <1>3, CountOne
  <1> QED
    BY <1>4

\* A comma ends the argument, separates within it, or is text, as meant.
LEMMA CommaStep ==
    ASSUME IInv, Comma
    PROVE  IInv'
  <1>1. PICK x, l, f, z : x = Lexeme(Sep) /\ l = lexer /\ f = Here /\ z = lexer.last
    OBVIOUS
  <1>2. x.k = Sep
    BY <1>1, LexemeFields
  <1>3. /\ Known(f, Argument, Tail(f.args)) /\ lexer = Lex(author, z) /\ ArgsFit(f)
        /\ f \in FrameType /\ Last(author) = f /\ author \in Seq(FrameType) /\ author # <<>>
    BY <1>1, Present, ShapedLast DEF Known, Fit
  <1>4. ASSUME NEW n \in {"fresh"}, NEW g PROVE Follows(n, After(lexer.last, <<"COMMA">>), g)
    BY Afters, Outside
  <1>5. CASE /\ Form \in Holding /\ Argument \notin {"(", "<", "L", "P", "F"}
             /\ Len(Here.args) > 1 /\ Here.args[2] \notin {"(", ")"}
             /\ Write(Lexeme(Sep), <<"COMMA">>, Advanced(Tail(Here.args)), "fresh")
    <2>1. f.form = Form /\ f.groups = <<>>
      BY <1>1, <1>5, OpenHere
    <2>2. PICK r \in Seq(ArgType), n \in Nat : r = f.args /\ n = Len(r)
      BY <1>3 DEF Known
    <2>3. n > 1 /\ r # <<>> /\ r[2] \notin {"(", ")"} /\ Head(r) = r[1]
      <3>1. n > 1 /\ r[2] \notin {"(", ")"}
        BY <1>1, <1>5, <2>2
      <3>2. r # <<>>
        BY <2>2, <3>1
      <3> QED
        BY <2>2, <3>1, <3>2, HeadTail
    <2>4. PICK t \in Seq(ArgType) : t = Tail(r) /\ Len(t) = n - 1 /\ t[1] = r[2]
      <3>1. PICK t : t = Tail(r)
        OBVIOUS
      <3>2. t \in Seq(ArgType) /\ Len(t) = n - 1 /\ \A i \in 1 .. n - 1 : t[i] = r[i + 1]
        BY <2>2, <2>3, <3>1, HeadTail
      <3>3. t[1] = r[2]
        BY <2>2, <2>3, <3>2
      <3> QED
        BY <3>1, <3>2, <3>3
    <2>5. t # <<>> /\ t # <<")">> /\ t # <<"(", "F">>
      <3>1. <<")">>[1] = ")" /\ <<"(", "F">>[1] = "("
        OBVIOUS
      <3>2. t[1] \notin {"(", ")"}
        BY <2>3, <2>4
      <3>3. t # <<>>
        <4>1. n - 1 > 0
          BY <2>2, <2>3
        <4>2. Len(t) > 0
          BY <2>4, <4>1
        <4> QED
          BY <4>2
      <3> QED
        BY <3>1, <3>2, <3>3
    <2>6. LeftFits(f, Argument, t) /\ HeadFits(f, Argument)
      BY <1>3, <2>2, <2>4 DEF Known
    <2>7. f.form \in {"plain", "call", "function", "code"}
      <3>1. f.form \in Holding \cup {"script"}
        BY <1>3 DEF FrameType
      <3>2. f.form \notin {"script", "index"}
        BY <2>5, <2>6 DEF LeftFits
      <3>3. f.form # "declare"
        BY <1>5, <2>5, <2>6 DEF LeftFits, HeadFits
      <3> QED
        BY <3>1, <3>2, <3>3 DEF Holding
    <2>8. Argument \in {"E", "D", "M", "V", "S", "R"} \cup Special
      <3>1. f.form \in {"plain", "call"} => Argument # "Z"
        BY <2>5, <2>6 DEF LeftFits, Final
      <3> QED
        BY <1>5, <2>6, <2>7, <3>1 DEF HeadFits, Inner, CommandType
    <2>9. f.form \in {"function", "code"} => n > 2 /\ Head(r) \notin {"(", "<"}
      <3>1. ASSUME f.form \in {"function", "code"} PROVE n > 2
        <4>1. CallFits(r)
          BY <1>3, <2>2, <3>1 DEF ArgsFit
        <4> QED
          BY <2>2, <2>3, <4>1 DEF CallFits
      <3> QED
        BY <1>1, <1>5, <2>2, <3>1 DEF Argument
    <2>10. PICK h : h = Fr(f.form, Tail(f.args), <<>>)
      OBVIOUS
    <2>11. /\ h \in FrameType /\ Fit(h) /\ Later(f, h) /\ h.args # <<>>
           /\ PopOf(h) = IF h.form = "plain" THEN "COMMAND" ELSE "FUNCTION"
      <3>1. \/ f.form \in {"plain", "call"} /\ Len(f.args) > 1
            \/ f.form \in {"function", "code"} /\ Len(f.args) > 2
        BY <2>2, <2>3, <2>7, <2>9
      <3> QED
        BY <1>3, <2>1, <2>10, <3>1, LaterFrame
    <2>12. PopOf(h) = PopOf(f)
      BY <2>2, <2>7, <2>9, <2>11 DEF PopOf, Called, Later
    <2>13. Onward(f, h)
      BY <1>1, <1>5, <2>2, <2>4, <2>5, <2>7, <2>11 DEF Onward, Later, CommaEnds, Argument
    <2>14. CommaPop(lexer)
      BY <1>1, <1>3, <1>5, <2>2, <2>4, <2>5, <2>7 DEF Known, At
    <2>15. ScanOne(lexer, x) = NextArgument(lexer)
      BY <1>1, <1>2, <2>1, <2>8, <2>14, NextArgumentRead
    <2>16. PICK early : early = FALSE
      OBVIOUS
    <2>17. Len(author) > 1
      BY <1>1, <2>7, InConstruct
    <2>18. PopNextMode(Lex(author, z), early) = Lex(Append(Front(author), h), z)
      BY <1>3, <2>11, <2>12, <2>13, <2>16, <2>17, NextLex
    <2>19. Reads(x, <<"COMMA">>, Append(Front(author), h))
      BY <1>1, <1>3, <2>15, <2>16, <2>18, Zenon DEF Reads, NextArgument
    <2>20. Write(x, <<"COMMA">>, Append(Front(author), h), "fresh")
      <3>1. h = Fr(f.form, t, <<>>)
        BY <2>2, <2>4, <2>10
      <3>2. Advanced(t) = Append(Front(author), h)
        BY <1>1, <2>1, <3>1, AdvancedTo
      <3> QED
        BY <1>1, <1>5, <2>2, <2>4, <3>2, Zenon
    <2>21. h.form = Here.form
      BY <1>1, <2>11 DEF Later
    <2>22. Follows("fresh", After(lexer.last, <<"COMMA">>), h)
      BY <1>4
    <2> QED
      BY <2>11, <2>19, <2>20, <2>21, <2>22, Moved
  <1>6. CASE /\ Form = "set" \/ (Form \in Holding /\ Argument \in {"P", "L", "F"})
             /\ Write(Lexeme(Sep), <<"COMMA">>, author, "fresh")
    <2>1. Form = "set" => /\ f.groups # <<>> /\ Last(f.groups) = "set" /\ Argument \in ExprTypes
      BY <1>1, OpenHere DEF GroupType, Holds, Argument
    <2>2. ScanOne(l, x) = Emit(l, <<"COMMA">>)
      <3>1. CASE Argument = "DEFAULT"
        <4>1. x.k \in Plain \ {"["}
          BY <1>2, Zenon DEF Plain, Sep
        <4>2. ModeDefault(l, x) = Emit(l, <<Token[x.k]>>)
          BY <4>1, DefaultRows
        <4> QED
          BY <1>1, <1>2, <3>1, <4>2, Scanned, Tokens
      <3>2. CASE Argument \in {"E", "P", "D", "M"}
        <4>1. l.lit > 0 \/ ~CommaPop(l)
          <5>1. CASE Form = "set"
            <6>1. Count(f, {"set"}) \in Nat /\ Count(f, {"set"}) > 0
              BY <1>3, <2>1, <5>1, CountOpen
            <6>2. f.form # "script"
              BY <1>3, <3>2 DEF Known, HeadFits
            <6> QED
              BY <1>1, <1>3, <6>1, <6>2 DEF Known, At, LitOf
          <5>2. CASE Argument = "P"
            BY <1>1, <1>3, <5>2 DEF Known, At
          <5> QED
            BY <1>6, <3>2, <5>1, <5>2
        <4>2. ModeExpr(l, x) = Emit(l, <<"COMMA">>)
          BY <1>2, <4>1, ExprRows
        <4> QED
          BY <1>1, <3>2, <4>2, Scanned
      <3>3. CASE Argument = "L"
        <4>1. ModeList(l, x) = Emit(l, <<"COMMA">>)
          BY <1>2, ListRows
        <4> QED
          BY <1>1, <3>3, <4>1, Scanned
      <3>4. CASE Argument = "F"
        <4>1. ModeParameters(l, x) = Emit(l, <<"COMMA">>)
          BY <1>2, CallRows
        <4> QED
          BY <1>1, <3>4, <4>1, Scanned
      <3> QED
        BY <1>6, <2>1, <3>1, <3>2, <3>3, <3>4 DEF ExprTypes
    <2>3. Write(x, <<"COMMA">>, author, "fresh") /\ ScanOne(lexer, x) = Emit(lexer, <<"COMMA">>)
      BY <1>1, <1>6, <2>2, Zenon
    <2>4. Follows("fresh", After(lexer.last, <<"COMMA">>), Here)
      BY <1>4
    <2> QED
      BY <2>3, <2>4, StaysWritten
  <1>7. CASE /\ Form \in {"plain", "function", "code"} \/ (Form = "call" /\ Argument = "S")
             /\ Argument \in {"S", "R"} /\ Here.args \in {<<Argument>>, <<Argument, ")">>}
             /\ Write(Lexeme(Sep), <<"STRING">>, author, "inner")
    <2>1. f.form = Form
      BY <1>1, <1>7, OpenHere DEF Holding
    <2>2. Tail(f.args) \in {<<>>, <<")">>}
      <3>1. PICK h : h = Argument
        OBVIOUS
      <3>2. Tail(<<h>>) = <<>> /\ Tail(<<h, ")">>) = <<")">>
        OBVIOUS
      <3> QED
        BY <1>1, <1>7, <3>1, <3>2
    <2>3. ~CommaPop(l)
      BY <1>1, <1>3, <1>7, <2>2 DEF Known, At
    <2>4. ScanOne(l, x) = Emit(l, <<"STRING">>)
      <3>1. PICK raw \in BOOLEAN : raw = (l.mode = "R")
        OBVIOUS
      <3>2. ScanOne(l, x) = ModeString(l, x)
        BY <1>1, <1>7, Scanned
      <3>3. ModeString(l, x) = StringRun(l, x, raw)
        <4>1. ModeString(l, x) = StringRun(l, x, l.mode = "R")
          BY <1>2, <2>3, StringRows, Zenon
        <4> QED
          BY <3>1, <4>1
      <3>4. StringRun(l, x, raw) = Emit(l, <<"STRING">>)
        <4>1. x.k \notin {"(", ")"}
          BY <1>2, Zenon DEF Sep
        <4> QED
          BY <4>1, RunRows
      <3> QED
        BY <3>2, <3>3, <3>4
    <2>5. Write(x, <<"STRING">>, author, "inner") /\ ScanOne(lexer, x) = Emit(lexer, <<"STRING">>)
      BY <1>1, <1>7, <2>4, Zenon
    <2>6. Follows("inner", After(lexer.last, <<"STRING">>), Here)
      <3>1. After(lexer.last, <<"STRING">>) = "STRING"
        BY Afters
      <3>2. ~ (Here.form = "call" /\ Argument = "R")
        BY <1>1, <1>7, <2>1
      <3> QED
        BY <3>1, <3>2 DEF Follows, Places, Lasts, Argument
    <2> QED
      BY <2>5, <2>6, StaysWritten
  <1> QED
    BY <1>5, <1>6, <1>7, Zenon DEF Comma, Sep

-----------------------------------------------------------------------------
(* What is open in an argument.                                            *)

\* The lexer l is where the author is with h for its last construct.
Stands(l, h) == l = Lex(Append(Front(author), h), lexer.last)

\* h is the last construct with something else open, which the lexer counts.
Regroups(h) ==
    /\ h \in FrameType /\ Fit(h) /\ h.form = Here.form /\ h.args = Here.args
    /\ LitOf(h) = lexer.lit => \A b : b = BraceOf(h) => Stands(WithBrace(lexer, b), h)
    /\ BraceOf(h) = lexer.brace => \A t : t = LitOf(h) => Stands(WithLit(lexer, t), h)
    /\ LitOf(h) = lexer.lit /\ BraceOf(h) = lexer.brace => Stands(lexer, h)

\* What may be held open may be counted.
LEMMA Regrouping ==
    ASSUME IInv, NEW g \in Seq(GroupType), \A i \in 1 .. Len(g) : Holds(Here, g[i]),
           NEW h, h = Fr(Here.form, Here.args, g)
    PROVE  Regroups(h) /\ h.groups = g
  <1>1. PICK f, z : f = Here /\ z = lexer.last
    OBVIOUS
  <1>2. /\ f \in FrameType /\ ArgsFit(f) /\ lexer = Lex(author, z) /\ Last(author) = f
        /\ author \in Seq(FrameType) /\ author # <<>>
    BY <1>1, Present, ShapedLast DEF Known, Fit
  <1>3. h.form = f.form /\ h.args = f.args /\ h.groups = g
    BY <1>1, FrFields
  <1>4. h \in FrameType
    BY <1>1, <1>2, FrameWith
  <1>5. Fit(h)
    <2>1. ArgsFit(h)
      BY <1>2, <1>3 DEF ArgsFit
    <2>2. \A k : Holds(f, k) => Holds(h, k)
      BY <1>3 DEF Holds
    <2> QED
      BY <1>1, <1>3, <2>1, <2>2 DEF Fit
  <1>6. Lex(Append(Front(author), h), z)
          = Rec(ModeOf(Head(h.args)), BraceOf(h), LitOf(h), StatesOf(author), z, <<>>)
    BY <1>2, <1>3, <1>4, GroupLex
  <1>7. PICK m, b, t, s, o, c, u : /\ m = ModeOf(Head(f.args)) /\ b = BraceOf(f) /\ t = LitOf(f)
                                   /\ s = StatesOf(author) /\ o = <<>>
                                   /\ c = BraceOf(h) /\ u = LitOf(h)
    OBVIOUS
  <1>8. lexer = Rec(m, b, t, s, z, o)
    BY <1>2, <1>7, Zenon DEF Lex
  <1>9. Lex(Append(Front(author), h), z) = Rec(m, c, u, s, z, o)
    BY <1>3, <1>6, <1>7, Zenon
  <1>10. lexer.brace = b /\ lexer.lit = t
    <2>1. Rec(m, b, t, s, z, o).brace = b /\ Rec(m, b, t, s, z, o).lit = t
      BY RecFields
    <2> QED
      BY <1>8, <2>1, Zenon
  <1>11. /\ WithBrace(Rec(m, b, t, s, z, o), c) = Rec(m, c, t, s, z, o)
         /\ WithLit(Rec(m, b, t, s, z, o), u) = Rec(m, b, u, s, z, o)
    BY RecWith
  <1>12. u = t => Stands(WithBrace(lexer, c), h)
    BY <1>1, <1>8, <1>9, <1>11, Zenon DEF Stands
  <1>13. c = b => Stands(WithLit(lexer, u), h)
    BY <1>1, <1>8, <1>9, <1>11, Zenon DEF Stands
  <1>14. c = b /\ u = t => Stands(lexer, h)
    BY <1>1, <1>8, <1>9, Zenon DEF Stands
  <1> QED
    BY <1>1, <1>3, <1>4, <1>5, <1>7, <1>10, <1>12, <1>13, <1>14, Zenon DEF Regroups

\* The author opens or closes something in the argument, and so does the lexer.
LEMMA GroupWritten ==
    ASSUME IInv, NEW h, Regroups(h), NEW x, NEW m, NEW n,
           Write(x, m, Append(Front(author), h), n),
           NEW l, Stands(l, h), ScanOne(lexer, x) = Emit(l, m),
           Follows(n, After(lexer.last, m), h)
    PROVE  IInv'
  <1>1. Reads(x, m, Append(Front(author), h))
    BY Zenon DEF Reads, Stands
  <1>2. h \in FrameType /\ Fit(h) /\ h.form = Here.form
    BY DEF Regroups
  <1> QED
    BY <1>1, <1>2, Moved

\* What one more does to the lexer's counts.
LEMMA HeldCounts ==
    ASSUME NEW f, NEW h, NEW k, OneMore(f, h, k), h.form = f.form, h.args = f.args
    PROVE  /\ BraceOf(f) \in Nat /\ LitOf(f) \in Nat /\ BraceOf(h) \in Nat /\ LitOf(h) \in Nat
           /\ k = "set" => /\ BraceOf(h) = BraceOf(f)
                           /\ f.form = "script" => LitOf(h) = LitOf(f)
                           /\ f.form # "script" => LitOf(h) = LitOf(f) + 1
           /\ k \in {"group", "body"} =>
                /\ LitOf(h) = LitOf(f)
                /\ Head(f.args) \in {"DEFAULT", "D", "M"} =>
                     BraceOf(h) = 0 /\ BraceOf(f) = 0
                /\ Head(f.args) \notin {"DEFAULT", "D", "M"} => BraceOf(h) = BraceOf(f) + 1
  <1>1. PICK K, L : K = {"group", "body"} /\ L = {"set"}
    OBVIOUS
  <1>2. /\ Count(f, K) \in Nat /\ Count(h, K) \in Nat
        /\ k \in K => Count(h, K) = Count(f, K) + 1
        /\ k \notin K => Count(h, K) = Count(f, K)
    BY CountOne
  <1>3. /\ Count(f, L) \in Nat /\ Count(h, L) \in Nat
        /\ k \in L => Count(h, L) = Count(f, L) + 1
        /\ k \notin L => Count(h, L) = Count(f, L)
    BY CountOne
  <1>4. /\ BraceOf(f) = IF Head(f.args) \in {"DEFAULT", "D", "M"} THEN 0 ELSE Count(f, K)
        /\ BraceOf(h) = IF Head(f.args) \in {"DEFAULT", "D", "M"} THEN 0 ELSE Count(h, K)
        /\ LitOf(f) = IF f.form = "script" THEN 0 ELSE Count(f, L)
        /\ LitOf(h) = IF f.form = "script" THEN 0 ELSE Count(h, L)
    BY <1>1 DEF BraceOf, LitOf
  <1>5. /\ k = "set" => k \notin K /\ k \in L
        /\ k \in {"group", "body"} => k \in K /\ k \notin L
    BY <1>1
  <1> QED
    BY <1>2, <1>3, <1>4, <1>5

\* One more here.
LEMMA MoreHere ==
    ASSUME IInv, NEW k \in GroupType, Holds(Here, k),
           NEW h, h = Fr(Here.form, Here.args, Append(Here.groups, k))
    PROVE  /\ Regroups(h) /\ OneMore(Here, h, k)
           /\ Grouped(k) = Append(Front(author), h)
  <1>1. PICK f : f = Here
    OBVIOUS
  <1>2. /\ author \in Seq(FrameType) /\ author # <<>> /\ Fit(f)
        /\ f.groups \in Seq(GroupType)
    BY <1>1, Present, ShapedLast DEF Known
  <1>3. PICK g, n : g = Append(f.groups, k) /\ n = Len(f.groups)
    OBVIOUS
  <1>4. /\ n \in Nat /\ g \in Seq(GroupType) /\ Len(g) = n + 1 /\ g[n + 1] = k
        /\ \A i \in 1 .. n : g[i] = f.groups[i]
    BY <1>2, <1>3, Appended
  <1>5. \A i \in 1 .. Len(g) : Holds(f, g[i])
    <2>1. TAKE i \in 1 .. Len(g)
    <2>2. CASE i \in 1 .. n
      <3>1. g[i] = f.groups[i] /\ Holds(f, f.groups[i])
        BY <1>2, <1>3, <1>4, <2>2 DEF Fit
      <3> QED
        BY <3>1
    <2>3. CASE i = n + 1
      BY <1>1, <1>4, <2>3
    <2> QED
      BY <1>4, <2>2, <2>3
  <1>6. h = Fr(Here.form, Here.args, g)
    BY <1>1, <1>3
  <1>7. Regroups(h) /\ h.groups = g
    BY <1>1, <1>4, <1>5, <1>6, Regrouping
  <1>8. OneMore(f, h, k)
    BY <1>2, <1>3, <1>7 DEF OneMore
  <1>9. Grouped(k) = Append(Front(author), Fr(Here.form, Here.args, Append(Here.groups, k)))
    <2>1. PICK r \in Seq(ArgType) : r = f.args
      BY <1>1, Present DEF Known
    <2> QED
      BY <1>2, <2>1, Rewritten
  <1> QED
    BY <1>1, <1>7, <1>8, <1>9

\* One less here.
LEMMA LessHere ==
    ASSUME IInv, Form \in GroupType, NEW h, h = Fr(Here.form, Here.args, Front(Here.groups))
    PROVE  /\ Regroups(h) /\ OneMore(h, Here, Form) /\ Holds(Here, Form)
           /\ Ungrouped = Append(Front(author), h)
  <1>1. PICK f, g, k : f = Here /\ g = Front(Here.groups) /\ k = Form
    OBVIOUS
  <1>2. /\ author \in Seq(FrameType) /\ author # <<>> /\ f \in FrameType
    BY <1>1, Present, ShapedLast DEF Known
  <1>3. /\ f.groups # <<>> /\ Last(f.groups) = k /\ Holds(f, k)
        /\ g \in Seq(GroupType) /\ \A i \in 1 .. Len(g) : Holds(f, g[i])
    BY <1>1, OpenHere
  <1>4. h = Fr(Here.form, Here.args, g)
    BY <1>1
  <1>5. Regroups(h) /\ h.groups = g
    BY <1>1, <1>3, <1>4, Regrouping
  <1>6. OneMore(h, f, k)
    <2>1. h.groups = Front(f.groups)
      BY <1>1, <1>5
    <2> QED
      BY <1>2, <1>3, <2>1, OneLess
  <1>7. Ungrouped = Append(Front(author), Fr(Here.form, Here.args, Front(Here.groups)))
    <2>1. PICK r \in Seq(ArgType), j \in GroupType : r = f.args /\ j = k
      BY <1>1, Present DEF Known
    <2> QED
      BY <1>1, <1>2, <1>3, <2>1, Rewritten
  <1> QED
    BY <1>1, <1>3, <1>5, <1>6, <1>7

\* A parenthesis is counted where the lexer counts them, and nowhere else.
LEMMA OpenGroupStep ==
    ASSUME IInv, OpenGroup
    PROVE  IInv'
  <1>1. PICK x, l, f, m, n : /\ x = Lexeme("(") /\ l = lexer /\ f = Here
                             /\ m = IF Expression THEN "PAREN_LEFT" ELSE "STRING"
                             /\ n = IF Expression THEN "operand" ELSE "inner"
    OBVIOUS
  <1>2. PICK k, h : k = "group" /\ h = Fr(f.form, f.args, Append(f.groups, k))
    OBVIOUS
  <1>3. /\ Grouping \/ (Argument = "S" /\ f.form \in {"function", "call"})
        /\ Write(x, <<m>>, Grouped(k), n)
    BY <1>1, <1>2, Zenon DEF OpenGroup
  <1>4. x.k = "("
    BY <1>1, LexemeFields
  <1>5. Known(f, Argument, Tail(f.args)) /\ f.args # <<>>
    BY <1>1, Present DEF Known
  <1>6. k \in GroupType /\ Holds(f, k)
    BY <1>1, <1>2, <1>3 DEF GroupType, Holds, Grouping, Expression, ExprTypes, Argument
  <1>7. Regroups(h) /\ OneMore(f, h, k) /\ Grouped(k) = Append(Front(author), h)
    BY <1>1, <1>2, <1>6, MoreHere
  <1>8. /\ l.mode = ModeOf(Argument) /\ l.brace = BraceOf(f) /\ l.lit = LitOf(f)
        /\ Argument \in ArgType /\ Argument # ")"
    BY <1>1, <1>5 DEF Known, At
  <1>9. PICK b : b = BraceOf(h)
    OBVIOUS
  <1>10. /\ LitOf(h) = l.lit
         /\ Argument \in {"DEFAULT", "D", "M"} => b = l.brace
         /\ Argument \notin {"DEFAULT", "D", "M"} => b = l.brace + 1
    <2>1. h.form = f.form /\ h.args = f.args
      BY <1>1, <1>7 DEF Regroups
    <2>2. /\ LitOf(h) = LitOf(f)
          /\ Head(f.args) \in {"DEFAULT", "D", "M"} => BraceOf(h) = 0 /\ BraceOf(f) = 0
          /\ Head(f.args) \notin {"DEFAULT", "D", "M"} => BraceOf(h) = BraceOf(f) + 1
      BY <1>2, <1>7, <2>1, HeldCounts
    <2> QED
      BY <1>1, <1>8, <1>9, <2>2 DEF Argument
  <1>11. /\ Stands(WithBrace(l, b), h)
         /\ b = l.brace => Stands(l, h)
    BY <1>1, <1>7, <1>9, <1>10 DEF Regroups
  <1>12. \E j : Stands(j, h) /\ ScanOne(l, x) = Emit(j, <<m>>)
    <2>1. CASE Argument = "DEFAULT"
      <3>1. m = "PAREN_LEFT" /\ Stands(l, h)
        BY <1>1, <1>10, <1>11, <2>1 DEF Expression
      <3>2. ModeDefault(l, x) = Emit(l, <<Token[x.k]>>) /\ Token[x.k] = "PAREN_LEFT"
        <4>1. x.k \in Plain \ {"["}
          BY <1>4, Zenon DEF Plain
        <4> QED
          BY <1>4, <4>1, DefaultRows, Tokens
      <3> QED
        BY <1>1, <2>1, <3>1, <3>2, Scanned
    <2>2. CASE Argument \in {"D", "M"}
      <3>1. m = "PAREN_LEFT" /\ Stands(l, h)
        BY <1>1, <1>10, <1>11, <2>2 DEF Expression
      <3>2. l.mode # "E"
        BY <1>8, <2>2 DEF ModeOf
      <3>3. ModeExpr(l, x) = Emit(l, <<"PAREN_LEFT">>)
        BY <1>4, <3>2, ParenRows
      <3> QED
        BY <1>1, <2>2, <3>1, <3>3, Scanned
    <2>3. CASE Argument \in {"E", "P"}
      <3>1. m = "PAREN_LEFT" /\ b = l.brace + 1
        BY <1>1, <1>10, <2>3 DEF Expression
      <3>2. l.mode = "E"
        BY <1>8, <2>3 DEF ModeOf
      <3>3. ModeExpr(l, x) = Emit(WithBrace(l, l.brace + 1), <<"PAREN_LEFT">>)
        BY <1>4, <3>2, ParenRows
      <3> QED
        BY <1>1, <1>11, <2>3, <3>1, <3>3, Scanned
    <2>4. CASE Argument = "S" /\ f.form \in {"function", "call"}
      <3>1. m = "STRING" /\ b = l.brace + 1
        BY <1>1, <1>10, <2>4 DEF Expression
      <3>2. FuncPop(l) /\ ~Top(l).code /\ l.mode # "R"
        BY <1>1, <1>5, <1>8, <2>4 DEF Known, At, ModeOf
      <3>3. PICK raw \in BOOLEAN : raw = (l.mode = "R") /\ ~raw
        BY <3>2
      <3>4. ModeString(l, x) = StringRun(l, x, raw)
        <4>1. ModeString(l, x) = StringRun(l, x, l.mode = "R")
          BY <1>4, StringRows
        <4> QED
          BY <3>3, <4>1
      <3>5. StringRun(l, x, raw) = Emit(WithBrace(l, l.brace + 1), <<"STRING">>)
        BY <1>4, <3>2, <3>3, RunRows
      <3> QED
        BY <1>1, <1>11, <2>4, <3>1, <3>4, <3>5, Scanned
    <2> QED
      BY <1>3, <2>1, <2>2, <2>3, <2>4 DEF Grouping, Expression
  <1>13. PICK j : Stands(j, h) /\ ScanOne(lexer, x) = Emit(j, <<m>>)
    BY <1>1, <1>12
  <1>14. Write(x, <<m>>, Append(Front(author), h), n)
    BY <1>3, <1>7, Zenon
  <1>15. Follows(n, After(lexer.last, <<m>>), h)
    <2>1. PICK z : z = After(lexer.last, <<m>>)
      OBVIOUS
    <2>2. z = IF Expression THEN "OP" ELSE "STRING"
      BY <1>1, <2>1, Afters
    <2>3. ~Expression => Head(h.args) = "S"
      BY <1>3, <1>7 DEF Grouping, Regroups, Argument
    <2> QED
      BY <1>1, <2>1, <2>2, <2>3 DEF Follows, Places, Lasts
  <1> QED
    BY <1>7, <1>13, <1>14, <1>15, GroupWritten

\* Its ")" is not taken for that of the call around it.
LEMMA CloseGroupStep ==
    ASSUME IInv, CloseGroup
    PROVE  IInv'
  <1>1. PICK x, l, f, m, n : /\ x = Lexeme(")") /\ l = lexer /\ f = Here
                             /\ m = IF Expression THEN "PAREN_RIGHT" ELSE "STRING"
                             /\ n = IF Ungrouped = <<Script>> THEN "start" ELSE "inner"
    OBVIOUS
  <1>2. PICK h : h = Fr(f.form, f.args, Front(f.groups))
    OBVIOUS
  <1>3. Form = "group" /\ Write(x, <<m>>, Ungrouped, n)
    BY <1>1, <1>2, Zenon DEF CloseGroup
  <1>4. x.k = ")"
    BY <1>1, LexemeFields
  <1>5. Known(f, Argument, Tail(f.args)) /\ f.args # <<>>
    BY <1>1, Present DEF Known
  <1>6. /\ Regroups(h) /\ OneMore(h, f, "group") /\ Holds(f, "group")
        /\ Ungrouped = Append(Front(author), h)
    BY <1>1, <1>2, <1>3, LessHere DEF GroupType
  <1>7. \/ Argument \in ExprTypes /\ (Argument = "D" => f.form = "plain")
        \/ Argument = "S" /\ f.form \in {"function", "call"}
    BY <1>1, <1>6 DEF Holds, Argument
  <1>8. /\ l.mode = ModeOf(Argument) /\ l.brace = BraceOf(f) /\ l.lit = LitOf(f)
        /\ Argument \in ArgType /\ Argument # ")"
    BY <1>1, <1>5 DEF Known, At
  <1>9. PICK b : b = BraceOf(h)
    OBVIOUS
  <1>10. /\ LitOf(h) = l.lit /\ b \in Nat
         /\ Argument \in {"DEFAULT", "D", "M"} => b = l.brace
         /\ Argument \notin {"DEFAULT", "D", "M"} => l.brace = b + 1
    <2>1. f.form = h.form /\ f.args = h.args
      BY <1>1, <1>6 DEF Regroups
    <2>2. PICK k : k = "group"
      OBVIOUS
    <2>3. /\ LitOf(f) = LitOf(h) /\ BraceOf(h) \in Nat
          /\ Head(h.args) \in {"DEFAULT", "D", "M"} => BraceOf(f) = 0 /\ BraceOf(h) = 0
          /\ Head(h.args) \notin {"DEFAULT", "D", "M"} => BraceOf(f) = BraceOf(h) + 1
      BY <1>6, <2>1, <2>2, HeldCounts
    <2> QED
      BY <1>1, <1>8, <1>9, <2>1, <2>3 DEF Argument
  <1>11. /\ Stands(WithBrace(l, b), h)
         /\ b = l.brace => Stands(l, h)
    BY <1>1, <1>6, <1>9, <1>10 DEF Regroups
  <1>12. \E j : Stands(j, h) /\ ScanOne(l, x) = Emit(j, <<m>>)
    <2>1. CASE Argument = "DEFAULT"
      <3>1. m = "PAREN_RIGHT" /\ Stands(l, h)
        BY <1>1, <1>10, <1>11, <2>1 DEF Expression
      <3>2. ModeDefault(l, x) = Emit(l, <<Token[x.k]>>) /\ Token[x.k] = "PAREN_RIGHT"
        <4>1. x.k \in Plain \ {"["}
          BY <1>4, Zenon DEF Plain
        <4> QED
          BY <1>4, <4>1, DefaultRows, Tokens
      <3> QED
        BY <1>1, <2>1, <3>1, <3>2, Scanned
    <2>2. CASE Argument \in {"D", "M"}
      <3>1. m = "PAREN_RIGHT" /\ Stands(l, h)
        BY <1>1, <1>10, <1>11, <2>2 DEF Expression
      <3>2. l.mode # "E" /\ (l.mode = "M" \/ ~FuncPop(l))
        BY <1>1, <1>5, <1>7, <1>8, <2>2 DEF ModeOf, Known, At
      <3>3. ModeExpr(l, x) = Emit(l, <<"PAREN_RIGHT">>)
        BY <1>4, <3>2, ParenRows
      <3> QED
        BY <1>1, <2>2, <3>1, <3>3, Scanned
    <2>3. CASE Argument \in {"E", "P"}
      <3>1. m = "PAREN_RIGHT" /\ b = l.brace + (-1) /\ l.brace # 0
        BY <1>1, <1>10, <2>3 DEF Expression
      <3>2. l.mode = "E"
        BY <1>8, <2>3 DEF ModeOf
      <3>3. ModeExpr(l, x) = Emit(WithBrace(l, l.brace + (-1)), <<"PAREN_RIGHT">>)
        BY <1>4, <3>1, <3>2, ParenRows
      <3> QED
        BY <1>1, <1>11, <2>3, <3>1, <3>3, Scanned
    <2>4. CASE Argument = "S" /\ f.form \in {"function", "call"}
      <3>1. m = "STRING" /\ b = l.brace - 1 /\ l.brace # 0
        BY <1>1, <1>10, <2>4 DEF Expression
      <3>2. FuncPop(l) /\ ~Top(l).code /\ l.mode # "R"
        BY <1>1, <1>5, <1>8, <2>4 DEF Known, At, ModeOf
      <3>3. PICK raw \in BOOLEAN : raw = (l.mode = "R") /\ ~raw
        BY <3>2
      <3>4. ModeString(l, x) = StringRun(l, x, raw)
        <4>1. ModeString(l, x) = StringRun(l, x, l.mode = "R")
          BY <1>4, <3>1, <3>2, StringRows
        <4> QED
          BY <3>3, <4>1
      <3>5. StringRun(l, x, raw) = Emit(WithBrace(l, l.brace - 1), <<"STRING">>)
        BY <1>4, <3>2, <3>3, RunRows
      <3> QED
        BY <1>1, <1>11, <2>4, <3>1, <3>4, <3>5, Scanned
    <2> QED
      BY <1>7, <2>1, <2>2, <2>3, <2>4 DEF ExprTypes
  <1>13. PICK j : Stands(j, h) /\ ScanOne(lexer, x) = Emit(j, <<m>>)
    BY <1>1, <1>12
  <1>14. Write(x, <<m>>, Append(Front(author), h), n)
    BY <1>3, <1>6, Zenon
  <1>15. Follows(n, After(lexer.last, <<m>>), h)
    <2>1. PICK z : z = After(lexer.last, <<m>>)
      OBVIOUS
    <2>2. z = IF Expression THEN "OTHER" ELSE "STRING"
      BY <1>1, <2>1, Afters
    <2>3. ~Expression => Head(h.args) = "S"
      BY <1>7, <1>6 DEF Regroups, Argument, Expression, ExprTypes
    <2>4. n = "start" => Expression
      <3>1. SUFFICES ASSUME Ungrouped = <<Script>> PROVE Argument = "DEFAULT"
        BY <1>1 DEF Expression
      <3>2. PICK a \in Seq(FrameType) : a = Front(author)
        BY Present, ShapedLast, LastFront
      <3>3. Last(Append(a, h)) = h
        BY <1>6, <3>2, Appended DEF Regroups
      <3>4. Last(<<Script>>) = Script
        BY DEF Last
      <3>5. h = Script
        BY <1>6, <3>1, <3>2, <3>3, <3>4, Zenon
      <3>6. Head(h.args) = "DEFAULT"
        BY <3>5 DEF Script, Frame
      <3> QED
        BY <1>6, <3>6 DEF Regroups, Argument
    <2> QED
      BY <1>1, <2>1, <2>2, <2>3, <2>4 DEF Follows, Places, Lasts
  <1> QED
    BY <1>6, <1>13, <1>14, <1>15, GroupWritten

-----------------------------------------------------------------------------
(* Braces and statements.                                                  *)

\* putnpc2's code: the lexer counts its braces, and nothing else is open in it.
LEMMA BodyCount ==
    ASSUME IInv, Argument = "Z"
    PROVE  /\ Here.form = "plain" /\ Tail(Here.args) = <<>> /\ lexer.brace \in Nat
           /\ lexer.brace = Opened({"body"})
           /\ Form = "body" <=> Here.groups # <<>>
           /\ Form = "body" <=> lexer.brace # 0
  <1>1. PICK f, K : f = Here /\ K = {"group", "body"}
    OBVIOUS
  <1>2. /\ f \in FrameType /\ Fit(f) /\ HeadFits(f, "Z") /\ LeftFits(f, "Z", Tail(f.args))
        /\ f.groups \in Seq(GroupType) /\ lexer.brace = BraceOf(f) /\ Head(f.args) = "Z"
    BY <1>1, Present DEF Known, At, Argument
  <1>3. f.form = "plain"
    <2>1. f.form \in Holding \cup {"script"}
      BY <1>2 DEF FrameType
    <2> QED
      BY <1>2, <2>1 DEF HeadFits, Holding, Inner
  <1>4. Tail(f.args) = <<>>
    BY <1>2, <1>3 DEF LeftFits, Final
  <1>5. lexer.brace = Count(f, K)
    BY <1>1, <1>2 DEF BraceOf
  <1>6. \A i \in DOMAIN f.groups : f.groups[i] = "body"
    <2>1. \A i \in 1 .. Len(f.groups) : Holds(f, f.groups[i])
      BY <1>2 DEF Fit
    <2>2. \A k : Holds(f, k) => k = "body"
      BY <1>2 DEF Holds, ExprTypes
    <2> QED
      BY <1>2, <2>1, <2>2
  <1>7. Count(f, K) = Count(f, {"body"})
    <2>1. {i \in DOMAIN f.groups : f.groups[i] \in K}
            = {i \in DOMAIN f.groups : f.groups[i] \in {"body"}}
      BY <1>1, <1>6
    <2> QED
      BY <2>1 DEF Count
  <1>8. CASE f.groups = <<>>
    <2>1. Form = "plain"
      BY <1>1, <1>3, <1>8 DEF Form
    <2>2. Count(f, K) = 0
      BY <1>8, NoGroups
    <2> QED
      BY <1>1, <1>3, <1>4, <1>5, <1>7, <1>8, <2>1, <2>2 DEF Opened
  <1>9. CASE f.groups # <<>>
    <2>1. Last(f.groups) = "body"
      <3>1. Last(f.groups) = f.groups[Len(f.groups)]
        BY <1>2, <1>9, LastFront
      <3>2. Len(f.groups) \in DOMAIN f.groups
        BY <1>2, <1>9
      <3> QED
        BY <1>6, <3>1, <3>2
    <2>2. Form = "body"
      BY <1>1, <1>9, <2>1 DEF Form
    <2>3. Count(f, K) \in Nat /\ Count(f, K) > 0
      BY <1>1, <1>2, <1>9, <2>1, CountOpen
    <2> QED
      BY <1>1, <1>3, <1>4, <1>5, <1>7, <1>9, <2>2, <2>3 DEF Opened
  <1> QED
    BY <1>8, <1>9

\* ";" or "}" where it ends a command.
LEMMA EndsCommand ==
    ASSUME IInv, Here.form = "plain", Here.groups = <<>>, Argument # "Z", NEW x
    PROVE  /\ x.k = Stop => ScanOne(lexer, x) = EndStatement(lexer)
           /\ x.k = RBrace => ScanOne(lexer, x) = EndAtBrace(lexer)
  <1>1. PICK l, f : l = lexer /\ f = Here
    OBVIOUS
  <1>2. LitOf(f) = 0
    BY <1>1, NoGroups
  <1>3. CmdPop(l) /\ ~ (l.lit > 0)
    BY <1>1, <1>2, Present DEF Known, At
  <1>4. Argument \in CommandType \ {"Z"}
    BY Present DEF Known, HeadFits
  <1>5. CASE Argument \in {"E", "D", "M"}
    <2>1. /\ x.k = Stop => ModeExpr(l, x) = EndStatement(l)
          /\ x.k = RBrace => ModeExpr(l, x) = EndAtBrace(l)
      BY <1>3, ExprRows
    <2> QED
      BY <1>1, <1>5, <2>1, Scanned
  <1>6. CASE Argument = "V"
    <2>1. /\ x.k = Stop => ModeVariable(l, x) = EndStatement(l)
          /\ x.k = RBrace => ModeVariable(l, x) = EndAtBrace(l)
      BY <1>3, VariableRows
    <2> QED
      BY <1>1, <1>6, <2>1, Scanned
  <1>7. CASE Argument \in {"S", "R"}
    <2>1. /\ x.k = Stop => ModeString(l, x) = EndStatement(l)
          /\ x.k = RBrace => ModeString(l, x) = EndAtBrace(l)
      BY <1>3, StringRows
    <2> QED
      BY <1>1, <1>7, <2>1, Scanned
  <1>8. CASE Argument = "L"
    <2>1. /\ x.k = Stop => ModeList(l, x) = EndStatement(l)
          /\ x.k = RBrace => ModeList(l, x) = EndAtBrace(l)
      BY <1>3, ListRows
    <2> QED
      BY <1>1, <1>8, <2>1, Scanned
  <1>9. CASE Argument \in Special
    <2>1. /\ x.k = Stop => ModeSpecial(l, x) = EndStatement(l)
          /\ x.k = RBrace => ModeSpecial(l, x) = EndAtBrace(l)
      BY <1>3, SpecialRows
    <2> QED
      BY <1>1, <1>9, <2>1, Scanned
  <1> QED
    BY <1>4, <1>5, <1>6, <1>7, <1>8, <1>9 DEF CommandType

\* A brace opens a literal, a block or the code of a putnpc2.
LEMMA OpenBraceStep ==
    ASSUME IInv, OpenBrace
    PROVE  IInv'
  <1>1. PICK x, l, f : x = Lexeme(LBrace) /\ l = lexer /\ f = Here
    OBVIOUS
  <1>2. x.k = LBrace
    BY <1>1, LexemeFields
  <1>3. ModeDefault(l, x) = Emit(l, <<"BRACE_LEFT">>)
    <2>1. x.k \in Plain \ {"["}
      BY <1>2, Zenon DEF Plain, LBrace
    <2>2. ModeDefault(l, x) = Emit(l, <<Token[x.k]>>)
      BY <2>1, DefaultRows
    <2> QED
      BY <1>2, <2>2, Tokens
  <1>4. Known(f, Argument, Tail(f.args)) /\ l.brace = BraceOf(f) /\ l.lit = LitOf(f)
    BY <1>1, Present DEF Known, At
  <1>5. CASE Expression /\ Write(Lexeme(LBrace), <<"BRACE_LEFT">>, Grouped("set"), "fresh")
    <2>1. PICK k, h : k = "set" /\ h = Fr(f.form, f.args, Append(f.groups, k))
      OBVIOUS
    <2>2. k \in GroupType /\ Holds(f, k)
      BY <1>1, <1>5, <2>1 DEF GroupType, Holds, Expression, ExprTypes, Argument
    <2>3. Regroups(h) /\ OneMore(f, h, k) /\ Grouped(k) = Append(Front(author), h)
      BY <1>1, <2>1, <2>2, MoreHere
    <2>4. /\ BraceOf(h) = l.brace /\ l.lit \in Nat
          /\ f.form = "script" => LitOf(h) = l.lit
          /\ f.form # "script" => LitOf(h) = l.lit + 1
      <3>1. h.form = f.form /\ h.args = f.args
        BY <1>1, <2>3 DEF Regroups
      <3> QED
        BY <1>4, <2>1, <2>3, <3>1, HeldCounts
    <2>5. \E j : Stands(j, h) /\ ScanOne(l, x) = Emit(j, <<"BRACE_LEFT">>)
      <3>1. CASE Argument = "DEFAULT"
        <4>1. f.form = "script"
          BY <1>4, <3>1 DEF Known, HeadFits
        <4>2. Stands(l, h)
          BY <1>1, <2>3, <2>4, <4>1 DEF Regroups
        <4> QED
          BY <1>1, <1>3, <3>1, <4>2, Scanned
      <3>2. CASE Argument \in {"E", "P", "D", "M"}
        <4>1. f.form # "script"
          BY <1>4, <3>2 DEF Known, HeadFits
        <4>2. Stands(WithLit(l, l.lit + 1), h)
          BY <1>1, <2>3, <2>4, <4>1 DEF Regroups
        <4>3. ModeExpr(l, x) = Emit(WithLit(l, l.lit + 1), <<"BRACE_LEFT">>)
          BY <1>2, ExprRows
        <4> QED
          BY <1>1, <3>2, <4>2, <4>3, Scanned
      <3> QED
        BY <1>5, <3>1, <3>2 DEF Expression
    <2>6. PICK j : Stands(j, h) /\ ScanOne(lexer, x) = Emit(j, <<"BRACE_LEFT">>)
      BY <1>1, <2>5
    <2>7. Write(x, <<"BRACE_LEFT">>, Append(Front(author), h), "fresh")
      BY <1>1, <1>5, <2>1, <2>3, Zenon
    <2>8. Follows("fresh", After(lexer.last, <<"BRACE_LEFT">>), h)
      BY Afters, Outside
    <2> QED
      BY <2>3, <2>6, <2>7, <2>8, GroupWritten
  <1>6. CASE Form = "script" /\ Write(Lexeme(LBrace), <<"BRACE_LEFT">>, author, "start")
    <2>1. ScanOne(lexer, x) = Emit(lexer, <<"BRACE_LEFT">>)
      BY <1>1, <1>3, <1>6, AtStart, Scanned
    <2>2. Write(x, <<"BRACE_LEFT">>, author, "start")
      BY <1>1, <1>6, Zenon
    <2>3. Follows("start", After(lexer.last, <<"BRACE_LEFT">>), Here)
      BY Afters, Outside
    <2> QED
      BY <2>1, <2>2, <2>3, StaysWritten
  <1>7. CASE /\ Argument = "Z" /\ (Form = "body" \/ place = "fresh")
             /\ Write(Lexeme(LBrace), IF Form = "body" THEN <<"STRING">> ELSE <<>>,
                      Grouped("body"), "inner")
    <2>1. PICK k, h, m : /\ k = "body" /\ h = Fr(f.form, f.args, Append(f.groups, k))
                         /\ m = IF Form = "body" THEN <<"STRING">> ELSE <<>>
      OBVIOUS
    <2>2. k \in GroupType /\ Holds(f, k)
      BY <1>1, <1>7, <2>1 DEF GroupType, Holds, Argument
    <2>3. Regroups(h) /\ OneMore(f, h, k) /\ Grouped(k) = Append(Front(author), h)
      BY <1>1, <2>1, <2>2, MoreHere
    <2>4. LitOf(h) = l.lit /\ BraceOf(h) = l.brace + 1
      <3>1. h.form = f.form /\ h.args = f.args
        BY <1>1, <2>3 DEF Regroups
      <3> QED
        BY <1>1, <1>4, <1>7, <2>1, <2>3, <3>1, HeldCounts DEF Argument
    <2>5. PICK j : j = WithBrace(l, l.brace + 1)
      OBVIOUS
    <2>6. Stands(j, h)
      BY <1>1, <2>3, <2>4, <2>5 DEF Regroups
    <2>7. ScanOne(lexer, x) = Emit(j, m)
      <3>1. ModeBody(l, x) = Emit(WithBrace(l, l.brace + 1),
                                  IF l.brace = 0 THEN <<>> ELSE <<"STRING">>)
        BY <1>2, BodyRows
      <3>2. m = IF l.brace = 0 THEN <<>> ELSE <<"STRING">>
        BY <1>1, <1>7, <2>1, BodyCount
      <3> QED
        BY <1>1, <1>7, <2>5, <3>1, <3>2, Scanned
    <2>8. Write(x, m, Append(Front(author), h), "inner")
      BY <1>1, <1>7, <2>1, <2>3, Zenon
    <2>9. Follows("inner", After(lexer.last, m), h)
      <3>1. PICK z : z = lexer.last
        OBVIOUS
      <3>2. h.form = "plain"
        BY <1>7, <2>3, BodyCount DEF Regroups
      <3>3. CASE Form = "body"
        <4>1. After(z, m) = "STRING"
          BY <2>1, <3>3, Afters
        <4> QED
          BY <3>1, <3>2, <4>1 DEF Follows, Places, Lasts
      <3>4. CASE Form # "body"
        <4>1. After(z, m) = z
          BY <2>1, <3>4, Afters
        <4>2. z \in Lasts /\ z # "PERIOD"
          BY <1>7, <3>1, <3>4 DEF IInv, Follows
        <4> QED
          BY <3>1, <3>2, <4>1, <4>2 DEF Follows, Places
      <3> QED
        BY <3>3, <3>4
    <2> QED
      BY <2>3, <2>6, <2>7, <2>8, <2>9, GroupWritten
  <1> QED
    BY <1>5, <1>6, <1>7, Zenon DEF OpenBrace, LBrace

\* A "}" closes the literal, the block and its last command, or the code.
LEMMA CloseBraceStep ==
    ASSUME IInv, CloseBrace
    PROVE  IInv'
  <1>1. PICK x, l, f : x = Lexeme(RBrace) /\ l = lexer /\ f = Here
    OBVIOUS
  <1>2. x.k = RBrace
    BY <1>1, LexemeFields
  <1>3. ModeDefault(l, x) = Emit(l, <<"BRACE_RIGHT">>)
    <2>1. x.k \in Plain \ {"["}
      BY <1>2, Zenon DEF Plain, RBrace
    <2>2. ModeDefault(l, x) = Emit(l, <<Token[x.k]>>)
      BY <2>1, DefaultRows
    <2> QED
      BY <1>2, <2>2, Tokens
  <1>4. Known(f, Argument, Tail(f.args)) /\ l.brace = BraceOf(f) /\ l.lit = LitOf(f)
    BY <1>1, Present DEF Known, At
  <1>5. CASE Form = "set" /\ Write(Lexeme(RBrace), <<"BRACE_RIGHT">>, Ungrouped, "inner")
    <2>1. PICK h : h = Fr(f.form, f.args, Front(f.groups))
      OBVIOUS
    <2>2. /\ Regroups(h) /\ OneMore(h, f, "set") /\ Holds(f, "set")
          /\ Ungrouped = Append(Front(author), h)
      BY <1>1, <1>5, <2>1, LessHere DEF GroupType
    <2>3. /\ BraceOf(h) = l.brace /\ LitOf(h) \in Nat
          /\ f.form = "script" => LitOf(h) = l.lit
          /\ f.form # "script" => l.lit = LitOf(h) + 1
      <3>1. f.form = h.form /\ f.args = h.args
        BY <1>1, <2>2 DEF Regroups
      <3>2. PICK k : k = "set"
        OBVIOUS
      <3> QED
        BY <1>4, <2>2, <3>1, <3>2, HeldCounts
    <2>4. \E j : Stands(j, h) /\ ScanOne(l, x) = Emit(j, <<"BRACE_RIGHT">>)
      <3>1. CASE Argument = "DEFAULT"
        <4>1. f.form = "script"
          BY <1>4, <3>1 DEF Known, HeadFits
        <4>2. Stands(l, h)
          BY <1>1, <2>2, <2>3, <4>1 DEF Regroups
        <4> QED
          BY <1>1, <1>3, <3>1, <4>2, Scanned
      <3>2. CASE Argument \in {"E", "P", "D", "M"}
        <4>1. f.form # "script"
          BY <1>4, <3>2 DEF Known, HeadFits
        <4>2. l.lit > 0 /\ LitOf(h) = l.lit - 1
          BY <2>3, <4>1
        <4>3. Stands(WithLit(l, l.lit - 1), h)
          BY <1>1, <2>2, <2>3, <4>2 DEF Regroups
        <4>4. ModeExpr(l, x) = Emit(WithLit(l, l.lit - 1), <<"BRACE_RIGHT">>)
          BY <1>2, <4>2, ExprRows
        <4> QED
          BY <1>1, <3>2, <4>3, <4>4, Scanned
      <3> QED
        BY <1>1, <2>2, <3>1, <3>2 DEF Holds, ExprTypes, Argument
    <2>5. PICK j : Stands(j, h) /\ ScanOne(lexer, x) = Emit(j, <<"BRACE_RIGHT">>)
      BY <1>1, <2>4
    <2>6. Write(x, <<"BRACE_RIGHT">>, Append(Front(author), h), "inner")
      BY <1>1, <1>5, <2>2, Zenon
    <2>7. Follows("inner", After(lexer.last, <<"BRACE_RIGHT">>), h)
      BY Afters, Outside
    <2> QED
      BY <2>2, <2>5, <2>6, <2>7, GroupWritten
  <1>6. CASE Form = "script" /\ Write(Lexeme(RBrace), <<"BRACE_RIGHT">>, author, "start")
    <2>1. ScanOne(lexer, x) = Emit(lexer, <<"BRACE_RIGHT">>)
      BY <1>1, <1>3, <1>6, AtStart, Scanned
    <2>2. Write(x, <<"BRACE_RIGHT">>, author, "start")
      BY <1>1, <1>6, Zenon
    <2>3. Follows("start", After(lexer.last, <<"BRACE_RIGHT">>), Here)
      BY Afters, Outside
    <2> QED
      BY <2>1, <2>2, <2>3, StaysWritten
  <1>7. CASE /\ Form = "plain" /\ Argument # "Z"
             /\ Write(Lexeme(RBrace), <<"END", "BRACE_RIGHT">>, Front(author), "start")
    <2>1. Here.form = "plain" /\ Here.groups = <<>>
      BY <1>7, OpenHere DEF Holding
    <2>2. PICK early : early = TRUE
      OBVIOUS
    <2>3. ScanOne(lexer, x) = EndAtBrace(lexer)
      BY <1>2, <1>7, <2>1, EndsCommand
    <2>4. ScanOne(lexer, x) = Emit(PopNextMode(lexer, early), <<"END", "BRACE_RIGHT">>)
      BY <2>2, <2>3, Zenon DEF EndAtBrace
    <2>5. Write(x, <<"END", "BRACE_RIGHT">>, Front(author), "start")
      BY <1>1, <1>7, Zenon
    <2>6. Follows("start", After(lexer.last, <<"END", "BRACE_RIGHT">>), Last(Front(author)))
      BY Afters, Outside
    <2>7. Here.form # "script"
      BY <2>1
    <2> QED
      BY <2>2, <2>4, <2>5, <2>6, <2>7, Closed
  <1>8. CASE /\ Form = "body"
             /\ IF Opened({"body"}) = 1
                THEN Write(Lexeme(RBrace), <<"END">>, Front(author), "start")
                ELSE Write(Lexeme(RBrace), <<"STRING">>, Ungrouped, "inner")
    <2>1. Argument = "Z"
      BY <1>8, BodyHere
    <2>2. /\ f.form = "plain" /\ Tail(f.args) = <<>> /\ l.brace \in Nat /\ l.brace # 0
          /\ l.brace = Opened({"body"})
      BY <1>1, <1>8, <2>1, BodyCount
    <2>3. ScanOne(l, x) = ModeBody(l, x)
      BY <1>1, <2>1, Scanned
    <2>4. CASE l.brace = 1
      <3>1. PICK early : early = FALSE
        OBVIOUS
      <3>2. ModeBody(l, x) = Emit(PopNextMode(l, FALSE), <<"END">>)
        BY <1>2, <2>4, BodyRows
      <3>3. ScanOne(lexer, x) = Emit(PopNextMode(lexer, early), <<"END">>)
        BY <1>1, <2>3, <3>1, <3>2, Zenon
      <3>4. Write(x, <<"END">>, Front(author), "start")
        BY <1>1, <1>8, <2>2, <2>4, Zenon
      <3>5. Follows("start", After(lexer.last, <<"END">>), Last(Front(author)))
        BY Afters, Outside
      <3>6. Here.form # "script" /\ Tail(Here.args) = <<>>
        BY <1>1, <2>2
      <3> QED
        BY <3>3, <3>4, <3>5, <3>6, Closed
    <2>5. CASE l.brace # 1
      <3>1. PICK h : h = Fr(f.form, f.args, Front(f.groups))
        OBVIOUS
      <3>2. /\ Regroups(h) /\ OneMore(h, f, "body")
            /\ Ungrouped = Append(Front(author), h)
        BY <1>1, <1>8, <3>1, LessHere DEF GroupType
      <3>3. LitOf(h) = l.lit /\ BraceOf(h) = l.brace - 1
        <4>1. f.form = h.form /\ f.args = h.args /\ Head(h.args) = "Z"
          BY <1>1, <2>1, <3>2 DEF Regroups, Argument
        <4>2. PICK k : k = "body"
          OBVIOUS
        <4>3. /\ BraceOf(h) \in Nat /\ LitOf(f) = LitOf(h)
              /\ BraceOf(f) = BraceOf(h) + 1
          BY <3>2, <4>1, <4>2, HeldCounts
        <4> QED
          BY <1>4, <4>3
      <3>4. PICK j : j = WithBrace(l, l.brace - 1)
        OBVIOUS
      <3>5. Stands(j, h)
        BY <1>1, <3>2, <3>3, <3>4 DEF Regroups
      <3>6. ScanOne(lexer, x) = Emit(j, <<"STRING">>)
        BY <1>1, <1>2, <2>3, <2>5, <3>4, BodyRows
      <3>7. Write(x, <<"STRING">>, Append(Front(author), h), "inner")
        BY <1>1, <1>8, <2>2, <2>5, <3>2, Zenon
      <3>8. Follows("inner", After(lexer.last, <<"STRING">>), h)
        <4>1. h.form = "plain" /\ After(lexer.last, <<"STRING">>) = "STRING"
          BY <1>1, <2>2, <3>2, Afters DEF Regroups
        <4> QED
          BY <4>1 DEF Follows, Places, Lasts
      <3> QED
        BY <3>2, <3>5, <3>6, <3>7, <3>8, GroupWritten
    <2> QED
      BY <2>4, <2>5
  <1> QED
    BY <1>5, <1>6, <1>7, <1>8, Zenon DEF CloseBrace, RBrace

\* A ";" ends a statement and leaves nothing of it, or is text.
LEMMA SemicolonStep ==
    ASSUME IInv, Semicolon
    PROVE  IInv'
  <1>1. PICK x, l, f : x = Lexeme(Stop) /\ l = lexer /\ f = Here
    OBVIOUS
  <1>2. x.k = Stop
    BY <1>1, LexemeFields
  <1>3. CASE Form = "script" /\ Write(Lexeme(Stop), <<"END">>, author, "start")
    <2>1. ModeDefault(l, x) = Emit(l, <<"END">>)
      <3>1. x.k \in Plain \ {"["}
        BY <1>2, Zenon DEF Plain, Stop
      <3>2. ModeDefault(l, x) = Emit(l, <<Token[x.k]>>)
        BY <3>1, DefaultRows
      <3> QED
        BY <1>2, <3>2, Tokens
    <2>2. ScanOne(lexer, x) = Emit(lexer, <<"END">>)
      BY <1>1, <1>3, <2>1, AtStart, Scanned
    <2>3. Write(x, <<"END">>, author, "start")
      BY <1>1, <1>3, Zenon
    <2>4. Follows("start", After(lexer.last, <<"END">>), Here)
      BY Afters, Outside
    <2> QED
      BY <2>2, <2>3, <2>4, StaysWritten
  <1>4. CASE Form = "plain" /\ Write(Lexeme(Stop), <<"END">>, Front(author), "start")
    <2>1. Here.form = "plain" /\ Here.groups = <<>> /\ Here.form # "script"
      BY <1>4, OpenHere DEF Holding
    <2>2. Write(x, <<"END">>, Front(author), "start")
      BY <1>1, <1>4, Zenon
    <2>3. Follows("start", After(lexer.last, <<"END">>), Last(Front(author)))
      BY Afters, Outside
    <2>4. CASE Argument = "Z"
      <3>1. l.brace = 0 /\ Tail(Here.args) = <<>>
        BY <1>1, <2>1, <2>4, BodyCount
      <3>2. PICK early : early = FALSE
        OBVIOUS
      <3>3. ModeBody(l, x) = Emit(PopNextMode(l, FALSE), <<"END">>)
        BY <1>2, <3>1, BodyRows
      <3>4. ScanOne(lexer, x) = Emit(PopNextMode(lexer, early), <<"END">>)
        <4>1. ScanOne(l, x) = ModeBody(l, x)
          BY <1>1, <2>4, Scanned
        <4> QED
          BY <1>1, <3>2, <3>3, <4>1, Zenon
      <3> QED
        BY <2>1, <2>2, <2>3, <3>1, <3>4, Closed
    <2>5. CASE Argument # "Z"
      <3>1. PICK early : early = TRUE
        OBVIOUS
      <3>2. ScanOne(lexer, x) = EndStatement(lexer)
        BY <1>2, <2>1, <2>5, EndsCommand
      <3>3. ScanOne(lexer, x) = Emit(PopNextMode(lexer, early), <<"END">>)
        BY <3>1, <3>2, Zenon DEF EndStatement
      <3> QED
        BY <2>1, <2>2, <2>3, <3>1, <3>3, Closed
    <2> QED
      BY <2>4, <2>5
  <1>5. CASE /\ Form = "body" \/ (Text /\ Argument # "R" /\ Form \in {"function", "code", "call"})
             /\ Write(Lexeme(Stop), <<"STRING">>, author, "inner")
    <2>1. \/ Form = "body" /\ Argument = "Z" /\ l.brace # 0
          \/ Argument \in {"S", "L"} /\ ~CmdPop(l)
      <3>1. CASE Form = "body"
        BY <1>1, <3>1, BodyHere, BodyCount
      <3>2. CASE Argument \in {"S", "L"} /\ Form \in {"function", "code", "call"}
        <4>1. f.form = Form
          BY <1>1, <3>2, OpenHere DEF Holding
        <4> QED
          BY <1>1, <3>2, <4>1, Present DEF Known, At
      <3> QED
        BY <1>5, <3>1, <3>2 DEF Text
    <2>2. ScanOne(l, x) = Emit(l, <<"STRING">>)
      <3>1. CASE Argument = "Z" /\ l.brace # 0
        BY <1>1, <1>2, <3>1, Scanned, BodyRows
      <3>2. CASE Argument = "L" /\ ~CmdPop(l)
        BY <1>1, <1>2, <3>2, Scanned, ListRows
      <3>3. CASE Argument = "S" /\ ~CmdPop(l)
        <4>1. PICK raw \in BOOLEAN : raw = (l.mode = "R")
          OBVIOUS
        <4>2. ScanOne(l, x) = ModeString(l, x)
          BY <1>1, <3>3, Scanned
        <4>3. ModeString(l, x) = StringRun(l, x, raw)
          <5>1. ModeString(l, x) = StringRun(l, x, l.mode = "R")
            BY <1>2, <3>3, StringRows, Zenon
          <5> QED
            BY <4>1, <5>1
        <4>4. StringRun(l, x, raw) = Emit(l, <<"STRING">>)
          <5>1. x.k \notin {"(", ")"}
            BY <1>2, Zenon DEF Stop
          <5> QED
            BY <5>1, RunRows
        <4> QED
          BY <4>2, <4>3, <4>4
      <3> QED
        BY <2>1, <3>1, <3>2, <3>3
    <2>3. Write(x, <<"STRING">>, author, "inner") /\ ScanOne(lexer, x) = Emit(lexer, <<"STRING">>)
      BY <1>1, <1>5, <2>2, Zenon
    <2>4. Follows("inner", After(lexer.last, <<"STRING">>), Here)
      <3>1. After(lexer.last, <<"STRING">>) = "STRING" /\ Argument # "R"
        BY <2>1, Afters
      <3> QED
        BY <3>1 DEF Follows, Places, Lasts, Argument
    <2> QED
      BY <2>3, <2>4, StaysWritten
  <1> QED
    BY <1>3, <1>4, <1>5, Zenon DEF Semicolon, Stop

-----------------------------------------------------------------------------
(* The theorems.                                                           *)

\* An empty script: the lexer is in its default mode, with nothing saved.
LEMMA Initially ==
    ASSUME Init
    PROVE  IInv
  <1>1. PICK a, f : a = author /\ f = Script
    OBVIOUS
  <1>2. a = <<f>>
    BY <1>1 DEF Init
  <1>3. f.form = "script" /\ f.args = <<"DEFAULT">> /\ f.groups = <<>>
    BY <1>1 DEF Script, Frame
  <1>4. f \in FrameType
    <2>1. f.args \in Seq(ArgType) /\ f.groups \in Seq(GroupType)
      BY <1>3 DEF ArgType
    <2> QED
      BY <1>1, <2>1 DEF FrameType, Script, Frame, Holding
  <1>5. Fit(f)
    BY <1>3 DEF Fit, ArgsFit
  <1>6. /\ a \in Seq(FrameType) /\ a # <<>> /\ Len(a) = 1 /\ a[1] = f /\ Last(a) = f
    BY <1>2, <1>4 DEF Last
  <1>7. Shaped(a)
    BY <1>3, <1>5, <1>6 DEF Shaped
  <1>8. PICK m, b, t, s, z, o : /\ m = "DEFAULT" /\ b = 0 /\ t = 0 /\ s = <<>>
                                /\ z = "OTHER" /\ o = <<>>
    OBVIOUS
  <1>9. /\ ModeOf(Head(f.args)) = m /\ BraceOf(f) = b /\ LitOf(f) = t /\ StatesOf(a) = s
    <2>1. Head(f.args) = "DEFAULT"
      BY <1>3
    <2>2. ModeOf("DEFAULT") = "DEFAULT"
      BY DEF ModeOf
    <2> QED
      BY <1>3, <1>6, <1>8, <2>1, <2>2, NoGroups, StatesEmpty
  <1>10. lexer = Rec(m, b, t, s, z, o)
    BY <1>8, Zenon DEF Init, Rec
  <1>11. Lex(a, z) = Rec(m, b, t, s, z, o)
    BY <1>6, <1>8, <1>9, Zenon DEF Lex
  <1>12. lexer.last = z
    <2>1. Rec(m, b, t, s, z, o).last = z
      BY RecFields
    <2> QED
      BY <1>10, <2>1, Zenon
  <1>13. lexer = Lex(author, lexer.last)
    BY <1>1, <1>10, <1>11, <1>12, Zenon
  <1>14. Follows(place, lexer.last, Here)
    <2>1. place = "start" /\ lexer.last = "OTHER"
      BY <1>8, <1>12 DEF Init
    <2> QED
      BY <2>1, Outside
  <1>15. ReadAsMeant
    BY DEF Init, ReadAsMeant
  <1> QED
    BY <1>1, <1>7, <1>13, <1>14, <1>15 DEF IInv

\* Each lexeme an author may write.
LEMMA Steps ==
    ASSUME IInv, [Next]_vars
    PROVE  IInv'
  <1>1. CASE Word \/ Operator \/ Period \/ Member \/ CommandOperand \/ Quoted
    BY <1>1, WordStep, OperatorStep, PeriodStep, MemberStep, CommandOperandStep, QuotedStep
  <1>2. CASE BeginCommand \/ BeginFunction \/ BeginCode \/ BeginDeclaration
    BY <1>2, BeginCommandStep, BeginFunctionStep, BeginCodeStep, BeginDeclarationStep
  <1>3. CASE OpenArguments \/ OpenOptional \/ CloseArguments
    BY <1>3, OpenArgumentsStep, OpenOptionalStep, CloseArgumentsStep
  <1>4. CASE OpenGroup \/ CloseGroup \/ OpenIndex \/ CloseIndex \/ OpenBrace \/ CloseBrace
    BY <1>4, OpenGroupStep, CloseGroupStep, OpenIndexStep, CloseIndexStep, OpenBraceStep,
       CloseBraceStep
  <1>5. CASE Comma \/ Semicolon
    BY <1>5, CommaStep, SemicolonStep
  <1>6. CASE UNCHANGED vars
    <2>1. lexer' = lexer /\ author' = author /\ place' = place /\ misread' = misread
      BY <1>6 DEF vars
    <2>2. Here' = Here
      BY <2>1 DEF Here
    <2>3. Shaped(author') /\ lexer' = Lex(author', lexer'.last)
          /\ Follows(place', lexer'.last, Here')
      BY <2>1, <2>2 DEF IInv
    <2> QED
      BY <2>1, <2>3 DEF IInv, ReadAsMeant
  <1> QED
    BY <1>1, <1>2, <1>3, <1>4, <1>5, <1>6 DEF Next

\* At every moment the lexer's mode, counts, last token and saved states are
\* those of what its author has open, and it has read every lexeme as meant.
THEOREM Invariant == Spec => []IInv
  BY Initially, Steps, PTL DEF Spec

\* The lexer's stacks, mode and counts follow the calls, codes, declarations,
\* indices and groupings open in the text, to any depth (lexer.py:155-173,
\* 202-212): no construct leaves a state behind or takes one that is another's.
THEOREM InStep == Spec => []ModesInStep
  <1>1. IInv => ModesInStep
    <2>1. SUFFICES ASSUME IInv PROVE ModesInStep
      OBVIOUS
    <2>2. PICK f, h, l : f = Here /\ h = Argument /\ l = lexer
      OBVIOUS
    <2>3. /\ l.mode = ModeOf(h) /\ l.brace = BraceOf(f) /\ l.lit = LitOf(f)
          /\ author \in Seq(FrameType) /\ author # <<>>
      BY <2>1, <2>2, Present, ShapedLast DEF Known, At
    <2>4. Here.form # "script" => lexer.lit = Opened({"set"})
      BY <2>2, <2>3 DEF LitOf, Opened
    <2>5. lexer.brace = IF Argument \in {"DEFAULT", "D", "M"} THEN 0
                        ELSE Opened({"group", "body"})
      BY <2>2, <2>3 DEF BraceOf, Opened, Argument
    <2>6. PICK s, a : s = StatesOf(author) /\ a = author
      OBVIOUS
    <2>7. lexer.states = s
      BY <2>1, <2>6, Present, RecFields DEF Lex
    <2>8. Len(s) = Len(a) - 1
      BY <2>3, <2>6, StatesType
    <2>9. \A i \in DOMAIN s : s[i].args = Tail(a[i + 1].args)
      <3>1. s = [i \in 1 .. Len(a) - 1 |-> StateOf(a[i + 1], a[i])]
        BY <2>6 DEF StatesOf
      <3>2. TAKE i \in DOMAIN s
      <3>3. s[i] = StateOf(a[i + 1], a[i])
        BY <3>1
      <3> QED
        BY <3>3, StateOfFields
    <2> QED
      BY <2>2, <2>3, <2>4, <2>5, <2>6, <2>7, <2>8, <2>9 DEF ModesInStep
  <1> QED
    BY <1>1, Invariant, PTL

\* Whatever the nesting, each lexeme becomes the tokens its author meant by it
\* (lexer.py:128, 166-173, 489-493, 566-571).
THEOREM AsMeant == Spec => []ReadAsMeant
  <1>1. IInv => ReadAsMeant
    BY DEF IInv
  <1> QED
    BY <1>1, Invariant, PTL
=============================================================================
