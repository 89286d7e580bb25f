----------------------------- MODULE MCGS1Sleep -----------------------------
(* GS1Sleep with six short scripts.                                        *)
EXTENDS GS1Sleep, TLC

Leaf(op)            == [op |-> op, arg |-> 0, end |-> 0]
Block(op, arg, end) == [op |-> op, arg |-> arg, end |-> end]
End                 == Leaf("end")

\* The timer is set before a sleep inside nested blocks; a return leaves a
\* with block inside a function; a loop sleeps, and another one breaks.
MCLooping ==
    [timer |-> <<Leaf("timeout"), Block("with", 1, 6), Block("with", 2, 5),
                 Leaf("sleep"), End, End>>,
     called |-> <<Block("call", 7, 7), Block("with", 3, 5), Leaf("sleep"),
                  Leaf("return"), End, Leaf("act"), End>>,
     waiting |-> <<Block("while", 2, 6), Block("with", 4, 5), Leaf("act"),
                   Leaf("sleep"), End, End>>,
     broken |-> <<Block("while", 1, 5), Block("call", 8, 4), Leaf("break"), End, End,
                  Leaf("timeout")>>]

\* Straight-line scripts, none of which sets the timer.
MCStraight == [plain |-> <<Leaf("act"), Leaf("act"), Leaf("act"), Leaf("act")>>,
               scoped |-> <<Block("with", 1, 6), Leaf("act"), Leaf("sleep"),
                            Block("call", 7, 5), End, End, Leaf("act")>>]

MCProgram == MCLooping @@ MCStraight
MCScript  == DOMAIN MCProgram

\* Any script without a budget, straight-line ones with a budget of two.
MCScriptsFor == (0 :> DOMAIN MCLooping) @@ (2 :> DOMAIN MCStraight)
MCUnbounded  == 0 :> DOMAIN MCLooping
=============================================================================
