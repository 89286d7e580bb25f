-------------------------- MODULE MCPacketFields --------------------------
(* PacketFields with the values around each boundary of the encodings.     *)
EXTENDS PacketFields

Of(kind, values) == {[kind |-> kind, value |-> v] : v \in values}

MCField ==
    Of("byte", {0, 10, 31, 255, 256})
    \cup Of("gchar", {-1, 0, 128, 223, 224, 234})
    \cup Of("gshort", {0, 127, 128, 28543, 28544, 28767, 28768})
    \cup Of("gint3", {16383, 16384, 32767, 3653631, 3682272, 3682400})
    \cup Of("gint4", {2097151, 2097152, 467664895, 471347295, 471347296})
    \cup Of("gint5", {[high |-> h, low |-> l] :
                         h \in {-1, 0, 15, 16}, l \in {0, 2097151, 268435455}})
    \cup Of("position2", {-28766, -3, -1, 0, 3, 28766})
    \cup Of("string", {<<>>, <<32, 10>>})
    \cup Of("gstring", {<<>>, <<65>>, [i \in 1 .. 225 |-> 66]})
    \cup Of("gstring_short", {<<>>, <<66, 67>>})

MCLoopKind == (Kind \ {"string"}) \cup {"skip"}
=============================================================================
