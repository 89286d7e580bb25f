--------------------------- MODULE MCPropStream ---------------------------
(* PropStream with each wire form and the values at its edges.             *)
EXTENDS PropStream, TLC

P(id, value) == [id |-> id, value |-> value]

Name == <<65, 46>>

MCPlayer ==
    {P(0, Name), P(0, <<>>), P(2, <<0>>), P(2, <<223>>), P(2, <<234>>),
     P(3, <<3682399>>), P(3, <<16384>>), P(14, <<28544>>),
     P(30, <<15, 268435455>>), P(8, <<7>>), P(8, <<2, Name>>), P(8, <<2, <<>>>>),
     P(8, <<200, Name>>), P(11, <<"preset", -1>>), P(23, <<>>), P(23, <<250, -1>>),
     P(11, <<"preset", 5>>), P(11, <<"preset", 300>>), P(11, <<"name", Name>>),
     P(15, <<-16>>), P(15, <<-40>>), P(15, <<215>>), P(15, <<-33>>),
     P(15, <<-22>>), P(23, <<1, 2, 3, 4, 5>>), P(23, <<0, 7>>),
     P(36, <<4095, 511>>), P(42, <<1, 128>>), P(45, <<-50>>), P(45, <<200>>),
     P(50, <<1>>), P(51, None), P(78, <<-14383>>), P(78, <<14383>>),
     P(78, <<40>>), P(90, None)}

\* COLORS: the writer cuts or fills the list to its own width.
MCColors == {P(13, [i \in 1 .. 6 |-> 10 + i]), P(13, <<-1, 300>>)}

MCNpc ==
    {P(1, <<>>), P(1, Name), P(16, <<1, 2>>), P(16, <<1>>),
     P(34, <<28767, 0, 223, 1>>), P(22, <<"name", <<>>>>), P(77, <<-1>>)}

MCBaddy == {P(0, <<1>>), P(1, <<9>>), P(1, <<234>>), P(4, <<2, Name>>),
           P(4, <<300, <<>>>>),
           P(8, Name)}

MCProp == [player |-> MCPlayer \cup MCColors, npc |-> MCNpc, baddy |-> MCBaddy]

\* A property 1 (LONGSTRING for NPCs) whose length is below the offset.
MCJunk == {<<33, 32, 29>>}

Policy(colorsLen, max, flags, exempt, empty) ==
    [colors_len |-> colorsLen, max_prop_id |-> max,
     check_alignment |-> "align" \in flags,
     require_ascending |-> "ascend" \in flags,
     require_full_consume |-> "consume" \in flags,
     ascending_exempt |-> exempt, handle_empty |-> empty]
MCPolicies == {Policy(5, 120, {"align", "ascend", "consume"}, {50}, {0}),
               Policy(8, 120, {"align"}, {}, {}),
               Policy(5, 83, {"consume"}, {}, {})}
=============================================================================
