----------------------------- MODULE MCGS1Lexer -----------------------------
(* The GS1 lexer on one command, function and message code of each kind.     *)
EXTENDS GS1Lexer

\* blockagain, message, setarray, showani's tail, triggeraction's tail,
\* putnpc2's tail, setcharprop, sendpm and lay2's head
MCCommands == {<<>>, <<"S">>, <<"V", "E">>, <<"E", "D", "S">>, <<"E", "L">>,
               <<"E", "Z">>, <<"M", "S">>, <<"R">>, <<"I", "E">>}

\* All but putnpc2's
MCCallForms == MCCommands \ {<<"E", "Z">>}

\* abs, startswith, playersays and sarraylen
MCFunctions == {<<"(", "P", ")">>, <<"(", "S", "S", ")">>, <<"<", "E", "S", ")">>,
                <<"(", "V", ")">>}

\* #c, #v, #T, #I and #R
MCCodes == {<<>>, <<"(", "E", ")">>, <<"(", "S", ")">>, <<"(", "V", "P", ")">>, <<"(", "L", ")">>}
=============================================================================
