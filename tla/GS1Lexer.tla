------------------------------ MODULE GS1Lexer ------------------------------
(***************************************************************************)
(* The mode stack of the GS1 lexer (gs1/lexer.py).  GS1 cannot be tokenised *)
(* context-free: each command, function and message code pushes a string of *)
(* argument types, and the lexer changes mode from argument to argument, so *)
(* that "," is a separator, an element of a literal or text, and ")" closes *)
(* a grouping, a call or nothing, by the state on top of the stack.         *)
(*                                                                         *)
(* An author writes a script lexeme by lexeme, keeping the constructs that  *)
(* are open and the argument each is in; the lexer scans each lexeme.  The  *)
(* author's nesting is bounded, the length of the script is not.  A lexeme  *)
(* stands for its class: the words, numbers, operators and the text of a    *)
(* string are one lexeme each, and the empty IDENTIFIER, STRING and         *)
(* RAWMESSAGECODE tokens that mark the start of an argument are left out.   *)
(***************************************************************************)
EXTENDS Integers, Sequences, FiniteSets, SequencesExt

CONSTANTS Commands,   \* argument types of the commands (_tables.COMMANDS), as sequences
          CallForms,  \* those of them the author also writes as cmd(a,b)
          Functions,  \* argument types of the functions (_tables.FUNCTIONS)
          Codes,      \* argument types of the message codes; <<>> for a bare one
          MaxDepth    \* bound: constructs open at once

VARIABLES lexer,    \* Lexer: mode, brace_count, array_lit_depth, states, the last token
          author,   \* the constructs open in the text, the script itself first
          place,    \* what the author wrote last, as far as it restricts what comes next
          promise,  \* the first of "," and ")" that the author will write in a playersays call
          misread   \* the first lexeme the lexer did not read as it was meant

vars == <<lexer, author, place, promise, misread>>

-----------------------------------------------------------------------------
(* The argument strings of the tables.                                       *)

Special == {"B", "I", "C", "G", "U"}
CommandType == Special \cup {"E", "S", "V", "D", "M", "L", "R", "Z"}

\* Types that nothing can follow: their commas are text, or they take the rest
Final == {"P", "L", "R", "Z"}
FinalAtEnd(args) == \A i \in 1 .. Len(args) - 1 : args[i] \notin Final

\* "(...)", or "<...)" where the first argument may be left out
Inner == {"E", "S", "V", "P", "L"}
Parenthesised(args) ==
    LET n == Len(args)
    IN /\ args \in Seq(Inner \cup {"(", "<", ")"})
       /\ n > 2 /\ args[1] \in {"(", "<"} /\ args[n] = ")"
       /\ args[1] = "<" => n > 3
       /\ \A i \in 2 .. n - 1 : args[i] \in Inner /\ (args[i] \in Final => i = n - 1)

ASSUME GS1LexerAssumption ==
    /\ MaxDepth \in Nat \ {0}
    /\ \A args \in Commands : args \in Seq(CommandType) /\ FinalAtEnd(args)
    /\ CallForms \subseteq Commands
    /\ \A args \in CallForms : args # <<>> => args[Len(args)] \notin Special \cup {"M", "Z"}
    /\ \A args \in Functions : Parenthesised(args)
    /\ \A args \in Codes : args = <<>> \/ Parenthesised(args)

-----------------------------------------------------------------------------
(* The lexer.  A state keeps what push_command saves on mode_stack,          *)
(* brace_stack and array_lit_stack beside it.                                *)

Top(l) == Last(l.states)
FuncPop(l) == l.states # <<>> /\ Top(l).pop = "FUNCTION"
CmdPop(l) == l.states = <<>> \/ Top(l).pop = "COMMAND"
ArrayPop(l) == l.states # <<>> /\ Top(l).pop = "ARRAYINDEX"
CommaPop(l) == l.states = <<>> \/ Top(l).comma
InCall(l) == l.states # <<>> /\ Top(l).call

\* MODE_OF
ModeOf(c) == CASE c = "P" -> "E" [] c = "(" -> "P1" [] c = ")" -> "P2"
               [] c = "<" -> "P3" [] OTHER -> c

\* A state on its next argument: whether that one's commas end it, never after they did not
Following(st) ==
    LET last == Head(st.args) \in {"S", "R"} /\ Tail(st.args) \in {<<>>, <<")">>}
    IN [st EXCEPT !.args = Tail(@),
                  !.comma = @ /\ ~last /\ Head(st.args) # "P"]

\* pop_next_mode: on to the state's next argument, or out of the state
PopNextMode(l, early) ==
    IF l.states = <<>> THEN l
    ELSE IF early \/ Top(l).args = <<>>
    THEN [l EXCEPT !.mode = Top(l).mode, !.brace = Top(l).brace, !.lit = Top(l).lit,
                   !.states = Front(@)]
    ELSE [l EXCEPT !.mode = ModeOf(Head(Top(l).args)), !.states[Len(l.states)] = Following(@)]

\* Fault: a nested call counts the literals open around it as its own
PushShared(l, args, pop, code, call) ==
    PopNextMode([l EXCEPT !.states = Append(@, [args |-> args, pop |-> pop,
                                                comma |-> pop # "ARRAYINDEX",
                                                code |-> code, call |-> call, mode |-> l.mode,
                                                brace |-> l.brace, lit |-> l.lit]),
                          !.brace = 0], FALSE)

\* push_command and push_array_access
Push(l, args, pop, code, call) ==
    PopNextMode([l EXCEPT !.states = Append(@, [args |-> args, pop |-> pop,
                                                comma |-> pop # "ARRAYINDEX",
                                                code |-> code, call |-> call, mode |-> l.mode,
                                                brace |-> l.brace, lit |-> l.lit]),
                          !.brace = 0, !.lit = 0], FALSE)

PushIndex(l) == Push(l, <<"P">>, "ARRAYINDEX", FALSE, FALSE)

\* What _default_word and _string_mode tell apart of the last token
Seen(token) == IF token \in {"PERIOD", "STRING"} THEN token
               ELSE IF token \in {"PAREN_LEFT", "OP"} THEN "OP" ELSE "OTHER"

Emit(l, tokens) ==
    [l EXCEPT !.out = tokens,
              !.last = IF tokens = <<>> THEN @ ELSE Seen(Last(tokens))]

\* LexError: the script is lost
LexError(l) == [l EXCEPT !.mode = "ERROR", !.out = <<>>]

\* "}" where it ends a command that had no ";"
EndAtBrace(l) == Emit(PopNextMode(l, TRUE), <<"END", "BRACE_RIGHT">>)
EndStatement(l) == Emit(PopNextMode(l, TRUE), <<"END">>)

\* ")" of a call: that of a command written as a call is no token
EndCall(l) == Emit(PopNextMode(l, TRUE), IF InCall(l) THEN <<>> ELSE <<"PAREN_RIGHT">>)
NextArgument(l) == Emit(PopNextMode(l, FALSE), <<"COMMA">>)

\* _match_messagecode
MatchMessagecode(l, x) ==
    Emit(IF x.args = <<>> THEN l ELSE Push(l, x.args, "COMMAND", TRUE, FALSE), <<"CODE">>)

\* _expr_word: a function name is one only before "(" and not after "."
ExprWord(l, x) ==
    IF x.k = "function" /\ l.last # "PERIOD"
    THEN Emit(Push(l, x.args, "COMMAND", FALSE, FALSE), <<"FUNCTION">>)
    ELSE Emit(l, <<"WORD">>)

\* _default_word: also a command, unless it stands where an operand does
DefaultWord(l, x) ==
    CASE x.k = "command" /\ l.last \notin {"PERIOD", "OP"} ->
            Emit(Push(l, x.args, IF x.form = "call" THEN "FUNCTION" ELSE "COMMAND",
                      FALSE, x.form = "call"), <<"COMMAND">>)
      [] x.k = "declare" /\ l.last # "PERIOD" ->
            Emit(Push(l, <<"V", "(", "F">>, "COMMAND", FALSE, FALSE), <<"KEYWORD">>)
      [] OTHER -> ExprWord(l, x)

Token == [c \in {"(", ")", "[", "]", "{", "}", ",", ".", ";", "op", "quoted", "junk"} |->
            CASE c = "(" -> "PAREN_LEFT" [] c = ")" -> "PAREN_RIGHT" [] c = "[" -> "BRACKET_LEFT"
              [] c = "]" -> "BRACKET_RIGHT" [] c = "{" -> "BRACE_LEFT" [] c = "}" -> "BRACE_RIGHT"
              [] c = "," -> "COMMA" [] c = "." -> "PERIOD" [] c = ";" -> "END"
              [] c = "op" -> "OP" [] c = "quoted" -> "QUOTED" [] c = "junk" -> "WORD"]

\* The lexemes that are a word; the others are those of Token and a message code
Name == {"word", "builtin", "function", "command", "declare"}

\* _mode_DEFAULT
ModeDefault(l, x) ==
    CASE x.k = "code" -> MatchMessagecode(l, x)
      [] x.k = "[" -> Emit(PushIndex(l), <<"BRACKET_LEFT">>)
      [] x.k \in Name -> DefaultWord(l, x)
      [] OTHER -> Emit(l, <<Token[x.k]>>)

\* _expr_mode: modes E, D and M.  Only E counts its grouping parentheses,
\* and in M a ")" never ends a call.
ModeExpr(l, x) ==
    LET literal == l.lit > 0
        ends    == l.mode # "M" /\ ~literal /\ FuncPop(l) /\ l.brace = 0
        Track(n) == IF l.mode = "E" THEN [l EXCEPT !.brace = @ + n] ELSE l
    IN CASE x.k = "{" -> Emit([l EXCEPT !.lit = @ + 1], <<"BRACE_LEFT">>)
         [] x.k = "}" /\ literal -> Emit([l EXCEPT !.lit = @ - 1], <<"BRACE_RIGHT">>)
         [] x.k = "}" /\ ~literal /\ CmdPop(l) -> EndAtBrace(l)
         [] x.k = ";" /\ CmdPop(l) -> EndStatement(l)
         [] x.k = ")" /\ ends -> EndCall(l)
         [] x.k = ")" /\ ~ends -> Emit(Track(-1), <<"PAREN_RIGHT">>)
         [] x.k = "," /\ ~literal /\ CommaPop(l) -> NextArgument(l)
         [] x.k = "(" -> Emit(Track(1), <<"PAREN_LEFT">>)
         [] x.k = "]" -> Emit(IF ArrayPop(l) THEN PopNextMode(l, FALSE) ELSE l, <<"BRACKET_RIGHT">>)
         [] x.k = "[" -> Emit(PushIndex(l), <<"BRACKET_LEFT">>)
         [] x.k = "code" -> MatchMessagecode(l, x)
         [] x.k \in Name -> ExprWord(l, x)
         [] OTHER -> Emit(l, <<IF x.k = ";" THEN "WORD" ELSE Token[x.k]>>)

\* _mode_V: the target of an assignment, or the name in a declaration
ModeVariable(l, x) ==
    CASE x.k = "}" /\ CmdPop(l) -> EndAtBrace(l)
      [] x.k = "(" /\ l.states # <<>> /\ Top(l).args # <<>> /\ Head(Top(l).args) = "(" ->
            Emit(PopNextMode(PopNextMode(l, FALSE), FALSE), <<"PAREN_LEFT">>)
      [] x.k = ")" /\ FuncPop(l) -> EndCall(l)
      [] x.k = ";" /\ CmdPop(l) -> EndStatement(l)
      [] x.k = "," -> NextArgument(l)
      [] x.k = "code" -> MatchMessagecode(l, x)
      [] x.k = "[" -> Emit(PushIndex(l), <<"BRACKET_LEFT">>)
      [] x.k = "." -> Emit(l, <<"PERIOD">>)
      [] x.k \in Name -> Emit(l, <<"WORD">>)
      [] OTHER -> LexError(l)

\* _consume_string_run: a function's string argument balances its parentheses
StringRun(l, x, raw) ==
    LET balance == FuncPop(l) /\ ~raw /\ ~Top(l).code
    IN Emit(CASE balance /\ x.k = "(" -> [l EXCEPT !.brace = @ + 1]
              [] balance /\ x.k = ")" -> [l EXCEPT !.brace = @ - 1]
              [] OTHER -> l, <<"STRING">>)

\* _string_mode: S, and R without message codes.  A raw run stops at a quote only.
ModeString(l, x) ==
    LET raw == l.mode = "R"
    IN CASE InCall(l) /\ ~raw /\ x.k = "function" /\ l.last # "STRING" -> ExprWord(l, x)
         [] x.k = "}" /\ CmdPop(l) -> EndAtBrace(l)
         [] /\ x.k = ")" /\ FuncPop(l)
            /\ \/ l.brace = 0 /\ InCall(l) /\ (raw => l.last # "STRING")
               \/ ~raw /\ (l.brace = 0 \/ Top(l).code) -> EndCall(l)
         [] x.k = ";" /\ CmdPop(l) -> EndStatement(l)
         [] x.k = "," /\ CommaPop(l) -> NextArgument(l)
         [] x.k = "quoted" /\ InCall(l) -> Emit(l, <<"QUOTED">>)
         [] x.k = "code" /\ ~raw -> MatchMessagecode(l, x)
         [] OTHER -> StringRun(l, x, raw)

\* Fault: the list's ")" is passed on, as that of a function's call is
ModeListWrapper(l, x) ==
    CASE InCall(l) /\ x.k = "function" /\ l.last # "STRING" -> ExprWord(l, x)
      [] x.k = "}" /\ CmdPop(l) -> EndAtBrace(l)
      [] x.k = ")" /\ FuncPop(l) -> Emit(PopNextMode(l, TRUE), <<"PAREN_RIGHT">>)
      [] x.k = ";" /\ CmdPop(l) -> EndStatement(l)
      [] x.k = "," -> Emit(l, <<"COMMA">>)
      [] x.k = "quoted" /\ InCall(l) -> Emit(l, <<"QUOTED">>)
      [] x.k = "code" -> MatchMessagecode(l, x)
      [] OTHER -> Emit(l, <<"STRING">>)

\* _mode_L: a list of strings, whose commas end no argument
ModeList(l, x) ==
    CASE InCall(l) /\ x.k = "function" /\ l.last # "STRING" -> ExprWord(l, x)
      [] x.k = "}" /\ CmdPop(l) -> EndAtBrace(l)
      [] x.k = ")" /\ FuncPop(l) -> EndCall(l)
      [] x.k = ";" /\ CmdPop(l) -> EndStatement(l)
      [] x.k = "," -> Emit(l, <<"COMMA">>)
      [] x.k = "quoted" /\ InCall(l) -> Emit(l, <<"QUOTED">>)
      [] x.k = "code" -> MatchMessagecode(l, x)
      [] OTHER -> Emit(l, <<"STRING">>)

\* _special_mode: an item, colour, gender, carry or baddy name
ModeSpecial(l, x) ==
    CASE x.k = "}" /\ CmdPop(l) -> EndAtBrace(l)
      [] x.k = ")" /\ FuncPop(l) -> Emit(PopNextMode(l, TRUE), <<"PAREN_RIGHT">>)
      [] x.k = ";" /\ CmdPop(l) -> EndStatement(l)
      [] x.k = "," -> NextArgument(l)
      [] x.k \in Name -> Emit(l, <<"SPECIAL">>)
      [] OTHER -> LexError(l)

\* _mode_Z: the code of a putnpc2, whose own braces are no tokens
ModeBody(l, x) ==
    CASE x.k = "{" -> Emit([l EXCEPT !.brace = @ + 1],
                           IF l.brace = 0 THEN <<>> ELSE <<"STRING">>)
      [] x.k = ";" /\ l.brace = 0 -> Emit(PopNextMode(l, FALSE), <<"END">>)
      [] x.k = "}" /\ l.brace = 1 -> Emit(PopNextMode(l, FALSE), <<"END">>)
      [] x.k = "}" /\ l.brace # 1 -> Emit([l EXCEPT !.brace = @ - 1], <<"STRING">>)
      [] OTHER -> Emit(l, <<"STRING">>)

OpenCall(l) == PopNextMode([l EXCEPT !.states[Len(l.states)].pop = "FUNCTION"], FALSE)

\* _mode_P1 and _mode_P3: "(" of a call.  check_if_next_mode_optional skips
\* the optional first argument if ")" comes before ",".
ModeOpen(l, x) ==
    IF x.k # "(" THEN LexError(l)
    ELSE Emit(IF l.mode = "P3" /\ x.next = ")" THEN PopNextMode(OpenCall(l), FALSE)
              ELSE OpenCall(l), <<"PAREN_LEFT">>)

\* _mode_P2: nothing but ")" may follow the last argument
ModeClose(l, x) == IF x.k = ")" THEN Emit(PopNextMode(l, FALSE), <<"PAREN_RIGHT">>) ELSE LexError(l)

\* _mode_F: the parameters of a function declaration
ModeParameters(l, x) ==
    CASE x.k = ")" -> Emit(PopNextMode(l, TRUE), <<"PAREN_RIGHT">>)
      [] x.k \in {",", "."} -> Emit(l, <<Token[x.k]>>)
      [] x.k \in Name -> Emit(l, <<"WORD">>)
      [] OTHER -> LexError(l)

\* scan_one
ScanOne(l, x) ==
    CASE l.mode = "DEFAULT" -> ModeDefault(l, x)
      [] l.mode \in {"E", "D", "M"} -> ModeExpr(l, x)
      [] l.mode = "V" -> ModeVariable(l, x)
      [] l.mode \in {"S", "R"} -> ModeString(l, x)
      [] l.mode = "L" -> ModeList(l, x)
      [] l.mode \in Special -> ModeSpecial(l, x)
      [] l.mode = "Z" -> ModeBody(l, x)
      [] l.mode \in {"P1", "P3"} -> ModeOpen(l, x)
      [] l.mode = "P2" -> ModeClose(l, x)
      [] l.mode = "F" -> ModeParameters(l, x)
      [] l.mode = "ERROR" -> LexError(l)

-----------------------------------------------------------------------------
(* The author.  A construct of the text is a command (plain or call), a      *)
(* function call, a message code with arguments, a function declaration or   *)
(* an index, each with the arguments left, the current one first, and with   *)
(* what is open in that one: groupings, {...} literals and the braces of     *)
(* putnpc2's code, the last one innermost.                                   *)

Frame(form, args) == [form |-> form, args |-> args, groups |-> <<>>]
Script == Frame("script", <<"DEFAULT">>)

Here == Last(author)
Argument == Head(Here.args)
Form == IF Here.groups = <<>> THEN Here.form ELSE Last(Here.groups)
Holding == {"plain", "call", "function", "code", "declare", "index"}

\* How many of some kinds are open in the current argument of a construct
Count(f, kinds) == Cardinality({i \in DOMAIN f.groups : f.groups[i] \in kinds})
Opened(kinds) == Count(Here, kinds)

Expression == Argument \in {"DEFAULT", "E", "P", "D", "M"}
Text == Argument \in {"S", "R", "L"}
\* The direction of a command written as a call holds no parentheses: the first
\* ")" would be taken for the call's
Grouping == Expression /\ (Argument = "D" => Here.form = "plain")
CallText == Argument \in {"S", "L"} /\ Here.form = "call"

Lexeme(k) == [k |-> k, args |-> <<>>, form |-> "", next |-> ""]

Write(x, meant, open, next) ==
    LET l == ScanOne(lexer, x)
    IN /\ lexer' = [l EXCEPT !.out = <<>>]
       /\ misread' = IF misread = "" /\ (l.out # meant \/ l.mode = "ERROR") THEN x.k
                     ELSE misread
       /\ author' = open
       /\ place' = next
       /\ promise' = IF x.k \in {",", ")"} THEN "" ELSE IF x.next # "" THEN x.next ELSE promise

Depth == FoldSeq(LAMBDA f, n : n + 1 + Len(f.groups), -1, author)
Deeper == Depth < MaxDepth
MayOpen == Deeper /\ promise # "," /\ place # "called"
\* A call with commas of its own is not written before a promised ")"
Simple(args) == promise = ")" => Len(args) = 3
Advanced(args) == [author EXCEPT ![Len(author)].args = args]
Grouped(kind) == [author EXCEPT ![Len(author)].groups = Append(@, kind)]
Ungrouped == [author EXCEPT ![Len(author)].groups = Front(@)]

Init ==
    /\ lexer = [mode |-> "DEFAULT", brace |-> 0, lit |-> 0, states |-> <<>>,
                last |-> "OTHER", out |-> <<>>]
    /\ author = <<Script>>
    /\ place = "start"
    /\ promise = ""
    /\ misread = ""

\* A name, a number or a run of text; or the name of a function that is not called
Word ==
    \E k \in {"word", "builtin"} :
        /\ Expression \/ Text \/ Argument \in Special \cup {"V", "F"} \/ Form = "body"
        /\ ~(Argument = "R" /\ Here.form = "call")  \* quoted, see Quoted
        /\ place # "called"
        /\ Write(Lexeme(k),
                 <<IF Text \/ Form = "body" THEN "STRING"
                   ELSE IF Argument \in Special THEN "SPECIAL" ELSE "WORD">>,
                 author, IF k = "builtin" THEN "bare" ELSE "inner")

\* An operator, or a character that belongs to no token
Operator ==
    \E k \in {"op", "junk"} :
        /\ Expression /\ place \notin {"called", "start"}
        /\ Write(Lexeme(k), <<Token[k]>>, author, IF k = "op" THEN "operand" ELSE "inner")

Period ==
    /\ (Expression \/ Argument = "V") /\ place = "inner"
    /\ Write(Lexeme("."), <<"PERIOD">>, author, "dot")

\* A member that shares its name with a command or a function, called or not
Member ==
    /\ place = "dot"
    /\ \/ \E args \in Commands :
             Write([Lexeme("command") EXCEPT !.args = args], <<"WORD">>, author, "inner")
       \/ \E args \in Functions :
             /\ Grouping /\ Deeper /\ promise # ","
             /\ Write([Lexeme("function") EXCEPT !.args = args], <<"WORD">>, author, "called")

\* A flag that shares its name with a command: `if (replaceani) {`
CommandOperand ==
    \E args \in Commands :
        /\ Expression /\ (Argument = "DEFAULT" => place = "operand") /\ place # "called"
        /\ Write([Lexeme("command") EXCEPT !.args = args], <<"WORD">>, author, "inner")

\* A string literal; the text of a raw argument in a call is always one
Quoted ==
    /\ Expression \/ (Text /\ Here.form = "call")
    /\ place \notin {"called", "dot"}
    /\ Write(Lexeme("quoted"), <<"QUOTED">>, author, "inner")

\* A command at the start of a statement, plain, as a call, or with empty parentheses
BeginCommand ==
    \E args \in Commands, form \in {"plain", "call", "empty"} :
        /\ Form = "script" /\ place = "start"
        /\ form = "call" => args \in CallForms
        /\ Write([Lexeme("command") EXCEPT !.args = args, !.form = form], <<"COMMAND">>,
                 IF args = <<>> THEN author
                 ELSE Append(author, Frame(IF form = "call" THEN "call" ELSE "plain", args)),
                 IF args = <<>> THEN "inner" ELSE "fresh")

\* A function's name before its "("
BeginFunction ==
    \E args \in Functions :
        /\ MayOpen /\ Simple(args) /\ place # "dot"
        /\ Expression \/ (CallText /\ place = "fresh")
        /\ Write([Lexeme("function") EXCEPT !.args = args], <<"FUNCTION">>,
                 Append(author, Frame("function", args)), "inner")

\* A message code, with arguments or without
BeginCode ==
    \E args \in Codes :
        /\ Expression \/ Argument \in {"S", "L", "V"}
        /\ place # "called"
        /\ args # <<>> => MayOpen /\ Simple(args)
        /\ Write([Lexeme("code") EXCEPT !.args = args], <<"CODE">>,
                 IF args = <<>> THEN author ELSE Append(author, Frame("code", args)), "bare")

BeginDeclaration ==
    /\ Form = "script" /\ place = "start"
    /\ Write(Lexeme("declare"), <<"KEYWORD">>,
             Append(author, Frame("declare", <<"V", "(", "F">>)), "inner")

\* "(" of a call or a declaration
OpenArguments ==
    \/ /\ Argument = "("
       /\ Write(Lexeme("("), <<"PAREN_LEFT">>, Advanced(Tail(Here.args)), "fresh")
    \/ /\ Form = "declare" /\ Argument = "V" /\ place = "inner"
       /\ Write(Lexeme("("), <<"PAREN_LEFT">>, Advanced(<<"F">>), "fresh")

\* "(" of a playersays call.  Its optional first argument is written or not,
\* which settles whether a "," or the ")" comes first in the text.
OpenOptional ==
    /\ Argument = "<" /\ promise = ""
    /\ \E next \in {",", ")"} :
           Write([Lexeme("(") EXCEPT !.next = next], <<"PAREN_LEFT">>,
                 Advanced(IF next = "," THEN Tail(Here.args)
                          ELSE Tail(Tail(Here.args))), "fresh")

\* ")" of a call, a message code or a declaration
CloseArguments ==
    /\ promise # "," /\ place \notin {"called", "dot"}
    /\ \/ /\ Form \in {"function", "code"} /\ Len(Here.args) = 2
          /\ Argument \notin {"(", "<", ")"} /\ Last(Here.args) = ")"
          /\ Write(Lexeme(")"), <<"PAREN_RIGHT">>, Front(author), "inner")
       \/ /\ Form = "declare" /\ Argument = "F"
          /\ Write(Lexeme(")"), <<"PAREN_RIGHT">>, Front(author), "inner")
       \/ /\ Form = "call" /\ Len(Here.args) = 1
          /\ Write(Lexeme(")"), <<>>, Front(author), "inner")

\* A grouping, or a parenthesis of a string that a call's argument balances; not
\* in the string of a message code, which ends at its first ")"
OpenGroup ==
    /\ MayOpen \/ (place = "called" /\ Deeper)
    /\ place \notin {"bare", "dot"}
    /\ \/ Grouping
       \/ Argument = "S" /\ Here.form \in {"function", "call"}
    /\ Write(Lexeme("("), <<IF Expression THEN "PAREN_LEFT" ELSE "STRING">>,
             Grouped("group"), IF Expression THEN "operand" ELSE "inner")

CloseGroup ==
    /\ Form = "group" /\ place \notin {"called", "dot"} /\ promise # ","
    /\ Write(Lexeme(")"), <<IF Expression THEN "PAREN_RIGHT" ELSE "STRING">>, Ungrouped,
             IF Ungrouped = <<Script>> THEN "start" ELSE "inner")

OpenIndex ==
    /\ MayOpen /\ (Expression \/ Argument = "V") /\ place = "inner"
    /\ Write(Lexeme("["), <<"BRACKET_LEFT">>, Append(author, Frame("index", <<"P">>)), "fresh")

CloseIndex ==
    /\ Form = "index" /\ place \notin {"called", "dot"}
    /\ Write(Lexeme("]"), <<"BRACKET_RIGHT">>, Front(author), "inner")

\* A {...} literal; at the start of a statement the braces are a block's
OpenBrace ==
    \/ /\ MayOpen /\ Expression /\ place \in {"fresh", "operand"}
       /\ Write(Lexeme("{"), <<"BRACE_LEFT">>, Grouped("set"), "fresh")
    \/ /\ Form = "script" /\ place = "start"
       /\ Write(Lexeme("{"), <<"BRACE_LEFT">>, author, "start")
    \/ /\ Argument = "Z" /\ Deeper /\ (Form = "body" \/ place = "fresh")
       /\ Write(Lexeme("{"), IF Form = "body" THEN <<"STRING">> ELSE <<>>,
                Grouped("body"), "inner")

\* "}" of a literal, of a block, of a block whose last command it also ends,
\* or of putnpc2's code, whose last one ends the command
CloseBrace ==
    \/ /\ Form = "set" /\ place \notin {"called", "dot"}
       /\ Write(Lexeme("}"), <<"BRACE_RIGHT">>, Ungrouped, "inner")
    \/ /\ Form = "script" /\ place = "start"
       /\ Write(Lexeme("}"), <<"BRACE_RIGHT">>, author, "start")
    \/ /\ Form = "plain" /\ Argument # "Z" /\ place \notin {"called", "dot"}
       /\ Write(Lexeme("}"), <<"END", "BRACE_RIGHT">>, Front(author), "start")
    \/ /\ Form = "body"
       /\ IF Opened({"body"}) = 1
          THEN Write(Lexeme("}"), <<"END">>, Front(author), "start")
          ELSE Write(Lexeme("}"), <<"STRING">>, Ungrouped, "inner")

\* "," that ends an argument; that separates elements, values or parameters; in text
Comma ==
    /\ promise # ")" /\ place \notin {"called", "dot"}
    /\ \/ /\ Form \in Holding /\ Argument \notin {"(", "<", "L", "P", "F"}
          /\ Len(Here.args) > 1 /\ Here.args[2] \notin {"(", ")"}
          /\ Write(Lexeme(","), <<"COMMA">>, Advanced(Tail(Here.args)), "fresh")
       \/ /\ Form = "set" \/ (Form \in Holding /\ Argument \in {"P", "L", "F"})
          /\ Write(Lexeme(","), <<"COMMA">>, author, "fresh")
       \/ /\ Form \in {"plain", "function", "code"} \/ (Form = "call" /\ Argument = "S")
          /\ Argument \in {"S", "R"} /\ Here.args \in {<<Argument>>, <<Argument, ")">>}
          /\ Write(Lexeme(","), <<"STRING">>, author, "inner")

\* ";" that ends a statement, or in the text of a call or of putnpc2's code
Semicolon ==
    /\ place \notin {"called", "dot"} /\ promise = ""
    /\ \/ /\ Form \in {"script", "plain"}
          /\ Write(Lexeme(";"), <<"END">>,
                   IF Form = "plain" THEN Front(author) ELSE author, "start")
       \/ /\ Form = "body" \/ (Text /\ Argument # "R" /\ Form \in {"function", "code", "call"})
          /\ Write(Lexeme(";"), <<"STRING">>, author, "inner")

Next ==
    \/ Word \/ Operator \/ Period \/ Member \/ CommandOperand \/ Quoted
    \/ BeginCommand \/ BeginFunction \/ BeginCode \/ BeginDeclaration
    \/ OpenArguments \/ OpenOptional \/ CloseArguments
    \/ OpenGroup \/ CloseGroup \/ OpenIndex \/ CloseIndex \/ OpenBrace \/ CloseBrace
    \/ Comma \/ Semicolon

Spec == Init /\ [][Next]_vars

-----------------------------------------------------------------------------
\* The lexer is where the author is: it holds one state for each call, code,
\* declaration and index that is open, with the arguments the author has left,
\* in the mode of the current one, and counts the parentheses and literals
\* open in that argument and no others (lexer.py:155-173, 202-212); so between
\* statements its stacks are empty, whatever the statement was.
ModesInStep ==
    /\ Len(lexer.states) = Len(author) - 1
    /\ \A i \in DOMAIN lexer.states : lexer.states[i].args = Tail(author[i + 1].args)
    /\ lexer.mode = ModeOf(Argument)
    /\ Here.form # "script" => lexer.lit = Opened({"set"})
    /\ lexer.brace = IF Argument \in {"DEFAULT", "D", "M"} THEN 0 ELSE Opened({"group", "body"})

\* Every lexeme becomes the tokens its author meant: a comma is a separator or
\* text, a parenthesis a token, text or the wrapper of a call, which is "syntax, not
\* argument text/tokens", a name a command, a call or a variable (lexer.py:128,
\* 166-173, 489-493, 566-571).
ReadAsMeant == misread = ""
=============================================================================
