------------------------------ MODULE MCConsole ------------------------------
(* Conversions of every kind, cut off anywhere, and lines that fill rows and *)
(* the screen.                                                               *)
EXTENDS Console

MCBits == [char |-> 3, short |-> 5, long |-> 8, longlong |-> 10]

Call(format, args) == [format |-> format, args |-> args, buffer |-> <<>>]
Integer(n) == [num |-> n, str |-> <<>>]
Text(s) == [num |-> 0, str |-> s]

Percent(spec) == <<"%">> \o spec

MCFlags == {<<>>, <<"0">>, <<"-">>, <<"+">>, <<" ">>, <<"#">>, <<"#", "0">>, <<"-", "0", "+">>}
MCWidths == {<<>>, <<"3">>, <<"1", "0">>}
MCPrecisions == {<<>>, <<".">>, <<".", "1">>, <<".", "4">>}
MCNumbers == {0, 7, 60, -3, -128, -512}

Numbers ==
    {<<Call(before \o Percent(flags \o width \o precision \o <<letter>>), <<Integer(n)>>)>> :
        before \in {<<>>, <<"a", "a">>}, flags \in MCFlags, width \in MCWidths,
        precision \in MCPrecisions, letter \in {"d", "u", "o", "x", "X", "p"}, n \in MCNumbers}

Lengths ==
    {<<Call(Percent(flags \o length \o <<letter>>), <<Integer(n)>>)>> :
        flags \in {<<>>, <<"#", ".", "1">>}, length \in {<<"h">>, <<"h", "h">>, <<"l">>, <<"l", "l">>},
        letter \in {"i", "u", "o", "x", "X"}, n \in MCNumbers}

\* Arguments for the width and the precision, several conversions, %c, %s, %n.
Others ==
    {<<Call(Percent(<<"*", ".", "*", "d", "b">>), <<Integer(w), Integer(p), Integer(5)>>)>> :
        w \in {0, 3, -3}, p \in {1, 2, -1}}
    \cup {<<Call(before \o Percent(flags \o width \o text.letter) \o after, <<Text(text.str), Integer(6)>>)>> :
        before \in {<<>>, <<"%", "%">>, <<"a", "a", "a", "a">>}, flags \in {<<>>, <<"-">>},
        width \in {<<>>, <<"2">>, <<"4">>, <<"9">>}, after \in {<<>>, <<"b">>, <<"%", "d">>},
        text \in {[letter |-> <<"c">>, str |-> <<"x">>], [letter |-> <<"s">>, str |-> <<"y">>],
                  [letter |-> <<"s">>, str |-> <<"x", "y">>], [letter |-> <<"s">>, str |-> <<>>]}}
    \cup {<<Call(<<"a", "%", "n", "%", "q", "%", "d">>, <<Integer(0), Integer(5)>>)>>}

Conversions == Numbers \cup Lengths \cup Others

MCLines ==
    {<<>>, <<"a">>, <<"b", "b", "b">>, <<"c", "c", "c", "c">>, <<"d", Backspace, "e">>,
     <<Backspace, "f", "f", Return, "g">>, <<"h", "h", "h", Backspace, "h", "h">>}

Lines == [1 .. 3 -> {Call(text, <<>>) : text \in MCLines}]

MCScripts == Conversions \cup Lines
==============================================================================
