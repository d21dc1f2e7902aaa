------------------------------ MODULE MCFilter ------------------------------
(* Up to two lists of short lines over two letters, in every syntax the    *)
(* parser tells apart, and names of up to three labels.                    *)
EXTENDS Filter

a == 97
b == 98
Unspecified == <<48, Dot, 48, Dot, 48, Dot, 48>>    \* 0.0.0.0
Any6 == <<58, 58>>                                  \* ::
Other6 == <<58, 58, 50>>                            \* ::2
Localhost == <<108, 111, 99, 97, 108>>              \* local

MCSinkIp == {Unspecified, Any6}
MCOtherIp == {Other6}
MCLocalName == {Localhost}

Plain ==
    {<<a, Dot, b>>, <<At, At, a, Dot, b>>, <<a, Dot, b, Caret>>, <<65, Dot, b, Dot>>,
     <<At, At, b, Caret>>, <<a, a, Dot, b>>}

Subtree ==
    {<<Pipe, Pipe, b, Caret>>, <<Pipe, Pipe, a, Dot, b, Caret>>, <<Pipe, Pipe, b>>,
     <<At, At, Pipe, Pipe, a, Dot, b, Caret>>, <<At, At, Pipe, Pipe, a, b, Caret>>}

Wildcard ==
    {<<a, Star, b>>, <<Star, Dot, b>>, <<At, At, a, Star, Dot, b>>, <<a, Dot, Star>>,
     <<Star, b, Dot, b>>, <<Pipe, Pipe, a, Star, b, Dot, b>>, <<At, At, Star, a, Star, a, b>>,
     <<Pipe, Pipe, a, Star, Caret>>}

Hosts ==
    {Unspecified \o <<Space, a, Dot, b>>, Any6 \o <<Space, b, Space, Hyphen, Space, a, Space, Hash, b>>,
     Any6 \o <<Space>> \o Localhost, Other6 \o <<Percent, a, Space, b>>,
     Other6 \o <<Space, Hash, b>>}

Odd ==
    {<<Space>>, <<Bang, a>>, <<Hash, Hash, Space, a>>, <<Hash, Hash, a>>, <<a, Hash, At, Hash, b>>,
     <<91, a, 93>>, <<a, Dollar, b>>, <<Slash, a, Slash>>, <<Pipe, a>>, <<a, Caret, b>>,
     <<a, Dot, Dot, b>>, <<Star, Dot>>, <<a, Hyphen, Dot, Star>>, <<a, a, a, a, a, a, a, a, a>>}

\* Every short pattern with a star, each in a list of its own.
Pattern == {p \in UNION {[1 .. n -> {a, b, Dot, Star}] : n \in 2 .. 3} : Contains(p, Star)}

MCList ==
    {<<p>> : p \in Pattern} \cup
    {<<line>> : line \in Plain \cup Subtree \cup Wildcard \cup Hosts \cup Odd}
    \cup {<<line, <<Space, a, Dot, b>>, <<a, Star>> >> : line \in Subtree \cup Odd}

Label == {<<a>>, <<b>>, <<a, b>>}
MCQueryName ==
    LET two == {x \o <<Dot>> \o y : x \in Label \cup {<<a, a>>}, y \in Label}
    IN  Label \cup two \cup {<<a, Dot>> \o n : n \in two}
        \cup {<<65, Dot, b, Dot>>, <<Dot>>, <<a, a, a, a, a, a, Dot, b, Dot, b>>, <<Star, Dot, a, Dot, b>>}
=============================================================================
