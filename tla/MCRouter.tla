-------------------------------- MODULE MCRouter --------------------------------
EXTENDS Router

R(path, methods) ==
    [path |-> path, methods |-> methods, needs |-> {}, numbers |-> {}, handled |-> TRUE]

\* The shape of main.cpp's POST routes: a text and a number are needed.
Connect == [R(<<"/", "a">>, {"POST"}) EXCEPT !.needs = {"b", "f"}, !.numbers = {"f"}]

MCRoutes ==
    {R(<<"/">>, {"GET"}), R(<<"/", "a">>, {"GET"}), Connect,
     R(<<"/", "a", "/">>, {"GET"}),
     R(<<"/", "a", "/", "<string>">>, {"GET", "POST"}),
     R(<<"/", "a", "/", "<path>">>, {"GET"}),
     R(<<"/", "<string>">>, {"GET"}), R(<<"/", "<string>", "/">>, {"POST", "OPTIONS"}),
     R(<<"/", "<int>", "/", "a">>, {"GET"}), R(<<"/", "<uint>">>, {"GET", "HEAD"}),
     R(<<"/", "<double>">>, {"HEAD"}), R(<<"/", "<path>", "/">>, {"POST"}),
     R(<<"a">>, {"GET"}), [R(<<"/">>, {"POST"}) EXCEPT !.handled = FALSE]}

\* The paths asked for: text, numerals of every kind, slashes in every place.
Urls == {<<"/">>} \cup
    {<<"/">> \o s : s \in
       {<<"a">>, <<"a", "/">>, <<"a", "/", "a">>, <<"a", "/", "1">>, <<"a", "a">>,
        <<"1">>, <<"1", "/">>, <<"1", "/", "a">>, <<"-", "1">>, <<"1", ".", "1">>,
        <<"1", "1", "1">>, <<"+", "1", "/", "a">>, <<"/">>, <<"a", "/", "a", "/">>}}

Ask(m, url, pairs, up) == [method |-> m, path |-> url, pairs |-> pairs, upgrade |-> up]

PlainAsks == {Ask(m, u, <<>>, FALSE) : m \in Methods, u \in Urls}
         \cup {Ask("OPTIONS", <<"/", "*">>, <<>>, FALSE)}
         \cup {Ask(m, u, <<>>, TRUE) : m \in Methods, u \in {<<"/", "a">>, <<"/", "1">>}}

\* Spellings of a name and of a character of a value, with what they mean.
Names == {[is |-> "b", by |-> <<"b">>], [is |-> "b", by |-> <<"%", "6", "2">>],
          [is |-> "f", by |-> <<"f">>], [is |-> "k", by |-> <<"b", "f">>]}
Chars == {[is |-> <<"2">>, by |-> <<"2">>], [is |-> <<" ">>, by |-> <<"+">>],
          [is |-> <<"&">>, by |-> <<"%", "2", "6">>],
          [is |-> <<"+">>, by |-> <<"%", "2", "b">>],
          [is |-> <<>>, by |-> <<"%", "o">>]}   \* a bad escape ends the value
Values == {[is |-> <<>>, by |-> <<>>], [is |-> <<>>, by |-> <<"=">>]}
          \cup {[is |-> c.is, by |-> <<"=">> \o c.by] : c \in Chars}
          \cup {[is |-> c.is \o d.is, by |-> <<"=">> \o c.by \o d.by] :
                   c \in {c \in Chars : c.is # <<>>}, d \in Chars}
Pairs == {[name |-> n.is, value |-> v.is, text |-> n.by \o v.by] : n \in Names, v \in Values}
Short == {p \in Pairs : Len(p.value) < 2 /\ p.name \in {"b", "f"}}

Queries == {<<p>> : p \in Pairs} \cup {<<p, q>> : p \in Short, q \in Pairs}
           \cup {<<p, q, r>> : p \in {p \in Pairs : Len(p.text) < 3},
                               q \in {p \in Short : Len(p.text) < 4}, r \in Short}

\* Queries are asked of the table that has only the route they are meant for.
ConnectAsks == PlainAsks \cup {Ask("POST", <<"/", "a">>, q, FALSE) : q \in Queries}
MCAsks(rs) == IF rs = <<Connect>> THEN ConnectAsks ELSE PlainAsks
=================================================================================
