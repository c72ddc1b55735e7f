------------------------------ MODULE MCParser ------------------------------
(* The parser of Parser.tla on the operations of the protocol, one after    *)
(* another, cut everywhere.                                                 *)
EXTENDS Parser

CRLF == <<"cr", "lf">>
line(w, arg) == w \o <<"sp">> \o arg \o CRLF

\* An operation: its bytes, what is processed, and whether it is an error.
Good(bytes, does) == [bytes |-> bytes, does |-> does, bad |-> ""]
Bad(bytes, why) == [bytes |-> bytes, does |-> <<>>, bad |-> why]

Control(w, arg) == Good(line(w, arg), <<[op |-> w, arg |-> arg]>>)
Message(w, arg, subject, reply, sid, szb, payload) ==
    Good(line(w, arg) \o payload \o CRLF,
         <<[op |-> "message", subject |-> subject, reply |-> reply, sid |-> sid,
            szb |-> szb, msg |-> payload \o CRLF]>>)

Common == {
    Control(SUB, <<"s", "sp", "1">>),
    Control(UNSUB, <<"1", "sp", "2">>),
    Good(PING \o CRLF, <<[op |-> PING]>>)}

\* Payloads contain what looks like the end of a line.
Client == Common \cup {
    Message(PUB, <<"s", "sp", "2">>, <<"s">>, <<>>, <<>>, <<"2">>, <<"cr", "lf">>),
    Message(PUB, <<"s", "sp", "r", "sp", "sp", "0">>, <<"s">>, <<"r">>, <<>>, <<"0">>, <<>>),
    Message(PUB, <<"s", "s", "sp", "5">>, <<"s", "s">>, <<>>, <<>>, <<"5">>,
            <<"x", "lf", "P", "cr", "y">>),
    Control(CONNECT, <<"{", "}">>),
    Control(ERR, <<"e">>),
    Good(PONG \o CRLF, <<[op |-> PONG]>>),
    Good(OK \o CRLF, <<>>)}

Broken == {
    Bad(<<"P", "U", "X">>, "parse"),
    Bad(PUB \o <<"s", "sp">>, "parse"),
    Bad(line(PUB, <<"s">>), "argument"),
    Bad(line(PUB, <<"s", "sp", "x">>), "argument"),
    Bad(line(PUB, <<"s", "sp", "9">>), "payload"),
    Bad(line(PUB, <<"s", "sp", "1">>) \o <<"x", "y">> \o CRLF, "parse"),
    Bad(line(MSG, <<"s", "sp", "1", "sp", "0">>) \o CRLF, "parse"),
    Bad(line(SUB, <<"s">>), "argument"),
    Bad(line(CONNECT, <<"x">>), "argument")}

\* Another server says MSG, never PUB.
Route == Common \cup {
    Message(MSG, <<"s", "sp", "1", "sp", "3">>, <<"s">>, <<>>, <<"1">>, <<"3">>,
            <<"x", "cr", "lf">>),
    Message(MSG, <<"s", "sp", "1", "sp", "r", "sp", "1">>, <<"s">>, <<"r">>, <<"1">>, <<"1">>,
            <<"lf">>),
    Control(INFO, <<"{", "}">>)}

BrokenRoute == {
    Bad(line(MSG, <<"s", "sp", "1">>), "argument"),
    Bad(line(MSG, <<"s", "sp", "1", "sp", "x">>), "argument")}

\* A line longer than MaxControlLine and than c.scratch.
Long == Message(PUB, <<"s", "t", "u", "v", "sp", "r", "sp", "sp", "sp", "2">>,
                <<"s", "t", "u", "v">>, <<"r">>, <<>>, <<"2">>, <<"x", "y">>)

Pair(x, y, typ, auth) ==
    [bytes |-> x.bytes \o y.bytes, typ |-> typ, auth |-> auth, long |-> Long \in {x, y},
     expect |-> IF x.bad # "" THEN <<>> ELSE x.does \o y.does,
     bad |-> IF x.bad # "" THEN x.bad ELSE y.bad]

\* A connection that must authenticate says CONNECT first.
MCStreams ==
    {Pair(x, y, "CLIENT", FALSE) : x \in Client, y \in Client \cup Broken}
      \cup {Pair(x, Long, "CLIENT", FALSE) : x \in Common}
      \cup {Pair(Long, y, "CLIENT", FALSE) : y \in Common}
      \cup {Pair(x, y, "ROUTER", FALSE) : x \in Route, y \in Route}
      \cup {Pair(x, y, "ROUTER", FALSE) : x \in Common, y \in BrokenRoute}
      \cup {Pair(Control(CONNECT, <<"{", "}">>), y, "CLIENT", TRUE) : y \in Common}
      \cup {Pair(Bad(PING, "auth"), y, "CLIENT", TRUE) : y \in Common}
=============================================================================
