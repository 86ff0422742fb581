---------------------------- MODULE MCHandshake ----------------------------
EXTENDS Handshake

Up == <<<<"Upgrade">>>>
Ws == <<<<"WebSocket">>>>

\* A conforming client with lists of its own, and one for each of the server's rules
\* broken, some on two counts.
Requests ==
    {Request("GET", "HTTP/1.1", TRUE, "k", <<<<"keep-alive">>, <<"no-upgrade", "upgrade">>>>, Ws, "13"),
     Request("POST", "HTTP/1.1", TRUE, "k", Up, Ws, "8"),
     Request("GET", "HTTP/1.0", TRUE, "k", Up, Ws, "13"),
     Request("GET", "HTTP/1.1", TRUE, "none", Up, Ws, "8"),
     Request("GET", "HTTP/1.1", TRUE, "k", <<<<"no-upgrade">>>>, Ws, "13"),
     Request("GET", "HTTP/1.1", TRUE, "k", Up, <<>>, "13"),
     Request("GET", "HTTP/1.1", TRUE, "k", Up, Ws, "8")}

\* Without a Host, and with a key that is not the base64 of sixteen bytes: what the
\* server does not look at.
Nonconforming == {Request("GET", "HTTP/1.1", FALSE, "malformed", Up, Ws, "13")}

\* Everything stands between the sides of c1; c2 is a handshake of this package's
\* own, whose answer a cache may have seen.
ForeignTo == [c1 |-> Requests \cup Nonconforming, c2 |-> {}]
Between ==
    [c1 |-> {"nothing", "ownLine", "sameLine", "lowerCase", "strips", "HTTP/1.0"},
     c2 |-> {"nothing"}]

Frames == [c1 |-> 2, c2 |-> 0]
=============================================================================
