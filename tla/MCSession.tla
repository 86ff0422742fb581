----------------------------- MODULE MCSession -----------------------------
EXTENDS Session

\* A client that closes, breaks rules of every kind, or pings behind its close;
\* a server that pings and shuts down.
Frames ==
    [client |-> {Frame("text", 0), Frame("ping", 0), Frame("close", 1000), Frame("close", 1005),
                 Frame("badtext", 0), Frame("rsv", 0), Frame("reserved", 0)},
     server |-> {Frame("ping", 0), Frame("close", 1001), Frame("big", 0)}]

Sends2 == [client |-> 2, server |-> 2]
=============================================================================
