--------------------------- MODULE MCListenerRun ---------------------------
EXTENDS ListenerRun

CONSTANTS r1, r2, p1, p2

Runners == {r1, r2}
Pausers == {p1, p2}
=============================================================================
