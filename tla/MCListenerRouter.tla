-------------------------- MODULE MCListenerRouter --------------------------
EXTENDS ListenerRouter

\* A frame as a conforming client sends it, and close frames by their code.
F(op, fin, payload) ==
    [op |-> op, fin |-> fin, rsv |-> FALSE, mask |-> TRUE, payload |-> payload, code |-> 0]
CloseF(code, payload) == [F(OpcodeClose, TRUE, payload) EXCEPT !.code = code]

A == <<"A">>
L == <<"L">>
T == <<"T">>

\* Messages in fragments: runes split between frames, empty frames, long frames.
DataFrames ==
    {F(OpcodeText, fin, p) : fin \in BOOLEAN, p \in {<<>>, L}}
    \cup {F(OpcodeBinary, fin, p) : fin \in BOOLEAN, p \in {A}}
    \cup {F(OpcodeContinuation, fin, p) : fin \in BOOLEAN, p \in {<<>>, T}}
    \cup {F(OpcodeBinary, FALSE, A \o A \o A \o A)}

\* Control frames of every length that matters, and broken ones of every kind.
OtherFrames ==
    {F(OpcodePing, TRUE, A \o A \o A), F(OpcodePong, TRUE, <<>>), F(OpcodePing, FALSE, <<>>),
     F(OpcodePing, TRUE, A \o A \o A \o A),
     F(3, TRUE, A), F(3, FALSE, A \o A \o A \o A),
     CloseF(0, <<>>), CloseF(0, A), CloseF(1000, A \o A), CloseF(1005, A \o A),
     CloseF(1000, A \o A \o A), CloseF(1000, A \o A \o T),
     [F(OpcodeText, TRUE, A) EXCEPT !.rsv = TRUE],
     [F(OpcodeText, TRUE, A) EXCEPT !.mask = FALSE]}

AllFrames == DataFrames \cup OtherFrames

\* Enough of each for a rune in three frames and a control frame between.
FewFrames ==
    DataFrames \cup {F(OpcodePing, TRUE, A \o A \o A), F(OpcodePong, TRUE, <<>>)}

C(limit, count, data) ==
    [limit |-> limit, count |-> count, peerIsClient |-> TRUE, timeout |-> FALSE, data |-> data]

Unlimited    == C(0, 0, FALSE)
AllConfigs   == {Unlimited, C(1, 2, FALSE), [C(5, 2, TRUE) EXCEPT !.timeout = TRUE],
                 [C(2, 0, FALSE) EXCEPT !.peerIsClient = FALSE]}
WithTimeout  == {Unlimited, [Unlimited EXCEPT !.timeout = TRUE]}
TwoFrames    == {C(0, 2, FALSE)}
WithLimit    == {Unlimited, C(1, 0, FALSE)}
=============================================================================
