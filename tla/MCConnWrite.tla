---------------------------- MODULE MCConnWrite ----------------------------
(* Model values and symmetry for ConnWrite.                                  *)
EXTENDS ConnWrite, TLC

CONSTANTS s1, s2, p1

TwoSenders == {s1, s2}
OnePinger  == {p1}

TextOnly   == {OpcodeText}
TextAndPing == {OpcodeText, OpcodePing}
CloseOnly   == {OpcodeClose}

AllFaults == {"key", "write", "payload"}

\* Without the fault that ends a ping loop whatever the connection does.
KeyAndWrite == {"key", "write"}

Symmetry == Permutations(TwoSenders)
=============================================================================
