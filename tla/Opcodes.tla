------------------------------ MODULE Opcodes ------------------------------
(***************************************************************************)
(* The opcode space of RFC 6455 5.2 as FrameOpcode.go names it.  The field  *)
(* is four bits; 3..7 and 11..15 are reserved and answer FALSE to both       *)
(* classifications.                                                          *)
(***************************************************************************)
EXTENDS Naturals

Opcode == 0..15

OpcodeContinuation == 0
OpcodeText         == 1
OpcodeBinary       == 2
OpcodeClose        == 8
OpcodePing         == 9
OpcodePong         == 10

IsControlOpcode(op) == op \in {OpcodeClose, OpcodePing, OpcodePong}

IsDataOpcode(op) == op \in {OpcodeContinuation, OpcodeText, OpcodeBinary}

=============================================================================
