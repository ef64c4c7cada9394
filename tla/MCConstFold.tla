---------------------------- MODULE MCConstFold ----------------------------
(* Four-bit cells: every operand pair, INT_MIN = -8, and shift counts    *)
(* from below zero to past the width.                                   *)
EXTENDS ConstFold

MCCellBits == 4
=============================================================================
