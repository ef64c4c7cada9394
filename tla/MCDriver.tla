------------------------------- MODULE MCDriver -------------------------------
(* Two symbols, one file-static scope and the globals.                     *)
EXTENDS Driver

CONSTANTS s1, s2

MCSyms == {s1, s2}
MCNumStatic == 1
=============================================================================
