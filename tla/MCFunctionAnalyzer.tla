------------------------- MODULE MCFunctionAnalyzer -------------------------
(* Bounds for FunctionAnalyzer: three functions, bodies of up to two      *)
(* events.  The functions are interchangeable model values: bodies,       *)
(* declarations and the declaration order are all chosen in Init, and no  *)
(* definition names one of them, so permuting them is a symmetry.          *)
EXTENDS FunctionAnalyzer, TLC

CONSTANTS f1, f2, f3

MCFuncs == {f1, f2, f3}
MCMaxBody == 2
MCSymmetry == Permutations(MCFuncs)
=============================================================================
