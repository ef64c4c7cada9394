------------------------------- MODULE Driver -------------------------------
(***************************************************************************)
(* The driver of the semantic pass (semantics.cpp): Analyze checks the     *)
(* top-level statements, then runs TestSymbols over each file-static scope *)
(* and over the globals.  TestSymbol finds the entry point, reports unused *)
(* symbols, and runs the deferred CheckFunctionReturnUsage of each global  *)
(* function, which appends a synthetic return to a body that may fall off  *)
(* its end.                                                                *)
(*                                                                         *)
(* What the statement checker found out about each function body          *)
(* (returns_value, always_returns) is an input here: StmtChecker checks    *)
(* how it is computed.                                                     *)
(***************************************************************************)
EXTENDS Integers, FiniteSets

CONSTANTS
  Syms,        \* the symbols of the file-static scopes and the globals
  NumStatic    \* the number of file-static scopes

Scopes == 1..NumStatic + 1   \* static_scopes_ in order, then cc_.globals()

FuncInfo ==
  [kind : {"func"}, public : BOOLEAN, main : BOOLEAN, native : BOOLEAN,
   stock : BOOLEAN, read : BOOLEAN, body : {FALSE}]
  \cup
  [kind : {"func"}, public : BOOLEAN, main : BOOLEAN, native : {FALSE},
   stock : BOOLEAN, read : BOOLEAN, body : {TRUE}, returns_value : BOOLEAN,
   always_returns : BOOLEAN, must_return : BOOLEAN]
VarInfo ==
  [kind : {"var"}, public : BOOLEAN, stock : BOOLEAN, read : BOOLEAN,
   written : BOOLEAN, parent : BOOLEAN]
ConstInfo == [kind : {"const"}, read : BOOLEAN]

VARIABLES
  info,        \* info[s]: the symbol's kind, flags and usage bits (fixed)
  scope,       \* scope[s]: the scope s is declared in (fixed)
  phase,       \* "check", "test", "final" or "done"
  static_scopes, \* Semantics::static_scopes_: file scopes whose ChangeScopeNode was checked
  ok,          \* the top-level statements checked without error
  cur,         \* the scope TestSymbols is walking
  tested,      \* the symbols of that scope already visited
  has_public,  \* Analyze's has_public
  reports,     \* <<symbol, code>> of each diagnostic; 0 stands for the driver
  synthesized, \* the functions given a synthetic return
  result       \* the value Analyze returns

vars == <<info, scope, phase, static_scopes, ok, cur, tested, has_public, reports, synthesized, result>>

Init ==
  /\ info \in [Syms -> FuncInfo \cup VarInfo \cup ConstInfo]
  /\ scope \in [Syms -> Scopes]
  /\ phase = "check"
  /\ static_scopes = {}
  /\ ok = FALSE
  /\ cur = 1
  /\ tested = {}
  /\ has_public = FALSE
  /\ reports = {}
  /\ synthesized = {}
  /\ result = FALSE

\* CheckPragmaUnusedStmt, met while the tree is checked: the symbol is
\* marked read, and a variable also written.
CheckPragmaUnusedStmt ==
  /\ phase = "check"
  /\ \E s \in Syms :
       info' = IF info[s].kind = "var"
               THEN [info EXCEPT ![s].read = TRUE, ![s].written = TRUE]
               ELSE [info EXCEPT ![s].read = TRUE]
  /\ UNCHANGED <<scope, phase, static_scopes, ok, cur, tested, has_public, reports,
                 synthesized, result>>

\* CheckChangeScopeNode: the file-static scope that begins here is recorded.
CheckChangeScopeNode ==
  /\ phase = "check"
  /\ \E c \in 1..NumStatic \ static_scopes : static_scopes' = static_scopes \cup {c}
  /\ UNCHANGED <<info, scope, phase, ok, cur, tested, has_public, reports, synthesized, result>>

\* The end of CheckStmtList over the tree, which holds a ChangeScopeNode for
\* every file, and AutoCountErrors: any error ends the pass.
CheckTopLevel ==
  /\ phase = "check" /\ static_scopes = 1..NumStatic
  /\ ok' \in BOOLEAN
  /\ phase' = IF ok' THEN "test" ELSE "done"
  /\ UNCHANGED <<info, scope, static_scopes, cur, tested, has_public, reports, synthesized,
                 result>>

\* CheckFunctionReturnUsage: unless the body returns a value on every path,
\* report a missing value if one is required (209, standing for the 209,
\* 242 or 400 ReportFunctionReturnError picks) and append "return;".
CheckFunctionReturnUsage(s) ==
  IF info[s].returns_value /\ info[s].always_returns
  THEN UNCHANGED <<reports, synthesized>>
  ELSE /\ reports' = reports \cup (IF info[s].must_return THEN {<<s, 209>>} ELSE {})
       /\ synthesized' = synthesized \cup {s}

\* Mutant: stock functions are not exempt from the unused warning.
IsUnusedFunctionWithStock(s) ==
  ~info[s].read /\ ~(info[s].native \/ info[s].public) /\ info[s].body

\* The test for "unused function" (203): unread, neither native, stock nor
\* public, and defined.
IsUnusedFunction(s) ==
  ~info[s].read /\ ~(info[s].native \/ info[s].stock \/ info[s].public) /\ info[s].body

\* Mutant: the unused-function test comes before the entry-point test.
IsEntryAfterUnused(s) == (info[s].public \/ info[s].main) /\ ~IsUnusedFunction(s)

\* A function named main or declared public is an entry point.
IsEntry(s) == info[s].public \/ info[s].main

\* TestSymbol on a function.
TestFunction(s) ==
  /\ has_public' = (has_public \/ IsEntry(s))
  /\ IF IsUnusedFunction(s)
     THEN /\ reports' = reports \cup {<<s, 203>>}
          /\ UNCHANGED synthesized
     ELSE IF info[s].body THEN CheckFunctionReturnUsage(s)
     ELSE UNCHANGED <<reports, synthesized>>

\* TestSymbol on a variable; a constant is tested only with testconst,
\* which is false for these scopes.
TestVariable(s) ==
  /\ reports' =
       reports \cup
       CASE info[s].parent \/ info[s].stock \/ info[s].public -> {}
         [] ~info[s].read /\ ~info[s].written -> {<<s, 203>>}
         [] ~info[s].read -> {<<s, 204>>}
         [] OTHER -> {}
  /\ UNCHANGED <<has_public, synthesized>>

\* SymbolScope::ForEachSymbol: every symbol of scope c, in the order of a
\* hash map, which the model leaves open.
ScopeSymbols(c) == {t \in Syms : scope[t] = c}

\* TestSymbols calls TestSymbol on the symbols of the scope, one at a time.
TestSymbol ==
  /\ phase = "test"
  /\ \E s \in ScopeSymbols(cur) \ tested :
       /\ tested' = tested \cup {s}
       /\ CASE info[s].kind = "func" -> TestFunction(s)
            [] info[s].kind = "var"  -> TestVariable(s)
            [] OTHER -> UNCHANGED <<has_public, reports, synthesized>>
  /\ UNCHANGED <<info, scope, static_scopes, ok, phase, cur, result>>

\* Mutant: one scope too many.
LastScopePastEnd == NumStatic + 2

\* Analyze tests the static scopes, then the globals last.
LastScope == NumStatic + 1

\* TestSymbols returns; Analyze goes on with the next scope.
NextScope ==
  /\ phase = "test"
  /\ ScopeSymbols(cur) \subseteq tested
  /\ IF cur < LastScope
     THEN /\ cur' = cur + 1 /\ tested' = {} /\ UNCHANGED phase
     ELSE /\ phase' = "final" /\ UNCHANGED <<cur, tested>>
  /\ UNCHANGED <<info, scope, static_scopes, ok, has_public, reports, synthesized, result>>

\* The end of Analyze: no entry point is error 13.
Finish ==
  /\ phase = "final"
  /\ phase' = "done"
  /\ IF has_public THEN /\ result' = TRUE /\ UNCHANGED reports
     ELSE /\ reports' = reports \cup {<<0, 13>>} /\ result' = FALSE
  /\ UNCHANGED <<info, scope, static_scopes, ok, cur, tested, has_public, synthesized>>

Next == CheckPragmaUnusedStmt \/ CheckChangeScopeNode \/ CheckTopLevel \/ TestSymbol \/ NextScope \/ Finish

\* The pass runs on one thread and never waits.
Spec == Init /\ [][Next]_vars /\ WF_vars(Next)

(***************************************************************************)
(* Properties.                                                             *)
(***************************************************************************)
IsFunc(s) == info[s].kind = "func"

\* The state has the shapes the declarations above give it.
TypeOK ==
  /\ info \in [Syms -> FuncInfo \cup VarInfo \cup ConstInfo] /\ scope \in [Syms -> Scopes]
  /\ phase \in {"check", "test", "final", "done"} /\ cur \in Scopes
  /\ static_scopes \subseteq 1..NumStatic
  /\ tested \subseteq Syms /\ synthesized \subseteq Syms
  /\ result \in BOOLEAN

\* Spec 4.8: when the top-level statements check, Analyze succeeds exactly
\* when some function is public or named main, and reports 13 otherwise,
\* whichever order ForEachSymbol takes and whether or not the entry point
\* is itself unused.
EntryPointFound ==
  phase = "done" /\ ok =>
    /\ result = \E s \in Syms : IsFunc(s) /\ (info[s].public \/ info[s].main)
    /\ (<<0, 13>> \in reports) = ~result

\* Spec 4.8: an unread function that is neither public, native nor stock
\* and has a body gets 203; a top-level variable that is neither stock nor
\* public gets 203 if it is never used and 204 if it is written but never
\* read; nothing else is reported unused.
UnusedReported ==
  phase = "done" /\ ok =>
    \A s \in Syms :
      LET i == info[s]
          unusedFunc == IsFunc(s) /\ i.body /\ ~i.read /\ ~i.public /\ ~i.native /\ ~i.stock
          quietVar == i.kind /= "var" \/ i.parent \/ i.stock \/ i.public
      IN /\ (<<s, 203>> \in reports) = (unusedFunc \/ (~quietVar /\ ~i.read /\ ~i.written))
         /\ (<<s, 204>> \in reports) = (~quietVar /\ ~i.read /\ i.written)

\* Spec 8.2: after the driver completes, every function body ends in a
\* return: it returns a value on every path, or a return was appended.
EveryBodyEndsInReturn ==
  phase = "done" /\ result =>
    \A s \in Syms :
      IsFunc(s) /\ info[s].body =>
        (info[s].returns_value /\ info[s].always_returns) \/ s \in synthesized
====
