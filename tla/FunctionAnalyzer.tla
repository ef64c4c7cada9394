-------------------------- MODULE FunctionAnalyzer --------------------------
(***************************************************************************)
(* The function analyzer of the semantic pass (semantics.cpp): the driver  *)
(* checks the top-level function declarations in order; CheckFunctionInfo  *)
(* analyses each at most once; and CheckCallExpr, meeting a call to a      *)
(* function that returns an array whose size is not known yet, analyses    *)
(* that function first, recursively, or reports 411 if it is already      *)
(* being analysed.                                                         *)
(*                                                                         *)
(* A function body is reduced to the events that matter here, in the      *)
(* order the statement checker meets them: a call of another function (an *)
(* element of Funcs) and an array return ("RetArr", CheckReturnStmt going  *)
(* through CheckArrayReturnStmt).  A function may also have no body: a    *)
(* native, a forward, or a declaration missing its body, each declared    *)
(* with an array return type (numdim > 0) or not.  Programs and           *)
(* declaration orders are chosen in Init.                                 *)
(***************************************************************************)
EXTENDS Integers, Sequences, FiniteSets, SequencesExt

CONSTANTS
  Funcs,    \* the functions of the translation unit
  MaxBody   \* most events in one body

ASSUME IsFiniteSet(Funcs) /\ MaxBody \in Nat

RetArr == "RetArr"
Events == Funcs \cup {RetArr}

\* The declarations a function can have: with a body, or without one.
FuncDecls ==
  [kind : {"body"}, dim : BOOLEAN, body : UNION {[1..n -> Events] : n \in 0..MaxBody}]
  \cup [kind : {"native", "forward", "missing"}, dim : BOOLEAN, body : {<<>>}]

VARIABLES
  body,          \* body[f]: the events of f's body (fixed)
  decl,          \* decl[f]: kind of declaration and numdim > 0 (fixed)
  order,         \* the top-level declarations, in order (fixed)
  next,          \* index in order of the next top-level statement
  stack,         \* functions being analysed, each with its position, innermost last
  analyzing,     \* FunctionInfo::is_analyzing
  analyzed,      \* FunctionInfo::is_analyzed
  array_return,  \* symbol::array_return() is set
  status,        \* FunctionInfo::analysis_status
  erred,         \* ghost: functions with a reported declaration or array return
  impls,         \* ghost: how many times CheckFunctionInfoImpl ran per function
  reported,      \* ghost: <<caller, callee>> of each error 411
  scalarUse      \* ghost: callees whose call was accepted while their array size was unknown

vars == <<body, decl, order, next, stack, analyzing, analyzed, array_return,
          status, erred, impls, reported, scalarUse>>

\* FunctionInfo::maybe_returns_array, set by the parser: the body has an
\* array return.
ReturnsArray(f) == RetArr \in ToSet(body[f])

\* Mutant: the callee is never analysed first.
NeedsCalleeAnalysisNever(g) == FALSE

\* The condition of CheckCallExpr for analysing the callee first.
NeedsCalleeAnalysis(g) == (decl[g].dim \/ ReturnsArray(g)) /\ ~array_return[g]

\* The order in which CheckStmtList, and within a declaration
\* CheckEnumStructDecl and CheckMethodmapDecl, reach the function
\* declarations: each once, in the order of the tree.
DeclOrders == {s \in [1..Cardinality(Funcs) -> Funcs] : ToSet(s) = Funcs}

Init ==
  /\ \E fd \in [Funcs -> FuncDecls] :
       /\ body = [f \in Funcs |-> fd[f].body]
       /\ decl = [f \in Funcs |-> [kind |-> fd[f].kind, dim |-> fd[f].dim]]
  /\ order \in DeclOrders
  /\ next = 1
  /\ stack = <<>>
  /\ analyzing = [f \in Funcs |-> FALSE]
  /\ analyzed = [f \in Funcs |-> FALSE]
  /\ array_return = [f \in Funcs |-> FALSE]
  /\ status = [f \in Funcs |-> FALSE]
  /\ erred = {}
  /\ impls = [f \in Funcs |-> 0]
  /\ reported = {}
  /\ scalarUse = {}

\* Mutant: CheckFunctionInfo does not look at is_analyzed().
MemoizedNever(f) == FALSE

\* Mutant: CheckFunctionInfo takes every function for analysed.
MemoizedAlways(f) == TRUE

\* The memo of CheckFunctionInfo: an analysed function returns its status.
Memoized(f) == analyzed[f]

\* The declaration checks CheckFunctionInfoImpl makes before the body:
\* 141 for a public or forward function returning an array, 83 for a
\* native one, 10 for a missing body.
DeclError(f) ==
  \/ decl[f].kind \in {"native", "forward"} /\ decl[f].dim
  \/ decl[f].kind = "missing"

\* What CheckFunctionInfoImpl returns: false after 83 or 10.
ImplStatus(f) ==
  CASE decl[f].kind = "native"  -> ~decl[f].dim
    [] decl[f].kind = "missing" -> FALSE
    [] OTHER                    -> TRUE

\* CheckFunctionInfo(f) when f is not analysed yet: mark it and start Impl,
\* which first checks the declaration.
StartAnalysis(f) ==
  /\ analyzing' = [analyzing EXCEPT ![f] = TRUE]
  /\ impls' = [impls EXCEPT ![f] = @ + 1]
  /\ stack' = Append(stack, [fn |-> f, pc |-> 1])
  /\ erred' = erred \cup (IF DeclError(f) THEN {f} ELSE {})

\* Analyze / CheckStmtList: the next top-level declaration is checked;
\* CheckFunctionInfo returns at once if it was analysed recursively.
TopLevelDecl ==
  /\ stack = <<>> /\ next <= Len(order)
  /\ next' = next + 1
  /\ LET f == order[next] IN
     IF Memoized(f)
     THEN UNCHANGED <<stack, analyzing, impls, erred>>
     ELSE StartAnalysis(f)
  /\ UNCHANGED <<body, decl, order, analyzed, array_return, status, reported, scalarUse>>

Top == stack[Len(stack)]
\* Mutant: a statement is skipped.
AdvanceTwice(s) == [s EXCEPT ![Len(s)].pc = @ + 2]

\* CheckStmtList goes on with the next statement of the body.
Advance(s) == [s EXCEPT ![Len(s)].pc = @ + 1]

\* The event the innermost analysis is at.
Current == body[Top.fn][Top.pc]

\* symbol::set_array_return.
SetArrayReturn(f) == array_return' = [array_return EXCEPT ![f] = TRUE]

\* CheckReturnStmt -> CheckArrayReturnStmt: the first array return of the
\* function that passes its checks attaches the hidden array symbol; one
\* that fails (39, 79, 90, 46, 128) reports and attaches nothing.  Either
\* way the body goes on and CheckFunctionInfoImpl still returns true.
ArrayReturn ==
  /\ stack /= <<>> /\ Top.pc <= Len(body[Top.fn]) /\ Current = RetArr
  /\ \/ /\ IF array_return[Top.fn] THEN UNCHANGED array_return ELSE SetArrayReturn(Top.fn)
        /\ UNCHANGED erred
     \/ /\ erred' = erred \cup {Top.fn}
        /\ UNCHANGED array_return
  /\ stack' = Advance(stack)
  /\ UNCHANGED <<body, decl, order, next, analyzing, analyzed, status,
                 impls, reported, scalarUse>>

\* The call the current function is at: its callee, when the checker is
\* at a call of a function, the caller being the innermost analysis.
AtCall == stack /= <<>> /\ Top.pc <= Len(body[Top.fn]) /\ Current \in Funcs

\* Ghost: the call's value is taken while g returns an array whose size
\* is still unknown.
ScalarUse(g) ==
  scalarUse' = scalarUse \cup
                 (IF (decl[g].dim \/ ReturnsArray(g)) /\ ~array_return[g] THEN {g} ELSE {})

\* Mutant: any call needing the callee's analysis is taken for a re-entry.
ReentryAlways(g) == TRUE

\* The is_analyzing() test of CheckCallExpr.
ReentryDetected(g) == analyzing[g]

\* CheckCallExpr when g's array size need not be computed, or g was
\* analysed already and CheckFunctionInfo returns its status, true: the
\* call goes on and takes g's array_return.
CallPlain ==
  /\ AtCall
  /\ LET g == Current IN
     /\ ~NeedsCalleeAnalysis(g) \/ (~ReentryDetected(g) /\ Memoized(g) /\ status[g])
     /\ ScalarUse(g)
  /\ stack' = Advance(stack)
  /\ UNCHANGED <<body, decl, order, next, analyzing, analyzed, array_return, status,
                 erred, impls, reported>>

\* CheckCallExpr when g is being analysed, or was analysed and failed:
\* error 411, the call fails.
CallReentrant ==
  /\ AtCall
  /\ LET g == Current IN
     /\ NeedsCalleeAnalysis(g)
     /\ ReentryDetected(g) \/ (Memoized(g) /\ ~status[g])
     /\ reported' = reported \cup {<<Top.fn, g>>}
  /\ stack' = Advance(stack)
  /\ UNCHANGED <<body, decl, order, next, analyzing, analyzed, array_return, status,
                 erred, impls, scalarUse>>

\* CheckCallExpr analyses g first: CheckFunctionInfo starts Impl.
CallAnalyzeCallee ==
  /\ AtCall
  /\ LET g == Current IN
     /\ NeedsCalleeAnalysis(g) /\ ~ReentryDetected(g) /\ ~Memoized(g)
     /\ StartAnalysis(g)
  /\ UNCHANGED <<body, decl, order, next, analyzed, array_return, status, reported, scalarUse>>

\* The end of CheckFunctionInfoImpl: the body, if any, is checked;
\* CheckFunctionInfo records the status.  A caller's CheckCallExpr then
\* reports 411 if the status is false, and otherwise goes on.
FinishAnalysis ==
  /\ stack /= <<>> /\ Top.pc > Len(body[Top.fn])
  /\ LET f == Top.fn
         rest == SubSeq(stack, 1, Len(stack) - 1)
     IN /\ analyzing' = [analyzing EXCEPT ![f] = FALSE]
        /\ analyzed' = [analyzed EXCEPT ![f] = TRUE]
        /\ status' = [status EXCEPT ![f] = ImplStatus(f)]
        /\ stack' = IF rest = <<>> THEN rest ELSE Advance(rest)
        /\ IF rest /= <<>> /\ ~ImplStatus(f)
           THEN /\ reported' = reported \cup {<<rest[Len(rest)].fn, f>>}
                /\ UNCHANGED scalarUse
           ELSE /\ scalarUse' = scalarUse \cup
                     (IF rest /= <<>> /\ (decl[f].dim \/ ReturnsArray(f)) /\ ~array_return[f]
                      THEN {f} ELSE {})
                /\ UNCHANGED reported
  /\ UNCHANGED <<body, decl, order, next, array_return, erred, impls>>

Done == stack = <<>> /\ next > Len(order)

Next ==
  \/ TopLevelDecl \/ ArrayReturn \/ FinishAnalysis
  \/ CallPlain \/ CallReentrant \/ CallAnalyzeCallee

\* The pass runs on one thread and never waits.
Spec == Init /\ [][Next]_vars /\ WF_vars(Next)

(***************************************************************************)
(* Properties.                                                             *)
(***************************************************************************)
G == INSTANCE Graphs

\* The calls that make CheckCallExpr wait for a callee's array size.
ArrayCallGraph ==
  [node |-> Funcs,
   edge |-> {<<f, g>> \in Funcs \X Funcs :
              g \in ToSet(body[f]) /\ (decl[g].dim \/ ReturnsArray(g))}]

\* The state has the shapes the declarations above give it.
TypeOK ==
  /\ next \in 1..Cardinality(Funcs) + 1
  /\ \A i \in DOMAIN stack :
       stack[i].fn \in Funcs /\ stack[i].pc \in 1..Len(body[stack[i].fn]) + 1
  /\ analyzing \in [Funcs -> BOOLEAN] /\ analyzed \in [Funcs -> BOOLEAN]
  /\ array_return \in [Funcs -> BOOLEAN] /\ status \in [Funcs -> BOOLEAN]
  /\ erred \subseteq Funcs /\ scalarUse \subseteq Funcs
  /\ reported \subseteq Funcs \X Funcs

\* CheckFunctionInfo's memo and the is_analyzing test of CheckCallExpr:
\* CheckFunctionInfoImpl runs at most once for each function, whatever
\* the order of declarations and calls (its assert(!is_analyzing) holds).
ImplRunsOnce == \A f \in Funcs : impls[f] <= 1

\* CheckCallExpr analyses an array-returning callee first so that a call it
\* accepts of a callee whose body returns an array always knows the size
\* of that array, declared array return type or not, unless an error was
\* already reported on the callee: a forward returning an array (141), or
\* an array return that failed its checks.  (A body declared to return an
\* array that never does leaves the size unknown; that is a hazard of its
\* own.)
ArraySizeKnownAtCall == \A g \in scalarUse : g \in erred \/ ~ReturnsArray(g)

\* CheckCallExpr reports 411 only for a call that closes a cycle (the
\* callee, being analysed, reaches the caller through calls of functions
\* that return arrays) or that calls a function whose declaration was
\* already reported (83, 10).
No411WithoutCycle ==
  \A c \in reported : G!ConnectionsIn(ArrayCallGraph)[c[2], c[1]] \/ c[2] \in erred

====
