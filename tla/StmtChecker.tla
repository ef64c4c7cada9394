---------------------------- MODULE StmtChecker ----------------------------
(***************************************************************************)
(* The statement checker of the semantic pass (semantics.cpp) analysing    *)
(* one function body: Semantics::CheckStmt and the Check*Stmt handlers it  *)
(* dispatches to, the SemaContext flags they save and restore, the         *)
(* heap-ownership bit pending_heap_allocation_, and what                   *)
(* CheckFunctionInfoImpl and CheckFunctionReturnUsage do with the result.  *)
(*                                                                         *)
(* The body is not fixed in advance: whenever the checker calls CheckStmt  *)
(* on a statement, that statement's kind and the outcome of its            *)
(* sub-expression checks are chosen then, so the behaviours of the spec    *)
(* are the analyses of every body within the bounds.  The recursion of the *)
(* checker is an explicit stack of frames, one per handler in progress,    *)
(* and each handler is split at the points where it calls CheckStmt.      *)
(*                                                                         *)
(* Two ghost components judge the checker: the outcomes a statement can    *)
(* really complete with (normal, break, continue, return), computed from   *)
(* the statements it contains, with whether control can reach it; and the  *)
(* identity of every heap allocation, with the node that should own it.    *)
(***************************************************************************)
EXTENDS Integers, Sequences, FiniteSets, SequencesExt

CONSTANTS
  MaxDepth,     \* deepest path at which a compound statement may appear
  MaxBlockLen,  \* most statements in one block
  MaxCases,     \* most case entries in one switch
  MaxCompound,  \* most compound statements in one body
  AllowErrors   \* whether sub-checks (CheckExpr, AnalyzeForTest ...) may fail

ASSUME MaxDepth \in Nat \ {0} /\ MaxBlockLen \in Nat /\ MaxCases \in Nat \ {0}
ASSUME AllowErrors \in BOOLEAN /\ MaxCompound \in Nat \ {0}

VARIABLES
  stack,   \* frames of the handlers in progress, innermost last
  call,    \* the CheckStmt(stmt, flags) call about to dispatch, or NoCall
  ret,     \* what the last CheckStmt returned to its caller, or NoRet
  sc,      \* the function's SemaContext
  heap,    \* pending_heap_allocation_, with the ghost allocations
  func,    \* the function symbol and what its analysis writes to it
  errors,  \* an error has been reported
  entered, \* ghost: the statement a block just dispatched
  nodes    \* compound statements generated so far

vars == <<stack, call, ret, sc, heap, func, errors, entered, nodes>>

(***************************************************************************)
(* Flow types (parse-node.h FlowType) and the ghost outcomes.              *)
(***************************************************************************)
Flows    == {"None", "Break", "Continue", "Return", "Mixed"}
Outcomes == {"normal", "break", "continue", "return"}

\* Outcomes of running a statement with outcomes out after statements whose
\* outcomes are acc: it only runs if they can complete normally.
Then(acc, out) ==
  (acc \ {"normal"}) \cup (IF "normal" \in acc THEN out ELSE {})

NoCall == [none |-> TRUE]
NoRet  == [none |-> TRUE]
NoEntry == [reach |-> TRUE, flagged |-> FALSE]

OkChoice == IF AllowErrors THEN BOOLEAN ELSE {TRUE}

Result(ok, flow, out) == [ok |-> ok, flow |-> flow, out |-> out]

Top      == stack[Len(stack)]
SetTop(f) == [stack EXCEPT ![Len(stack)] = f]
Pop      == SubSeq(stack, 1, Len(stack) - 1)

\* The node whose AssignHeapOwnership takes an allocation made by the
\* statement of call c itself: the statement when CheckStmt was given
\* STMT_OWNS_HEAP, else the nearest owner around it.
OwnerOf(c) == IF c.owns THEN c.path ELSE c.owner

\* A call of CheckStmt on child number i of the statement of frame f,
\* loopBody when it is the body of a loop.
ChildCall(f, i, owns, reach, loopBody) ==
  [path |-> f.c.path \o <<i>>, owns |-> owns, reach |-> reach,
   owner |-> OwnerOf(f.c),
   inLoop |-> f.c.inLoop \/ loopBody, mustBlock |-> FALSE]

(***************************************************************************)
(* Heap ownership: Semantics::NeedsHeapAlloc and AssignHeapOwnership.      *)
(* An allocation remembers its site and the node that should own it.       *)
(***************************************************************************)
Fresh(h) == [h EXCEPT !.claimed = {}]

NeedsHeapAlloc(h, site, owner) ==
  [h EXCEPT !.pending = TRUE,
            !.live = @ \cup {[site |-> site, owner |-> owner]}]

AssignHeapOwnership(h, node) ==
  IF h.pending
  THEN LET mine == {a \in h.live : IsPrefix(node, a.site)}
       IN  [pending |-> FALSE, live |-> h.live \ mine,
            claimed |-> h.claimed \cup {[alloc |-> a, by |-> node] : a \in mine}]
  ELSE h

\* The STMT_OWNS_HEAP part of CheckStmt: save and clear the bit on entry;
\* on exit assign what is pending to the statement, then restore.
\* Mutant: the SaveAndSet of CheckStmt does not restore the saved bit.
OwnsHeapLeaveNoRestore(c, h, saved) ==
  IF c.owns THEN AssignHeapOwnership(h, c.path) ELSE h

OwnsHeapEnter(c, h) == IF c.owns THEN [h EXCEPT !.pending = FALSE] ELSE h
OwnsHeapLeave(c, h, saved) ==
  IF c.owns THEN [AssignHeapOwnership(h, c.path) EXCEPT !.pending = saved] ELSE h

\* Return from a compound handler through CheckStmt to the caller.
Finish(f, h, ok, flow, out) ==
  /\ heap' = OwnsHeapLeave(f.c, h, f.savedOwn)
  /\ stack' = Pop
  /\ ret' = Result(ok, flow, out)

\* A compound statement may appear only above the depth bound and while
\* the body has fewer than MaxCompound of them; it counts itself.
CanNest == ~call.mustBlock /\ Len(call.path) <= MaxDepth /\ nodes < MaxCompound
Counted == nodes' = nodes + 1

Dispatching == call /= NoCall /\ ret = NoRet

(***************************************************************************)
(* Atomic statements.                                                      *)
(***************************************************************************)

\* CheckStmt on a VarDecl or an ExprStmt: check the initializer or the
\* expression; a local iREFARRAY declaration that checks leaves a pending
\* allocation, and so may any expression that NeedsHeapAlloc.
SimpleStmt ==
  /\ Dispatching /\ ~call.mustBlock
  /\ \E ok \in OkChoice, alloc \in BOOLEAN :
       LET h1 == OwnsHeapEnter(call, Fresh(heap))
           h2 == IF alloc
                 THEN NeedsHeapAlloc(h1, call.path \o <<0>>, OwnerOf(call))
                 ELSE h1
       IN  /\ heap' = OwnsHeapLeave(call, h2, heap.pending)
           /\ ret' = Result(ok, "None", {"normal"})
           /\ errors' = (errors \/ ~ok)
  /\ call' = NoCall
  /\ UNCHANGED <<stack, sc, func, nodes>>
  /\ entered' = NoEntry

\* ReportFunctionReturnError: 209/242 are warnings, 400 an error.
ReturnError(f) == f.severeReturnError

\* CheckReturnStmt, inside the ownership bracket of CheckStmt: the returned
\* expression, like any other, may leave an allocation pending.
ReturnStmt ==
  /\ Dispatching /\ ~call.mustBlock
  /\ \E hasExpr \in BOOLEAN, ok \in OkChoice, late \in OkChoice, alloc \in BOOLEAN :
       LET sc1 == [sc EXCEPT !.always_returns = TRUE, !.loop_has_return = TRUE]
           warn78 == sc.void_return /\ ~sc.warned_mixed_returns
       IN
       /\ IF ~hasExpr
          THEN /\ sc' = [sc1 EXCEPT !.void_return = TRUE]
               /\ func' = [func EXCEPT !.returnError = @ \/ func.mustReturn]
               /\ errors' = (errors \/ (func.mustReturn /\ ReturnError(func)))
               /\ ret' = Result(TRUE, "Return", {"return"})
          ELSE \* ok: CheckExpr, and 39 on a literal string; 88 in a void
               \* function; all three fail before returns_value is set.
               \* late: the checks after it (79, 90, CheckArrayReturnStmt).
               LET sc2 == [sc1 EXCEPT !.warned_mixed_returns = @ \/ warn78]
                   checks == ok /\ ~func.isVoid
               IN /\ sc' = IF checks THEN [sc2 EXCEPT !.returns_value = TRUE] ELSE sc2
                  /\ UNCHANGED func
                  /\ errors' = (errors \/ ~(checks /\ late))
                  /\ ret' = Result(checks /\ late, "Return", {"return"})
       /\ LET h1 == OwnsHeapEnter(call, Fresh(heap))
              h2 == IF hasExpr /\ alloc
                    THEN NeedsHeapAlloc(h1, call.path \o <<0>>, OwnerOf(call))
                    ELSE h1
          IN heap' = OwnsHeapLeave(call, h2, heap.pending)
  /\ call' = NoCall
  /\ UNCHANGED <<stack, nodes>>
  /\ entered' = NoEntry

\* CheckLoopControlStmt; the parser only accepts break/continue in a loop.
LoopControlStmt ==
  /\ Dispatching /\ ~call.mustBlock /\ call.inLoop
  /\ \E tok \in {"break", "continue"} :
       IF tok = "break"
       THEN /\ sc' = [sc EXCEPT !.loop_has_break = TRUE]
            /\ ret' = Result(TRUE, "Break", {"break"})
       ELSE /\ sc' = [sc EXCEPT !.loop_has_continue = TRUE]
            /\ ret' = Result(TRUE, "Continue", {"continue"})
  /\ heap' = Fresh(heap)
  /\ call' = NoCall
  /\ UNCHANGED <<stack, func, errors, nodes>>
  /\ entered' = NoEntry

(***************************************************************************)
(* CheckBlockStmt.                                                         *)
(***************************************************************************)
BlockBegin ==
  /\ Dispatching /\ (call.mustBlock \/ CanNest)
  /\ \E n \in 0..MaxBlockLen :
       LET h1 == OwnsHeapEnter(call, Fresh(heap)) IN
       /\ stack' = Append(stack,
            [kind |-> "block", c |-> call, savedOwn |-> heap.pending,
             savedBlock |-> h1.pending, n |-> n, i |-> 0, ok |-> TRUE,
             flow |-> "None", acc |-> {"normal"}, phase |-> "next"])
       /\ heap' = [h1 EXCEPT !.pending = FALSE]
  /\ call' = NoCall
  /\ UNCHANGED <<ret, sc, func, errors>>
  /\ entered' = NoEntry
  /\ Counted

\* Mutant: the walk over the block's statements runs one past the end.
BlockHasNextPastEnd(f) == f.i <= f.n

\* The range-for of CheckBlockStmt has statements left.
BlockHasNext(f) == f.i < f.n

BlockNext ==
  /\ call = NoCall /\ ret = NoRet /\ stack /= <<>>
  /\ Top.kind = "block" /\ Top.phase = "next" /\ BlockHasNext(Top)
  /\ LET f == Top
         flagged == sc.always_returns \/ f.flow /= "None"
         reach == f.c.reach /\ "normal" \in f.acc
     IN /\ sc' = IF f.ok /\ ~sc.warned_unreachable /\ flagged
                 THEN [sc EXCEPT !.warned_unreachable = TRUE] ELSE sc
        /\ call' = [ChildCall(f, f.i + 1, FALSE, reach, FALSE) EXCEPT !.owner = f.c.path]
        /\ entered' = [reach |-> reach, flagged |-> flagged]
        /\ stack' = SetTop([f EXCEPT !.i = @ + 1, !.phase = "wait"])
  /\ heap' = Fresh(heap)
  /\ UNCHANGED <<ret, func, errors, nodes>>

BlockResume ==
  /\ ret /= NoRet /\ stack /= <<>> /\ Top.kind = "block" /\ Top.phase = "wait"
  /\ LET f == Top IN
     stack' = SetTop([f EXCEPT !.ok = @ /\ ret.ok,
                               !.flow = IF ret.flow /= "None" /\ @ = "None" THEN ret.flow ELSE @,
                               !.acc = Then(@, ret.out),
                               !.phase = "next"])
  /\ ret' = NoRet
  /\ heap' = Fresh(heap)
  /\ UNCHANGED <<call, sc, func, errors, nodes>>
  /\ entered' = NoEntry

BlockEnd ==
  /\ call = NoCall /\ ret = NoRet /\ stack /= <<>>
  /\ Top.kind = "block" /\ Top.phase = "next" /\ Top.i = Top.n
  /\ LET f == Top
         h == [AssignHeapOwnership(Fresh(heap), f.c.path) EXCEPT !.pending = f.savedBlock]
     IN Finish(f, h, TRUE, f.flow, f.acc)
  /\ UNCHANGED <<call, sc, func, errors, nodes>>
  /\ entered' = NoEntry

(***************************************************************************)
(* CheckIfStmt.  The condition goes through AnalyzeForTest, whose failure  *)
(* does not stop the handler; each arm runs under an AutoCollectSemaFlow,  *)
(* which saves always_returns, clears it, and on exit ANDs it into the     *)
(* collected value and restores it.                                        *)
(***************************************************************************)
\* AutoCollectSemaFlow's constructor: always_returns is cleared for the
\* statement being collected.
CollectBegin(s) == [s EXCEPT !.always_returns = FALSE]

\* Its destructor: the collected value is ANDed into out, or initialises
\* it if out is not valid yet ...
CollectInto(out, valid, s) == IF valid THEN out /\ s.always_returns ELSE s.always_returns

\* ... and always_returns gets back the value saved by the constructor.
CollectEnd(s, saved) == [s EXCEPT !.always_returns = saved]

IfBegin ==
  /\ Dispatching /\ CanNest
  /\ \E condOk \in OkChoice, condAlloc \in BOOLEAN, hasElse \in BOOLEAN :
       LET h1 == OwnsHeapEnter(call, Fresh(heap))
           h2 == IF condAlloc
                 THEN NeedsHeapAlloc(h1, call.path \o <<0>>, OwnerOf(call))
                 ELSE h1
           f  == [kind |-> "if", c |-> call, savedOwn |-> heap.pending,
                  hasElse |-> hasElse, savedAR |-> sc.always_returns,
                  ar |-> FALSE, tflow |-> "None", tout |-> {}, phase |-> "true"]
       IN /\ heap' = h2
          /\ errors' = (errors \/ ~condOk)
          /\ stack' = Append(stack, f)
          /\ call' = ChildCall(f, 1, TRUE, call.reach, FALSE)
  /\ sc' = CollectBegin(sc)
  /\ UNCHANGED <<ret, func>>
  /\ entered' = NoEntry
  /\ Counted

\* The first collector closes; without an else the second collects FALSE.
IfAfterTrue ==
  /\ ret /= NoRet /\ stack /= <<>> /\ Top.kind = "if" /\ Top.phase = "true"
  /\ LET f == Top
         arT == sc.always_returns
         sc1 == CollectEnd(sc, f.savedAR)
     IN IF ~ret.ok
        THEN /\ Finish(f, Fresh(heap), FALSE, "None", ret.out \cup {"normal"})
             /\ sc' = sc1 /\ call' = call
        ELSE IF f.hasElse
        THEN /\ stack' = SetTop([f EXCEPT !.ar = arT, !.tflow = ret.flow,
                                          !.tout = ret.out, !.phase = "false"])
             /\ call' = ChildCall(f, 2, TRUE, f.c.reach, FALSE)
             /\ sc' = CollectBegin(sc1)
             /\ ret' = NoRet /\ heap' = Fresh(heap)
        ELSE /\ Finish(f, Fresh(heap), TRUE, "None", ret.out \cup {"normal"})
             /\ sc' = sc1 /\ call' = call
  /\ UNCHANGED <<func, errors, nodes>>
  /\ entered' = NoEntry

\* IfMerge: the flow of the if from the flows a and b of its arms.
IfMerge(a, b) ==
  IF a = b THEN a ELSE IF a /= "None" /\ b /= "None" THEN "Mixed" ELSE "None"

IfAfterFalse ==
  /\ ret /= NoRet /\ stack /= <<>> /\ Top.kind = "if" /\ Top.phase = "false"
  /\ LET f == Top
         ar == f.ar /\ sc.always_returns
         sc1 == CollectEnd(sc, f.savedAR)
     IN /\ sc' = IF ret.ok /\ ar THEN [sc1 EXCEPT !.always_returns = TRUE] ELSE sc1
        /\ Finish(f, Fresh(heap), ret.ok,
                  IF ret.ok THEN IfMerge(f.tflow, ret.flow) ELSE "None",
                  f.tout \cup ret.out)
  /\ UNCHANGED <<call, func, errors, nodes>>
  /\ entered' = NoEntry

(***************************************************************************)
(* CheckDoWhileStmt, for both while and do-while.  The condition is        *)
(* analysed first and is a constant true or false, or not constant; the    *)
(* body runs under a collector whose value is discarded, with              *)
(* loop_has_break and loop_has_return saved and cleared (loop_has_continue *)
(* is not).                                                                *)
(***************************************************************************)
Conds == {"nonconst", "true", "false"}

\* Ghost: outcomes of a while loop and of a do-while loop with body outcomes b.
WhileOut(cond, b) ==
  IF cond = "false" THEN {"normal"}
  ELSE (b \cap {"return"}) \cup
       (IF cond = "nonconst" \/ "break" \in b THEN {"normal"} ELSE {})
DoOut(cond, b) ==
  (b \cap {"return"}) \cup
  (IF "break" \in b \/ (cond /= "true" /\ b \cap {"normal", "continue"} /= {})
   THEN {"normal"} ELSE {})

DoWhileBegin ==
  /\ Dispatching /\ CanNest
  /\ \E token \in {"while", "do"}, cond \in Conds, condOk \in OkChoice,
        condAlloc \in BOOLEAN :
       LET h1 == OwnsHeapEnter(call, Fresh(heap))
           f  == [kind |-> "loop", token |-> token, c |-> call,
                  savedOwn |-> heap.pending, cond |-> cond,
                  savedAR |-> sc.always_returns, savedBreak |-> sc.loop_has_break,
                  savedReturn |-> sc.loop_has_return]
       IN /\ heap' = IF condAlloc
                     THEN NeedsHeapAlloc(h1, call.path \o <<0>>, OwnerOf(call))
                     ELSE h1
          /\ errors' = (errors \/ ~condOk)
          /\ stack' = Append(stack, f)
          /\ call' = ChildCall(f, 1, TRUE,
                               call.reach /\ (token = "do" \/ cond /= "false"), TRUE)
  /\ sc' = [sc EXCEPT !.always_returns = FALSE, !.loop_has_break = FALSE,
                      !.loop_has_return = FALSE]
  /\ UNCHANGED <<ret, func>>
  /\ entered' = NoEntry
  /\ Counted

\* Mutant: the loop is treated as taken even when its body breaks out.
DoWhileTakenIgnoresBreak(f, has_break) ==
  ~(f.cond = "false" /\ f.token = "while") /\ (f.token = "do" \/ f.cond = "true")

\* The branch of CheckDoWhileStmt that may propagate the body's return:
\* not a never-taken while, a do or always-taken loop, and no break.
DoWhileTaken(f, has_break) ==
  /\ ~(f.cond = "false" /\ f.token = "while")
  /\ f.token = "do" \/ f.cond = "true"
  /\ ~has_break

DoWhileEnd ==
  /\ ret /= NoRet /\ stack /= <<>> /\ Top.kind = "loop"
  /\ LET f == Top
         has_break == sc.loop_has_break
         has_return == sc.loop_has_return
         sc1 == [sc EXCEPT !.always_returns = f.savedAR,
                           !.loop_has_break = f.savedBreak,
                           !.loop_has_return = f.savedReturn]
         always_taken == f.cond = "true"
         taken == DoWhileTaken(f, has_break)
         out == IF f.token = "do" THEN DoOut(f.cond, ret.out) ELSE WhileOut(f.cond, ret.out)
     IN IF ~ret.ok
        THEN /\ sc' = sc1
             /\ Finish(f, Fresh(heap), FALSE, "None", out)
        ELSE /\ sc' = IF taken /\ always_taken /\ has_return
                      THEN [sc1 EXCEPT !.always_returns = TRUE] ELSE sc1
             /\ Finish(f, Fresh(heap), TRUE,
                       IF taken /\ ret.flow = "Return" THEN "Return" ELSE "None", out)
  /\ UNCHANGED <<call, func, errors, nodes>>
  /\ entered' = NoEntry

(***************************************************************************)
(* CheckForStmt.  The init statement, the condition and the advance        *)
(* expression are simple statements and expressions: a failure clears ok  *)
(* and the handler goes on.  The advance takes ownership of its own        *)
(* allocations under a save of the pending bit; if its check fails, what  *)
(* it left pending is dropped by the restore.                              *)
(***************************************************************************)
ForConds == {"none", "nonconst", "true", "false"}

ForBegin ==
  /\ Dispatching /\ CanNest
  /\ \E hasInit \in BOOLEAN, initOk \in OkChoice, initAlloc \in BOOLEAN,
        cond \in ForConds, condOk \in OkChoice, condAlloc \in BOOLEAN,
        hasAdv \in BOOLEAN, advOk \in OkChoice, advAlloc \in BOOLEAN :
       LET p  == call.path
           h1 == OwnsHeapEnter(call, Fresh(heap))
           h2 == IF hasInit /\ initAlloc
                 THEN NeedsHeapAlloc(h1, p \o <<-1>>, OwnerOf(call)) ELSE h1
           h3 == IF cond /= "none" /\ condAlloc
                 THEN NeedsHeapAlloc(h2, p \o <<0>>, OwnerOf(call)) ELSE h2
           h4 == IF hasAdv /\ advAlloc
                 THEN NeedsHeapAlloc([h3 EXCEPT !.pending = FALSE], p \o <<-2>>, p \o <<-2>>)
                 ELSE [h3 EXCEPT !.pending = FALSE]
           h5 == IF hasAdv /\ advOk THEN AssignHeapOwnership(h4, p \o <<-2>>) ELSE h4
           ok == /\ hasInit => initOk
                 /\ cond /= "none" => condOk
                 /\ hasAdv => advOk
           f  == [kind |-> "for", c |-> call, savedOwn |-> heap.pending,
                  cond |-> cond, ok |-> ok, savedAR |-> sc.always_returns,
                  savedBreak |-> sc.loop_has_break,
                  savedContinue |-> sc.loop_has_continue,
                  savedReturn |-> sc.loop_has_return]
       IN /\ heap' = [h5 EXCEPT !.pending = h3.pending]
          /\ errors' = (errors \/ ~ok)
          /\ stack' = Append(stack, f)
          /\ call' = ChildCall(f, 1, TRUE, call.reach /\ cond /= "false", TRUE)
  /\ sc' = [sc EXCEPT !.always_returns = FALSE, !.loop_has_break = FALSE,
                      !.loop_has_continue = FALSE, !.loop_has_return = FALSE]
  /\ UNCHANGED <<ret, func>>
  /\ entered' = NoEntry
  /\ Counted

ForEnd ==
  /\ ret /= NoRet /\ stack /= <<>> /\ Top.kind = "for"
  /\ LET f == Top
         has_break == sc.loop_has_break
         has_return == sc.loop_has_return
         sc1 == [sc EXCEPT !.always_returns = f.savedAR,
                           !.loop_has_break = f.savedBreak,
                           !.loop_has_continue = f.savedContinue,
                           !.loop_has_return = f.savedReturn]
         always_taken == f.cond \in {"none", "true"}
         taken == f.cond /= "false" /\ always_taken /\ ~has_break
     IN /\ sc' = IF taken /\ has_return
                 THEN [sc1 EXCEPT !.always_returns = TRUE] ELSE sc1
        /\ Finish(f, Fresh(heap), f.ok /\ ret.ok,
                  IF taken /\ ret.flow = "Return" THEN "Return" ELSE "None",
                  WhileOut(IF always_taken THEN "true" ELSE f.cond, ret.out))
  /\ UNCHANGED <<call, func, errors, nodes>>
  /\ entered' = NoEntry

(***************************************************************************)
(* CheckSwitchStmt.  Every case body, and the default, runs under a        *)
(* collector into one ke::Maybe<bool>; a body whose check succeeds merges  *)
(* its flow into a ke::Maybe<FlowType> by update_flow.  Without a default, *)
(* the collected value is reset to false and None is merged.  The handler  *)
(* then dereferences both Maybes.                                          *)
(***************************************************************************)
Unset == "unset"

UpdateFlow(flow, other) ==
  IF flow = Unset THEN other
  ELSE IF flow = "None" \/ other = "None" THEN "None"
  ELSE IF flow /= other THEN "Mixed" ELSE flow

SwitchBegin ==
  /\ Dispatching /\ CanNest
  /\ \E exprOk \in OkChoice, exprAlloc \in BOOLEAN, labelsOk \in OkChoice,
        k \in 1..MaxCases, hasDefault \in BOOLEAN :
       LET h1 == OwnsHeapEnter(call, Fresh(heap)) IN
       /\ heap' = IF exprAlloc
                  THEN NeedsHeapAlloc(h1, call.path \o <<0>>, OwnerOf(call))
                  ELSE h1
       /\ errors' = (errors \/ ~exprOk \/ ~labelsOk)
       /\ stack' = Append(stack,
            [kind |-> "switch", c |-> call, savedOwn |-> heap.pending,
             k |-> k, hasDefault |-> hasDefault, j |-> 0,
             arValid |-> FALSE, ar |-> FALSE,
             flow |-> Unset, acc |-> {}, savedAR |-> FALSE, phase |-> "next"])
  /\ call' = NoCall
  /\ UNCHANGED <<ret, sc, func>>
  /\ entered' = NoEntry
  /\ Counted

\* The number of bodies the switch checks: its cases and its default.
Bodies(f) == f.k + (IF f.hasDefault THEN 1 ELSE 0)

SwitchNext ==
  /\ call = NoCall /\ ret = NoRet /\ stack /= <<>>
  /\ Top.kind = "switch" /\ Top.phase = "next" /\ Top.j < Bodies(Top)
  /\ LET f == Top IN
     /\ stack' = SetTop([f EXCEPT !.j = @ + 1, !.savedAR = sc.always_returns,
                                  !.phase = "wait"])
     /\ call' = ChildCall(f, f.j + 1, FALSE, f.c.reach, FALSE)
  /\ sc' = CollectBegin(sc)
  /\ heap' = Fresh(heap)
  /\ UNCHANGED <<ret, func, errors, nodes>>
  /\ entered' = NoEntry

SwitchResume ==
  /\ ret /= NoRet /\ stack /= <<>> /\ Top.kind = "switch" /\ Top.phase = "wait"
  /\ LET f == Top IN
     /\ stack' = SetTop([f EXCEPT
                   !.arValid = TRUE,
                   !.ar = CollectInto(@, f.arValid, sc),
                   !.flow = IF ret.ok THEN UpdateFlow(@, ret.flow) ELSE @,
                   !.acc = @ \cup ret.out,
                   !.phase = "next"])
     /\ sc' = CollectEnd(sc, f.savedAR)
  /\ ret' = NoRet
  /\ heap' = Fresh(heap)
  /\ UNCHANGED <<call, func, errors, nodes>>
  /\ entered' = NoEntry

\* CheckSwitchStmt has checked every case body and the default, if any.
SwitchDone(f) == f.j = Bodies(f)

SwitchEnd ==
  /\ call = NoCall /\ ret = NoRet /\ stack /= <<>>
  /\ Top.kind = "switch" /\ Top.phase = "next" /\ SwitchDone(Top)
  /\ LET f == Top
         ar   == IF f.hasDefault THEN f.ar ELSE FALSE
         flow == IF f.hasDefault THEN f.flow ELSE UpdateFlow(f.flow, "None")
         out  == f.acc \cup (IF f.hasDefault THEN {} ELSE {"normal"})
     IN /\ sc' = IF ar THEN [sc EXCEPT !.always_returns = TRUE] ELSE sc
        /\ \E read \in (IF flow = Unset THEN Flows ELSE {flow}) :
             Finish(f, Fresh(heap), TRUE, read, out)
  /\ UNCHANGED <<call, func, errors, nodes>>
  /\ entered' = NoEntry

(***************************************************************************)
(* CheckFunctionInfoImpl from the check of the body on: the result of      *)
(* CheckStmt is ignored, returns_value and always_returns are copied to    *)
(* the symbol, and for a member function CheckFunctionReturnUsage appends  *)
(* a synthetic return, reporting a missing value, unless the function both *)
(* returns a value and always returns.  For a global the usage check waits *)
(* for the later pass over all symbols (TestSymbol), outside this one.     *)
(***************************************************************************)
FunctionEnd ==
  /\ ret /= NoRet /\ Len(stack) = 1 /\ Top.kind = "func"
  /\ LET usage == func.member /\ ~(sc.returns_value /\ sc.always_returns)
         report == usage /\ func.mustReturn
     IN /\ func' = [func EXCEPT !.returns_value = sc.returns_value,
                                !.always_returns = sc.always_returns,
                                !.bodyOut = ret.out,
                                !.bodyFlow = IF usage THEN "Return" ELSE ret.flow,
                                !.returnError = @ \/ report]
        /\ errors' = (errors \/ (report /\ ReturnError(func)))
  /\ stack' = <<>>
  /\ ret' = NoRet
  /\ heap' = Fresh(heap)
  /\ UNCHANGED <<call, sc, nodes>>
  /\ entered' = NoEntry

(***************************************************************************)
(* The specification.  The function is void (then it need not return a     *)
(* value) or not, and may or may not be required to return one.            *)
(***************************************************************************)
BodyCall ==
  [path |-> <<1>>, owns |-> TRUE, reach |-> TRUE, owner |-> <<1>>,
   inLoop |-> FALSE, mustBlock |-> TRUE]

Init ==
  /\ stack = <<[kind |-> "func"]>>
  /\ call = BodyCall
  /\ ret = NoRet
  /\ sc = [always_returns |-> FALSE, loop_has_break |-> FALSE,
           loop_has_continue |-> FALSE, loop_has_return |-> FALSE,
           returns_value |-> FALSE, void_return |-> FALSE,
           warned_mixed_returns |-> FALSE, warned_unreachable |-> FALSE]
  /\ heap = [pending |-> FALSE, live |-> {}, claimed |-> {}]
  /\ \E isVoid \in BOOLEAN, mustReturn \in BOOLEAN, member \in BOOLEAN,
        severe \in (IF AllowErrors THEN BOOLEAN ELSE {FALSE}) :
       /\ isVoid => ~mustReturn
       /\ func = [isVoid |-> isVoid, mustReturn |-> mustReturn, member |-> member,
                  severeReturnError |-> severe,
                  returns_value |-> FALSE, always_returns |-> FALSE,
                  bodyOut |-> {}, bodyFlow |-> "None",
                  returnError |-> FALSE]
  /\ errors = FALSE
  /\ entered = NoEntry
  /\ nodes = 0

Next ==
  \/ SimpleStmt \/ ReturnStmt \/ LoopControlStmt
  \/ BlockBegin \/ BlockNext \/ BlockResume \/ BlockEnd
  \/ IfBegin \/ IfAfterTrue \/ IfAfterFalse
  \/ DoWhileBegin \/ DoWhileEnd
  \/ ForBegin \/ ForEnd
  \/ SwitchBegin \/ SwitchNext \/ SwitchResume \/ SwitchEnd
  \/ FunctionEnd

\* The pass runs on one thread and never waits: a step that is enabled is taken.
Spec == Init /\ [][Next]_vars /\ WF_vars(Next)

Analyzed == stack = <<>>

(***************************************************************************)
(* Properties.                                                             *)
(***************************************************************************)
TypeOK ==
  /\ call = NoCall \/ call.path \in Seq(Int)
  /\ ret = NoRet \/ (ret.ok \in BOOLEAN /\ ret.flow \in Flows /\ ret.out \subseteq Outcomes)
  /\ \A i \in DOMAIN stack :
       /\ stack[i].kind \in {"func", "block", "if", "loop", "for", "switch"}
       /\ stack[i].kind = "block" => stack[i].i \in 0..stack[i].n
  /\ heap.pending \in BOOLEAN
  /\ errors \in BOOLEAN
  /\ func.bodyFlow \in Flows

\* CheckFunctionInfoImpl copies always_returns to the function symbol, and
\* CheckFunctionReturnUsage relies on it to omit the synthetic return: when
\* an error-free analysis says the function always returns, no execution of
\* its body can fall off the end.
AlwaysReturnsSound ==
  Analyzed /\ ~errors /\ func.always_returns => "normal" \notin func.bodyOut

\* NeedsHeapAlloc / AssignHeapOwnership with the SaveAndSet brackets of
\* CheckStmt, CheckBlockStmt and CheckForStmt: every allocation is claimed
\* by the nearest node that takes ownership around it, and when an
\* error-free analysis ends none is left unclaimed and the bit is clear.
HeapOwnership ==
  /\ \A x \in heap.claimed : x.by = x.alloc.owner
  /\ Analyzed /\ ~errors => heap.live = {} /\ ~heap.pending

\* CheckBlockStmt warns 225 on a statement when always_returns is set or an
\* earlier statement of the block has a flow type: that statement must be
\* unreachable.
UnreachableWarningSound ==
  ~errors /\ entered.flagged => ~entered.reach


====
