--------------------------- MODULE MCStmtChecker ---------------------------
(* Bounds under which TLC checks StmtChecker.  A depth of 4 admits a body   *)
(* block holding a loop whose block body holds an if around a continue,    *)
(* the smallest nesting at which the loop handlers' flags interact.         *)
EXTENDS StmtChecker

MCMaxDepth    == 4
MCMaxBlockLen == 2
MCMaxCases    == 1
MCMaxCompound == 3
MCMaxCompoundDeep == 4

\* For the runs about flow types only: behaviours that allocate on the heap
\* are cut off, since allocation does not influence a flow type.
NoHeapAllocation == heap.live = {} /\ ~heap.pending
====
