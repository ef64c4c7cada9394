# TLA+ models of the semantic pass (`src/compiler/semantics.cpp`)

This directory holds TLA+ specifications of the semantic-analysis core of the
SourcePawn compiler, with the TLC configurations that check them.
`PROJECT.json` lists every component, run, mutant, finding and hazard, and
maps each model definition to the source lines it translates.

## 1. The system

The semantic pass is single-threaded and synchronous (spec §6). It is a
recursive walk over an already parsed AST. There are no concurrent actors,
messages or crashes. What makes it hard is the state threaded through the
recursion:

| Part | Source | State it keeps | Operations |
|---|---|---|---|
| C1 Type registry | `types.cpp` | the vector of interned `Type`s, with their kind and private pointer | `init`, `findOrAdd`, `define*`, `resetPtr`, `clearExtendedTypes` |
| C2/C3 Symbols and scopes | `symbols.h` | symbol flags and usage bits, scope chains | `Find`, `Add`, `markusage`, `add_reference_to` |
| C4 Constant folder | `semantics.cpp` 907–1188 | none (pure) | `BinaryExpr::FoldToConstant`, `TernaryExpr::FoldToConstant` |
| C6 Expression checker | `semantics.cpp` 366–2316 | `val` of each expression, rewrites | `Check*Expr`, `CheckArgument` |
| C7 Statement checker | `semantics.cpp` 88–210, 2288–2982 | the `SemaContext` flags `always_returns`, `loop_has_break/continue/return`, `void_return`, `returns_value`, `warned_mixed_returns`, `warned_unreachable`; the flow type of each statement | `CheckStmt` and the `Check*Stmt` handlers |
| C8 Function analyzer | `semantics.cpp` 3027–3137, 1936–2066 | per function: `is_analyzing`, `analyzed`, `returns_value`, `always_returns`, `array_return` | `CheckFunctionInfo`, `CheckFunctionInfoImpl`, `CheckFunctionReturnUsage` |
| C9 Heap tracker | `semantics.cpp` 3273–3283 | the one bit `pending_heap_allocation_`; `tree_has_heap_allocs` of owning nodes | `NeedsHeapAlloc`, `AssignHeapOwnership` |
| C10 Driver | `semantics.cpp` 63–86, 2426–2483 | the entry point flag, unused-symbol reports | `Analyze`, `TestSymbols`, `TestSymbol` |

The parts interact as follows:

- The driver checks each top-level statement.
- A function declaration makes the statement checker analyse the body in a new `SemaContext`.
- Each statement handler calls `CheckStmt` on its sub-statements and the expression checker on its expressions.
- An expression that may allocate on the heap sets the pending bit. The nearest statement that takes heap ownership claims it when its analysis returns.
- A call to a function returning an array of unknown size makes the expression checker analyse that function first, recursively.
- After the walk, the driver runs `TestSymbol` on every global. That emits the unused-symbol warnings and the entry-point check, and runs the deferred `CheckFunctionReturnUsage`, which appends a synthetic return.

Behaviours hard to get right here, and hard to reach with unit tests:

- **Save/restore brackets around recursion.** `ke::SaveAndSet`, `AutoCollectSemaFlow` and `AutoEnterScope` must restore on every exit path, early `return false` included.
- **Flow.** Flow types and `always_returns` are computed bottom-up. They must be sound for every nesting of `if`, loops, `switch`, `break`, `continue` and `return`.
- **Heap ownership.** The single pending bit must end up on the right node, whatever the nesting.
- **Recursive function analysis.** Memoised analysis of mutually recursive functions that return arrays, with re-entry reported as error 411.
- **Constant folding.** 32-bit arithmetic with division by zero, `INT_MIN / -1`, and shifts of 32 or more, which are undefined behaviour in C++.

## 2. Modules

### StmtChecker (C7, C9, the body part of C8)

`StmtChecker.tla` models the analysis of one function body:

- `CheckStmt` and the handlers for blocks, `if`, `while`/`do-while`, `for`, `switch`, `return`, `break`/`continue` and simple statements (variable declarations and expression statements);
- the `SemaContext` flags, the pending heap bit, and what `CheckFunctionInfoImpl` and `CheckFunctionReturnUsage` do after the body is checked.

**How the body is represented.** The body is not enumerated up front. Each time a handler calls `CheckStmt` (variable `call`), the next action picks the statement's kind, and with it the outcomes of its expression checks (success, and whether it allocates). So a behaviour is the analysis of one body, and the reachable states cover every body within the bounds.

**Recursion.** The recursion is a stack of frames (`stack`), one per handler in progress. A handler is split at each point where it calls `CheckStmt`:

- `BlockBegin`, `BlockNext`, `BlockResume`, `BlockEnd`;
- `IfBegin`, `IfAfterTrue`, `IfAfterFalse`;
- `DoWhileBegin`, `DoWhileEnd`;
- `ForBegin`, `ForEnd`;
- `SwitchBegin`, `SwitchNext`, `SwitchResume`, `SwitchEnd`.

Each piece does everything the code does between two such calls:

- the `AutoCollectSemaFlow` save, clear, AND and restore of `always_returns`;
- the `SaveAndSet` of the loop flags and the heap bit;
- the early `return false`;
- the flow merge.

Atomic statements are single actions: `SimpleStmt`, `ReturnStmt`, `LoopControlStmt`. `ReturnStmt` runs inside the heap-ownership bracket of `CheckStmt`, so the returned expression may leave an allocation pending like any other. `FunctionEnd` copies the flags to the symbol and, for a member function, appends the synthetic return; a global's waits for the deferred check in `TestSymbol` (the Driver model).

**Expressions** are abstracted to what statements see of them:

- whether the check succeeds. Failure is possible only when `AllowErrors` is set. Every run sets it FALSE: the properties are about analyses that report no error, and on error paths ownership is knowingly lax (hazard at 2862);
- whether it calls `NeedsHeapAlloc`;
- for loop conditions, whether the value is a constant true, a constant false, or not constant.

**Undefined behaviour.** Reading the unset `Maybe<FlowType>` in `CheckSwitchStmt` yields any flow. That read happens only when every body has failed, so after an error (hazard at 2968); no run is spent on it.

**Ghost state** that judges the checker:

- `ret.out` and the frames' `acc` hold the outcomes (normal, break, continue, return) with which a statement can actually complete. They are computed from its parts by the usual rules: `Then`, `WhileOut`, `DoOut`.
- Each call carries `reach`: whether control can get to the statement.
- `heap.live` names every allocation by its site (a path in the tree), with the node that should own it. `heap.claimed` records what the last `AssignHeapOwnership` took.

`MCStmtChecker.tla` gives the bounds. `CollectBegin`, `CollectInto` and `CollectEnd` are the constructor and destructor of `AutoCollectSemaFlow`.

### FunctionAnalyzer (C8, with parts of C2)

`FunctionAnalyzer.tla` models how functions come to be analysed:

- the driver checks the function declarations in tree order (`DeclOrders`, `TopLevelDecl`);
- `CheckFunctionInfo` analyses each function once, memoised by `is_analyzing` and `is_analyzed`;
- `CheckCallExpr` meets a call to a function that returns an array whose size is not known yet. It then analyses that function first, recursively, or reports 411 if it is in progress or its analysis failed.

**Bodies.** A body is reduced to the events that matter: calls of other functions and array returns (`RetArr`). An array return attaches the hidden array symbol (`SetArrayReturn`) or fails its checks (39, 79, 90, 46, 128) and attaches nothing. A body may be declared with an array return type (`int[] f()`) whether or not it returns an array; `ArraySizeKnownAtCall` speaks only of callees whose body does, and the other case is a hazard at line 1952 with no property.

**Functions without a body.** A function may instead be a native, a forward, or a declaration missing its body, each with or without an array return type. `DeclError` and `ImplStatus` are the checks `CheckFunctionInfoImpl` makes before the body:

- 83 (native returning an array) makes the status false;
- 10 (missing body) makes the status false;
- 141 (forward returning an array) keeps it true.

**Recursion.** The analyses in progress form a stack of `[fn, pc]` frames. `impls`, `reported`, `erred` and `scalarUse` are ghost variables.

### ConstFold (C4, and part of C6)

`ConstFold.tla` models the expression checks that decide what folds, and where arrays are accepted:

- `BinaryExpr::FoldToConstant` (`FoldBinary`), the folds in `CheckUnaryExpr` (`CheckUnary`) and `CheckChainedCompareExpr` (`CheckChain`), and `Expr::EvalConst` of their operands;
- `CheckLogicalExpr` over nested `&&` / `||` (`CheckLogical`, the recursive `LogicalVal`), and `LogicalExpr::FlattenLogical` of `parse-node.cpp` (`FlattenLogical`), which the code generator runs;
- `CheckTernaryExpr` (`CheckTernary`: warnings 205/206, the two "array must be indexed" tests, the branch chosen for two arrays, `TernaryPicksRight`) and `TernaryExpr::FoldToConstant`, run afterwards as `EvalConst` (`FoldTernary`);
- assignments: `CheckBinaryExpr` on `=` and `op=` (`CheckAssign`) with `CheckAssignmentLHS` (`AssignmentLHSError`, with the const bit `SymIsConst` of a variable or of the array an element comes from) and `CheckAssignmentRHS` (`AssignmentRHS`, with `RightLength` and `ExactMatch`), which set the array copy length; the source may be a `?:` over two strings or `String` arrays, and `AssignSource` is the branch `CheckTernaryExpr` passed on;
- the value descriptor a leaf gets from `CheckSymbolExpr`, `CheckStringExpr` and `CheckArrayExpr` (`LeafVal`, `ArrayConstval`);
- `CheckSizeofExpr` (`CheckSizeof`, `SizeofResult`): errors 39/72/17 for constants, functions and undefined symbols, 111 for indexing an enum struct, 112/116/105 for a `::` or `.` field, 28 and 163 for levels past the dimensions or an unsized one, with the walk down `array_child` as the recursive `ArrayChild`. An enum struct `E` with a scalar field and a two-cell field stands for the types the declaration code (outside `src/`) builds;
- `CheckIncDecExpr` (`CheckIncDec`, `IncDecError`) on variables, const variables, elements of const and non-const arrays, and properties with or without a getter and a setter;
- calls with one argument (`CheckCall`): `CheckIndexExpr` on a constant index (`IndexVal`), then `CheckArgument` (`ArgumentResult`) for every formal kind: not yet known (first pass, 92 and go on), by value, by reference, variadic (`VarargsResult`, with the heap temporaries `NeedsHeapAlloc` sets in `pendingHeap`), array (`RefArrayResult`, with the walk down the `array_child` chain in `DimsMatch`), and a missing argument with its default; a call that runs out of arguments at a terminator formal (none or variadic) stops before `CheckArgument`. `Desc` is the `value` struct of `symbols.h`.

How the model is built:

- Cells are `CellBits` wide. C++ undefined behaviour is what the x86 build does:
  - wrapping arithmetic;
  - truncating `/` and `%`;
  - shift counts masked to the width (`Count`).
- Each behaviour checks one expression node whose operands are leaves: a tagged constant, a variable, a string literal, a literal array, a one-dimensional declared array (sized or not, packed `String` or not, index-tagged or not) or an array element; a call's argument is a variable (const or not), a constant, a computed value, a declared array of one or two dimensions, a constant index into one, a string literal or a literal array. `&&` / `||` trees nest to depth two. A nested operand of the other kinds is the same check one level down.
- The uninitialised `left` of the ternary fold is any cell.
- `SpecFold` is the reference from spec §4.3: exact integers reduced modulo 2^w, 93 for a zero divisor, 97 for `INT_MIN / -1`. `ShortCircuit` is the reference semantics of `&&` / `||`; `ChainEval` runs a flattened list.
- `char_array_cells` (outside `src/`) is `CharCells`, with 4-byte cells. `checkval_string` (outside `src/`) is taken to hold when both sides are strings, so 179 is reported exactly when one side of an array assignment is a string and the other is not.
- Tag matching (`matchtag`, `checktag`, warning 229) and `find_userop` are outside `src/` and not modelled, except that `CheckTernary` lets a `String` branch against an untagged one either pass or fail with 213, the two outcomes `matchtag_commutative` can have. A row `b[i]` of a const array is taken to be const, as `array_child` symbols are made by the parser.

### Driver (C10, with parts of C2 and C3)

`Driver.tla` models `Analyze`:

- While the tree is checked: `CheckPragmaUnusedStmt` marks symbols used, and `CheckChangeScopeNode` records each file-static scope.
- Then the error test, and `TestSymbols` over the static scopes and the globals. `SymbolScope::ForEachSymbol` visits them in any order.
- `TestSymbol` for functions and variables, with the deferred `CheckFunctionReturnUsage`.
- Error 13 when there is no entry point.

What the statement checker found out about each body (`returns_value`, `always_returns`) is an input chosen in `Init`; StmtChecker checks how it is computed.

### Types (C1)

`Types.tla` models `TypeDictionary`:

- `init`, with the reserved types in their fixed order;
- `findOrAdd` interning (`FindOrAdd`);
- `defineTag`, and the kind-setting `define*` calls (`DefineKind`);
- `clearExtendedTypes`, which runs `Type::resetPtr` on every type between passes;
- `isDeclaredButNotDefined` as an operator.

The setters (`setMethodmap`, `setEnumTag`, …) are in `types.h`, outside `src/`. They are modelled from spec §3: each records the kind, and a payload for methodmaps, enum structs, structs and function types. The ghost variables `setIn` and `lastKind` record the pass in which each kind was set and the last kind ever given.

**Refinement.** `TypeRegistry.tla` is the abstract registry that the rest of the compiler relies on (spec §4.1 and §6). It has no vector and no records, just two maps:

- `tagOf`: a name's tag, given densely in order of first use and never changed;
- `kindOf`: the name's kind in the current pass.

Its actions are `Declare`, `Define` and `NewPass`; `NewPass` forgets every kind except the built-in ones. `Types.tla` instantiates it as `Registry`: `tagOf` maps each name in `types` to its record's `value`, and `kindOf` maps it to its record's `kind`. `RegistrySpec == Registry!Spec` is checked as a property of `types_core`, so every `findOrAdd`, `define*` and `clearExtendedTypes` step is a step of the registry or leaves it unchanged.

## 3. Runs

| Run | Config | Expect | What it shows |
|---|---|---|---|
| `stmt_core` | `StmtChecker.cfg` | pass | `TypeOK`; `AlwaysReturnsSound` (an error-free analysis that sets `always_returns` is right: the body cannot fall off its end); `HeapOwnership` (each allocation, the returned expression's included, is claimed by its nearest owning node, and none is left when the analysis ends) |
| `stmt_unreachable` | `StmtCheckerUnreachable.cfg` | violation | `UnreachableWarningSound` fails: `do { if (c) continue; return 1; } while (d); x;` warns 225 on the reachable `x` |
| `cf_const_write` | `ConstFoldConstWrite.cfg` | violation | `ConstNeverWritten` fails: `s[i] = x` on an element of a `const char` array is accepted |
| `fa_core` | `FunctionAnalyzer.cfg` | pass | `ImplRunsOnce` (each `CheckFunctionInfoImpl` runs at most once, whatever the declaration order and recursion); `ArraySizeKnownAtCall` (an accepted call knows the callee's array size unless an error was already reported on the callee); `No411WithoutCycle` (411 only closes a cycle of array calls or follows a reported declaration) |
| `cf_core` | `ConstFold.cfg` | pass | `FoldMatchesSpec` (binary, unary, chained-compare and nested `&&`/`||` folds equal the spec's value, or its error 93/97, for all 4-bit operands, tags and user operators, shifts by less than the width); `FlattenKeepsShortCircuit` (the flattened `&&`/`||` list runs the same operands in the same order, with the same result, as the tree, for every value of the variables); `ArrayCopyFits` (an accepted array assignment copies the whole source, a string's terminator included, and no more cells than the destination holds); `ArgumentShapeFits` (an argument accepted for an array formal has the formal's shape, 0 being a wildcard, through rows of two-dimensional arrays; a constant index is within bounds; a string literal fits with its terminator; const arrays go only to const formals); `SizeofMatchesSpec` (`sizeof` gives the length of the dimension its `[]` levels address, 1 when all are indexed, the struct's or the field's size for an enum-struct variable, and rejects more levels than dimensions, an unsized dimension and a field of a non-struct array) |
| `cf_wide_shift` | `ConstFoldShift.cfg` | violation | a shift by the width or more keeps the operand instead of the spec's modulo result |
| `cf_ternary_capacity` | `ConstFoldTernaryCapacity.cfg` | violation | `TernaryCopyTakesEither` fails: `char dst[1]; dst = c ? "" : s` with `char s[5]` is accepted with a one-cell copy, because `CheckTernaryExpr` keeps the left branch against a declared array; when `c` is false, `s` reaches `dst` truncated and unterminated |
| `cf_array_operand` | `ConstFoldArrayOperand.cfg` | violation | `ArrayOperandsRejected` fails: `"a" ? "" : ""` is accepted with an array (a string literal) as its condition |
| `driver_core` | `Driver.cfg` | pass | `EntryPointFound` (Analyze succeeds exactly when a public or `main` function exists, in any visiting order); `UnusedReported` (203/204 exactly for the symbols spec §4.8 names, after `#pragma unused`) |
| `driver_return` | `DriverReturnSynthesized.cfg` | violation | an unused non-public `main()` gets 203 and no synthetic return |
| `types_core` | `Types.cfg` | pass | `Interned` (one tag per name, tag = index, reserved tags fixed); `NoStaleKind` (no kind or payload survives `clearExtendedTypes` except on intrinsic types); `DeclaredButNotDefinedExact` (`first_pass_kind` keeps `isDeclaredButNotDefined` right over any number of passes); `RegistrySpec` (the dictionary implements `TypeRegistry`) |

Every passing run also checks its module's `TypeOK`. Each property of a passing run has a mutant in `PROJECT.json`: a plausible bug in a mapped definition that TLC finds violating it.

**Bounds.**

| Module | Constants | Distinct states | Why they are enough |
|---|---|---|---|
| StmtChecker | `MaxDepth` 4, `MaxBlockLen` 2, `MaxCases` 1, `MaxCompound` 3, `AllowErrors` FALSE | 2,249,546 (about 25 s) | two nested compounds under the body: a loop in a loop, an `if` in a loop, a `switch` in a loop. These are the nestings in which the loop flags, the collectors and the heap brackets interact. |
| FunctionAnalyzer | 3 functions, `MaxBody` 2 | 2,341,572 with symmetry over the three functions (about 25 s) | mutual recursion of two functions plus a third caller; array return before or after a recursive call; every kind of bodiless declaration; every declaration order |
| ConstFold | `CellBits` 4; arrays of 0, 1, 4 and 5 cells or characters; string literals of 0, 3 and 4 characters | 353,101 (the violation runs stop after about 314,000) | every operand pair of a 4-bit cell, including `INT_MIN`, -1, 0 and shift counts at and beyond the width; every `&&`/`||` tree of depth two over two variables, two constants and an array; with 4-byte cells, literals that fill one cell exactly with the terminator (3 characters) and that need a second one (4 characters), against destinations of 1 and 2 cells; sized and unsized, index-tagged and untagged arrays; for calls, dimensions 0, 2 and 3 in one or two levels on both sides, so that rows, wildcards, an index equal to the length and a literal one character too long all occur; for `sizeof`, 0, 1 and 2 levels on those shapes, so every level from the outer dimension to one past the last is reached |
| Driver | 2 symbols, `NumStatic` 1 | 1,430,168 | every kind, flag and usage of two symbols, in one static scope or the globals, in both visiting orders |
| Types | 2 user names (one upper-case), `MaxPasses` 3, `MaxDefs` 2 | 25,871 | a type defined in pass 1 and left undefined through two resets, redefined with another kind, or used only as a tag |

`stmt_unreachable` uses `MaxCompound` = 4 with a state constraint that cuts off allocations.

**Fairness.** The `Spec` of StmtChecker, FunctionAnalyzer, ConstFold and Driver has weak fairness on `Next`; Types has none. The pass runs on one thread and never blocks, so an enabled step is always taken. `CHECK_DEADLOCK FALSE` is set because each model stops by design:

- StmtChecker stops once the body is analysed;
- FunctionAnalyzer and Driver stop once `Analyze` returns;
- ConstFold stops after its one check (and, for `?:`, the fold after it);
- Types stops when the passes and definitions are used up.

No run states a liveness property: every handler of the pass is a bounded walk over a finite tree, so the end is reached by construction of the model, and a property saying so would hold whatever the code did. `RegistrySpec`, the one temporal property, is a safety refinement, so no run depends on the fairness.

## 4. Findings

See `findings` in `PROJECT.json`:

- **do-while flow is unsound when the body has a `continue`.** A later reachable statement is warned unreachable.
- **`?:` never reports an array operand.** `CheckTernaryExpr` computes `left_array` and `right_array` with the same expression, so the two 33 reports can never fire. Neither `CheckTernaryExpr` nor `CheckLogicalExpr` tests the condition or an operand for being an array.
- **A character of a const array can be assigned.** `CheckAssignmentLHS` accepts an `iARRAYCHAR` left side before its const test. So `const char s[] = "abc"; s[0] = 'x';` is accepted, and so is a write through a `const char[]` argument. `CheckIncDecExpr` rejects `s[0]++` with 22, and spec §4.5 requires a non-const l-value.
- **switch reads an unset `Maybe`** when every body of a switch with a default fails its check (only after an error; modelled, no run).
- **Wide shifts.** A shift by 32 or more folds with the count masked, not with the modulo semantics the spec promises.
- **`?:` over arrays keeps the smaller array.** `CheckTernaryExpr` returns the right branch only when both branches are string literals and the right is longer. Against a declared array it keeps the left, whatever the sizes. The comment above the test and spec §4.5 both say the larger array is chosen. An assignment from such a `?:` is sized by the chosen branch and accepted, so the other branch is copied truncated.
- **The ternary fold is inverted** (spec.md already lists this as a bug). It folds only when the true branch is *not* constant, and then reads an uninitialised local. `FoldTernary` models it, but no run is spent on it.
- **Unused functions get no synthetic return.** `TestSymbol` returns before `CheckFunctionReturnUsage` for an unused function, so its body can fall off its end although `Analyze` succeeds.

The mixed-returns warning 78 fires only when the bare return comes first. This is listed as a hazard with no run: it changes a warning, not the result.

## 5. Not modelled yet, and the plan

- **Expression checker (C6)**, the largest part only partly modelled (ConstFold covers folding, `&&`/`||`, `?:`, assignments, constant indexing, `sizeof` and single-argument calls). What comes next:
  - `CheckCastExpr`, `CheckCommaExpr`, field access and call-target binding;
  - calls with several or named arguments (17, 44, 45, 58);
  - multi-dimensional arrays in assignments;
  - a `?:` with a scalar branch, or a nested `?:`, as an assignment source;
  - l-value and r-value rewriting.
- **Symbol lookup through nested scopes (C3).** `Find`, `Add` and `AddChain` are implemented in `symbols.cpp`, outside `src/`.
- **Spec §4.1 `DuplicateType`.** The spec says attaching two kinds to one name fails. `define*` in `types.cpp` just calls the setter. Whether the setter refuses is decided in `types.h`, outside `src/`, so no property judges it.
- **The spec's invariant that "a type's kind either is None or matches its payload".** It is broken at `init` by `defineFunction("Function", nullptr)`. Code that reads the payload (`kindName`) allows for this, so it is noted here and not checked.
- **Operator resolution (C5).** `find_userop` and `matchtag` are outside `src/`.

Not planned:

- Diagnostics wording and `AutoErrorPos`: no property depends on them.
- `ProcessUses`: bookkeeping outside the checked control.
- Methodmap and enum-struct lookup: pure data lookups in structures built by the parser, outside `src/`. This is why `CheckDeleteStmt` is not modelled: its outcome is the destructor of a methodmap chain. Its hazard at `semantics.cpp:2743` is listed: a whole one-dimensional array passes the `level > 0` test.
- `sizeof` with a field after as many `[]` levels as the array has dimensions. The loop has then made `subsym` null, and the suffix code dereferences it (hazard at 1859). Whether the parser builds such an expression is decided outside `src/`, so the inputs leave it out.
