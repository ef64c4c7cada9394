------------------------------ MODULE ConstFold ------------------------------
(***************************************************************************)
(* The constant folder of the semantic pass (semantics.cpp):               *)
(* BinaryExpr::FoldToConstant, TernaryExpr::FoldToConstant, the folding    *)
(* of unary operators in CheckUnaryExpr and of comparison chains in        *)
(* CheckChainedCompareExpr, and the checks of && / || (CheckLogicalExpr,  *)
(* with LogicalExpr::FlattenLogical of parse-node.cpp) and of ?:           *)
(* (CheckTernaryExpr) that decide what folds.  A cell is a CellBits-wide two's-complement    *)
(* integer; C++ arithmetic on it is modelled by what the x86 build does    *)
(* (wrapping, truncating division, shift counts masked to the width).      *)
(*                                                                         *)
(* One behaviour checks one expression node whose operands are leaves: a   *)
(* constant with a tag, or a non-constant (a variable).  The folding is    *)
(* compared with the integer semantics of spec section 4.3.                *)
(***************************************************************************)
EXTENDS Integers, Sequences, Bitwise

CONSTANT CellBits   \* the width of a cell (32 in the compiler)

ASSUME CellBits \in Nat \ {0}

IntMin == -(2 ^ (CellBits - 1))
IntMax == 2 ^ (CellBits - 1) - 1
Cells == IntMin..IntMax
Modulus == 2 ^ CellBits

\* Mutant: a result is not reduced to a cell.
WrapNever(x) == x

\* The cell holding the integer x modulo 2^CellBits.
Wrap(x) == ((x - IntMin) % Modulus) + IntMin

\* uint32_t(x).
Unsigned(x) == x % Modulus

AbsVal(x) == IF x < 0 THEN -x ELSE x

\* C++ / and % on int: the quotient is truncated toward zero.
Quot(a, b) == IF (a < 0) = (b < 0) THEN AbsVal(a) \div AbsVal(b)
                                   ELSE -(AbsVal(a) \div AbsVal(b))
Rem(a, b) == a - b * Quot(a, b)

\* The count an x86 shift instruction uses: the low bits of the operand.
Count(b) == Unsigned(b) % CellBits

(***************************************************************************)
(* Expressions.  Tags: 0 (untagged), an enum tag, and Float, which is      *)
(* neither 0 nor an enum.                                                  *)
(***************************************************************************)
Tags == {"untagged", "enum", "Float"}
\* A variable is an l-value; an array is not.  Arrays are string literals
\* of len characters, literal arrays {...} of n constants, and declared
\* arrays of len cells (characters when str), of one dimension, with an
\* index tag (an enum-indexed array) when idx; len 0 is an unsized array
\* argument.  An element is a cell of an array, a character when str, of
\* a const array when const.  A const variable is an l-value too.
Var == [kind |-> "var", id |-> 1]
ConstVar == [kind |-> "cvar"]
Leaves(tags) == {Var} \cup [kind : {"const"}, v : Cells, tag : tags]
StrLit(n) == [kind |-> "str", len |-> n]
DeclArray(n) == [kind |-> "arr", len |-> n, str |-> FALSE, idx |-> FALSE]
ArrayLeaves == {StrLit(0), StrLit(1), DeclArray(1), DeclArray(2)}

MaxArrLen == 5
ArrLens == {0, 1, 4, MaxArrLen}
DeclArrays == [kind : {"arr"}, len : ArrLens, str : BOOLEAN, idx : BOOLEAN]
Elements == [kind : {"elem"}, str : BOOLEAN, const : BOOLEAN]
\* The branches of a ?: assignment source: short and long string literals
\* and String arrays.
TernaryBranches ==
  {StrLit(0), StrLit(4)} \cup [kind : {"arr"}, len : {1, MaxArrLen}, str : {TRUE}, idx : {FALSE}]
AssignExprs ==
  [kind : {"assign"}, op : {"=", "+="},
   l : {Var, ConstVar} \cup Elements \cup DeclArrays,
   r : {Var, [kind |-> "const", v |-> 1, tag |-> "untagged"]}
       \cup {StrLit(n) : n \in {0, 3, 4}}
       \cup [kind : {"lit"}, n : {1, 4}] \cup DeclArrays
       \cup [kind : {"ternary"}, c : {Var}, a : TernaryBranches, b : TernaryBranches]]

\* Arguments of a call: variables (one const), a constant, a computed
\* value, declared arrays of one or two dimensions (a 0 dimension is an
\* unsized array argument being passed on), a constant index into one,
\* string literals and literal arrays; or no argument, with the formal's
\* default.  Formals: not yet known (first pass), by value, by reference,
\* variadic, and arrays of a shape.
DimLens == {0, 2, 3}
Shapes == {<<d>> : d \in DimLens} \cup (DimLens \X DimLens)
Arrs == [kind : {"darr"}, dims : Shapes, str : BOOLEAN, const : BOOLEAN]
Params ==
  {Var, ConstVar, [kind |-> "const", v |-> 1, tag |-> "untagged"], [kind |-> "expr"]}
  \cup Arrs \cup [kind : {"index"}, base : Arrs, i : {0, 2}]
  \cup {StrLit(0), StrLit(3)} \cup [kind : {"lit"}, n : {2, 3}]
Formals ==
  [kind : {"none", "variable"}] \cup [kind : {"varargs", "reference"}, const : BOOLEAN]
  \cup [kind : {"refarray"}, const : BOOLEAN, dims : Shapes, str : BOOLEAN]
CallExprs ==
  [kind : {"call"}, f : Formals, p : Params, def : {"none"}]
  \cup [kind : {"call"}, f : Formals, p : {[kind |-> "missing"]}, def : {"none", "scalar", "array"}]

\* sizeof: the operand symbol, a number of [] levels, and a field after
\* . or ::.  The enum struct E has a scalar field x and a field buf of
\* two cells, so its size is 3; a variable of type E is an array of
\* one dimension of 3 cells whose index tag is E (es).  A field suffix
\* is taken only where array_child still gives a symbol.
ESFields == [x |-> 0, buf |-> 2]
ESSize == 3
SizeofSyms ==
  {[ident |-> i, dims |-> <<>>, es |-> FALSE] : i \in {"const", "func", "undef", "var", "enumstruct"}}
  \cup [ident : {"arr"}, dims : Shapes, es : {FALSE}]
  \cup {[ident |-> "arr", dims |-> <<ESSize>>, es |-> TRUE]}
SizeofExprs ==
  {x \in [kind : {"sizeof"}, sym : SizeofSyms, levels : 0..2,
          suffix : {"none", ".", "::"}, field : {"x", "buf", "nofield"}] :
     /\ x.sym.ident \notin {"arr", "enumstruct"} => x.levels = 0 /\ x.suffix = "none"
     /\ x.sym.ident = "enumstruct" => x.suffix /= "."
     /\ x.sym.ident = "arr" /\ x.suffix /= "none" => x.levels < Len(x.sym.dims)
     /\ x.suffix = "none" => x.field = "nofield"}

\* Operands of ++ and --: variables and elements, a constant, an array,
\* and a property (an accessor) with or without a getter and a setter.
IncDecOperands ==
  {Var, ConstVar, [kind |-> "const", v |-> 1, tag |-> "untagged"], DeclArray(1)}
  \cup Elements \cup [kind : {"accessor"}, getter : BOOLEAN, setter : BOOLEAN]

ArithOps == {"*", "/", "%", "+", "-", "<<", ">>", ">>>", "&", "^", "|"}
ShiftOps == {"<<", ">>", ">>>"}
CompareOps == {"<=", ">=", ">", "<"}
ChainLen == 2
LogicalOps == {"||", "&&"}

\* Operands of && and ||: two variables, a false and a true constant, and
\* a declared array; trees nest one level on either side.
LogicalLeaves ==
  {Var, [kind |-> "var", id |-> 2], DeclArray(1)}
  \cup [kind : {"const"}, v : {0, IntMax}, tag : {"untagged"}]
LogicalNodes(xs) == [kind : {"logical"}, tok : LogicalOps, l : xs, r : xs]
LogicalTrees == LogicalNodes(LogicalLeaves \cup LogicalNodes(LogicalLeaves))

Exprs ==
  [kind : {"binary"}, op : ArithOps \cup {"="}, userop : BOOLEAN,
   l : Leaves(Tags), r : Leaves(Tags)]
  \cup [kind : {"unary"}, op : {"~", "!", "-"}, userop : BOOLEAN, e : Leaves(Tags)]
  \cup [kind : {"ternary"}, c : Leaves({"untagged"}) \cup ArrayLeaves,
        a : Leaves({"untagged"}) \cup ArrayLeaves, b : Leaves({"untagged"}) \cup ArrayLeaves]
  \cup [kind : {"chain"}, first : Leaves({"untagged"}),
        ops : [1..ChainLen -> CompareOps], rest : [1..ChainLen -> Leaves({"untagged"})]]
  \cup LogicalTrees
  \cup AssignExprs
  \cup CallExprs
  \cup SizeofExprs
  \cup [kind : {"incdec"}, x : IncDecOperands]

VARIABLES
  e,         \* the expression node being checked
  val,       \* its value descriptor: ident and constval
  reported,  \* the errors reported while folding it
  checked,   \* its check has run
  evaluated, \* EvalConst has been called on it after the check
  arrayCopyLength, \* the cells an array assignment copies
  pendingHeap \* pending_heap_allocation_: NeedsHeapAlloc was called

vars == <<e, val, reported, checked, evaluated, arrayCopyLength, pendingHeap>>

NotConst == [ident |-> "expression", constval |-> 0]
ConstVal(v) == [ident |-> "constexpr", constval |-> v]

\* Expr::EvalConst on a leaf: only a constant folds.
EvalConst(x) == x.kind = "const"

\* The value descriptor CheckExpr gives a leaf (CheckSymbolExpr for a
\* variable or an array, the literal checks for a constant or a string).
Lvalue(x) == x.kind = "var"

IsArrayVal(x) == x.kind \in {"str", "lit", "arr"}

\* Mutant: a string literal's length leaves out the terminator.
ArrayConstvalNoTerminator(x) ==
  CASE x.kind = "str" -> -x.len [] x.kind = "lit" -> x.n [] x.kind = "arr" -> 0

\* The constval of an array: minus the characters with the terminator for a
\* string literal (CheckStringExpr), the count of a literal array
\* (CheckArrayExpr), 0 for a declared array (CheckSymbolExpr).
ArrayConstval(x) ==
  CASE x.kind = "str" -> -(x.len + 1) [] x.kind = "lit" -> x.n [] x.kind = "arr" -> 0

LeafVal(x) ==
  CASE x.kind = "const" -> ConstVal(x.v)
    [] x.kind = "var"   -> [ident |-> "variable", constval |-> 0]
    [] IsArrayVal(x)    -> [ident |-> "array", constval |-> ArrayConstval(x)]

\* Mutant: an enum tag is not taken for foldable.
IsTypeBinaryConstantFoldableUntaggedOnly(t) == t = "untagged"

\* IsTypeBinaryConstantFoldable: an enum tag or tag 0.
IsTypeBinaryConstantFoldable(t) == t \in {"untagged", "enum"}

\* The two tests before / and %: error 93, then error 97, or none (0).
DivError(a, b) ==
  IF b = 0 THEN 93 ELSE IF a = IntMin /\ b = -1 THEN 97 ELSE 0

\* The switch of BinaryExpr::FoldToConstant, for operands a and b.
Arith(op, a, b) ==
  CASE op = "*"   -> Wrap(a * b)
    [] op = "/"   -> Quot(a, b)
    [] op = "%"   -> Rem(a, b)
    [] op = "+"   -> Wrap(a + b)
    [] op = "-"   -> Wrap(a - b)
    [] op = "<<"  -> Wrap(Unsigned(a) * 2 ^ Count(b))
    [] op = ">>"  -> a \div 2 ^ Count(b)
    [] op = ">>>" -> Wrap(Unsigned(a) \div 2 ^ Count(b))
    [] op = "&"   -> Wrap(Unsigned(a) & Unsigned(b))
    [] op = "^"   -> Wrap(Unsigned(a) ^^ Unsigned(b))
    [] op = "|"   -> Wrap(Unsigned(a) | Unsigned(b))

\* BinaryExpr::FoldToConstant.
FoldBinary ==
  /\ ~checked /\ e.kind = "binary"
  /\ LET foldable == /\ EvalConst(e.l) /\ EvalConst(e.r)
                     /\ e.op /= "=" /\ ~e.userop
                     /\ IsTypeBinaryConstantFoldable(e.l.tag)
                     /\ IsTypeBinaryConstantFoldable(e.r.tag)
         err == IF foldable /\ e.op \in {"/", "%"} THEN DivError(e.l.v, e.r.v) ELSE 0
     IN /\ reported' = IF err = 0 THEN {} ELSE {err}
        /\ val' = IF foldable /\ err = 0 THEN ConstVal(Arith(e.op, e.l.v, e.r.v))
                  ELSE NotConst
  /\ checked' = TRUE
  /\ UNCHANGED <<e, arrayCopyLength, pendingHeap, evaluated>>

\* The bits of a Float cell with the sign flipped: FloatCellUnion(-f).
FloatNegate(v) == Wrap(Unsigned(v) ^^ (2 ^ (CellBits - 1)))

\* The switch of CheckUnaryExpr on a checked operand.
CheckUnary ==
  /\ ~checked /\ e.kind = "unary"
  /\ val' =
       IF ~EvalConst(e.e) THEN NotConst
       ELSE CASE e.op = "~" -> ConstVal(Wrap(-e.e.v - 1))
              [] e.op = "!" -> IF e.userop THEN NotConst
                               ELSE ConstVal(IF e.e.v = 0 THEN 1 ELSE 0)
              [] e.op = "-" -> IF e.e.tag = "Float" THEN ConstVal(FloatNegate(e.e.v))
                               ELSE IF e.userop THEN NotConst
                               ELSE ConstVal(Wrap(-e.e.v))
  /\ checked' = TRUE
  /\ UNCHANGED <<e, arrayCopyLength, pendingHeap, reported, evaluated>>

\* The choice of CheckTernaryExpr between two array branches: the right
\* one only when both are literal (constval < 0) and the right is longer.
\* A declared array has constval 0, so against it the left is kept.
TernaryPicksRight(left, right) ==
  /\ left.ident = "array" /\ right.ident = "array"
  /\ left.constval < 0 /\ left.constval > right.constval

\* A string-tagged value: a string literal, or a declared array or an
\* element of the String tag.
IsString(x) == x.kind = "str" \/ (x.kind \in {"arr", "elem"} /\ x.str)

\* CheckTernaryExpr on checked operands: warnings 205/206 for a constant
\* condition, the 33 tests, and the value of the chosen branch, the longer
\* literal when both are literals.  left_array and right_array are
\* computed by the same expression, so they never differ.  Then
\* matchtag_commutative on the branch tags: equal tags pass; a String
\* branch against an untagged one is a mismatch that matchtag (outside
\* this code) may accept with a warning or reject (213, and the check fails).
CheckTernary ==
  /\ ~checked /\ e.kind = "ternary"
  /\ LET first == LeafVal(e.c)
         left == LeafVal(e.a)
         right == LeafVal(e.b)
         left_array == left.ident = "array" \/ right.ident = "refarray"
         right_array == left.ident = "array" \/ right.ident = "refarray"
         warn == IF ~Lvalue(e.c) /\ first.ident = "constexpr"
                 THEN {IF first.constval /= 0 THEN 206 ELSE 205} ELSE {}
         tagClash == IsString(e.a) /= IsString(e.b)
         chosen == IF TernaryPicksRight(left, right) THEN right ELSE left
     IN \/ /\ left_array /= right_array
           /\ reported' = warn \cup {33} /\ val' = val
        \/ /\ left_array = right_array /\ tagClash
           /\ reported' = warn \cup {213} /\ val' = val
        \/ /\ left_array = right_array
           /\ reported' = warn
           /\ val' = [chosen EXCEPT !.ident = IF @ = "array" THEN "refarray"
                                             ELSE IF @ /= "refarray" THEN "expression"
                                             ELSE @]
  /\ checked' = TRUE
  /\ UNCHANGED <<e, arrayCopyLength, pendingHeap, evaluated>>

\* EvalConst on a checked ternary: TernaryExpr::FoldToConstant.  The test
\* of the second operand is the wrong way round: the fold goes on when it
\* does not fold, and then reads the uninitialised left, which holds any
\* cell.  A fold that fails leaves the value as the check set it.
FoldTernary ==
  /\ checked /\ ~evaluated /\ e.kind = "ternary" /\ reported \cap {33, 213} = {}
  /\ IF EvalConst(e.c) /\ ~EvalConst(e.a) /\ EvalConst(e.b)
     THEN \E left \in Cells : val' = ConstVal(IF e.c.v /= 0 THEN left ELSE e.b.v)
     ELSE UNCHANGED val
  /\ evaluated' = TRUE
  /\ UNCHANGED <<e, arrayCopyLength, pendingHeap, reported, checked>>

\* CheckLogicalExpr, through CheckExpr on nested && and ||: the value of
\* tree x, bool and constant when both sides are.  Neither side is tested
\* for being an array.
RECURSIVE LogicalVal(_)
LogicalVal(x) ==
  IF x.kind /= "logical" THEN LeafVal(x)
  ELSE LET l == LogicalVal(x.l)
           r == LogicalVal(x.r)
       IN IF l.ident = "constexpr" /\ r.ident = "constexpr"
          THEN ConstVal(IF \/ x.tok = "||" /\ (l.constval /= 0 \/ r.constval /= 0)
                           \/ x.tok = "&&" /\ l.constval /= 0 /\ r.constval /= 0
                        THEN 1 ELSE 0)
          ELSE NotConst

CheckLogical ==
  /\ ~checked /\ e.kind = "logical"
  /\ val' = LogicalVal(e)
  /\ checked' = TRUE
  /\ UNCHANGED <<e, arrayCopyLength, pendingHeap, reported, evaluated>>

\* Mutant: FlattenLogical descends into the other operator too.
RECURSIVE FlattenLogicalAnyToken(_, _)
FlattenLogicalAnyToken(x, token) ==
  IF x.kind = "logical"
  THEN FlattenLogicalAnyToken(x.l, token) \o FlattenLogicalAnyToken(x.r, token)
  ELSE <<x>>

\* LogicalExpr::FlattenLogical and Expr::FlattenLogical: the operands of
\* the maximal run of token at the top of x, left to right.
RECURSIVE FlattenLogical(_, _)
FlattenLogical(x, token) ==
  IF x.kind = "logical" /\ x.tok = token
  THEN FlattenLogical(x.l, token) \o FlattenLogical(x.r, token)
  ELSE <<x>>

Compare(op, a, b) ==
  CASE op = "<=" -> a <= b [] op = ">=" -> a >= b
    [] op = ">"  -> a > b  [] op = "<"  -> a < b

\* The loop of CheckChainedCompareExpr over the operators from i on, with
\* all_const and constval so far and the left operand of step i.
RECURSIVE ChainFold(_, _, _, _)
ChainFold(i, all_const, constval, left) ==
  IF i > ChainLen THEN IF all_const THEN ConstVal(IF constval THEN 1 ELSE 0) ELSE NotConst
  ELSE LET right == e.rest[i]
           ac == all_const /\ EvalConst(right)
       IN ChainFold(i + 1, ac,
                    IF ac THEN constval /\ Compare(e.ops[i], left.v, right.v) ELSE constval,
                    right)

CheckChain ==
  /\ ~checked /\ e.kind = "chain"
  /\ val' = ChainFold(1, EvalConst(e.first), TRUE, e.first)
  /\ checked' = TRUE
  /\ UNCHANGED <<e, arrayCopyLength, pendingHeap, reported, evaluated>>

(***************************************************************************)
(* Assignments: CheckBinaryExpr on = and op=, with CheckAssignmentLHS and  *)
(* CheckAssignmentRHS.                                                     *)
(***************************************************************************)
CellBytes == 4

\* char_array_cells: the cells that hold n packed characters.
CharCells(n) == (n + CellBytes - 1) \div CellBytes

\* The is_const bit of the symbol an l-value's val.sym points at: the
\* variable, or the array an element was indexed from (CheckIndexExpr
\* keeps the base's sym).
SymIsConst(x) == x.kind = "cvar" \/ (x.kind = "elem" /\ x.const)

\* CheckAssignmentLHS: the error it reports, 0 when it accepts the left
\* side: a packed character (iARRAYCHAR) at once, a sized array without
\* an operator, or an l-value whose symbol is not const (22).  Every
\* modelled left side is an l-value or an array.
AssignmentLHSError(l, oper) ==
  CASE l.kind = "elem" /\ l.str  -> 0
    [] l.kind = "arr" /\ oper    -> 23
    [] l.kind = "arr" /\ l.len = 0 -> 46
    [] l.kind = "arr"            -> 0
    [] SymIsConst(l)             -> 22
    [] OTHER                     -> 0

\* right_length of CheckAssignmentRHS: a declared array's length, the
\* count of a literal array, minus a string literal's constval.
RightLength(r) == IF r.kind = "arr" THEN r.len ELSE AbsVal(ArrayConstval(r))

\* exact_match: sizes must be equal unless neither side has an index tag
\* (declared source) or the left has none (string literal source).
ExactMatch(l, r) ==
  CASE r.kind = "arr" -> r.idx \/ l.idx
    [] r.kind = "str" -> l.idx
    [] OTHER          -> TRUE

\* CheckAssignmentRHS: warning 226 for x = x; for an array destination
\* the source must be an array no longer than it (of the same size when
\* exact_match, and not empty), and the copy length is right_length, in
\* cells for a string; a scalar destination takes no array (6); without
\* an operator an array of the String tag takes only a string (179).
\* An element is never a destination array here: CheckIndexExpr leaves its
\* constval 0, and only a field access (not modelled) makes it more than 1.
\* Warning 229 on an index-tag mismatch is what matchtag (outside this
\* code) decides; it changes no result and is left out.
AssignmentRHS(l, r, oper) ==
  LET leftarray == l.kind = "arr"
      rl == RightLength(r)
      err == CASE leftarray /\ ~IsArrayVal(r) -> 47
               [] leftarray /\ (l.len < rl \/ (ExactMatch(l, r) /\ l.len > rl) \/ rl = 0) -> 47
               [] ~leftarray /\ IsArrayVal(r) -> 6
               [] ~oper /\ leftarray /\ IsString(l) /= IsString(r) -> 179
               [] OTHER -> 0
  IN [err |-> err, warn |-> IF l = Var /\ r = Var THEN {226} ELSE {},
      copy |-> IF leftarray /\ err = 0 THEN IF l.str THEN CharCells(rl) ELSE rl ELSE 0]

\* The array a right side stands for in CheckAssignmentRHS: a ?: over
\* arrays (CheckTernaryExpr) passes on the value, and the symbol, of the
\* branch it chose.
AssignSource(r) ==
  IF r.kind = "ternary"
  THEN IF TernaryPicksRight(LeafVal(r.a), LeafVal(r.b)) THEN r.b ELSE r.a
  ELSE r

\* CheckBinaryExpr on an assignment: the left side, then 33 for an array
\* operand of an operator, then the right side.
CheckAssign ==
  /\ ~checked /\ e.kind = "assign"
  /\ LET oper == e.op /= "="
         lhs == AssignmentLHSError(e.l, oper)
         src == AssignSource(e.r)
         rhs == AssignmentRHS(e.l, src, oper)
     IN CASE lhs /= 0 ->
               reported' = {lhs} /\ arrayCopyLength' = 0
          [] oper /\ (e.l.kind = "arr" \/ IsArrayVal(src)) ->
               reported' = {33} /\ arrayCopyLength' = 0
          [] OTHER ->
               /\ reported' = rhs.warn \cup (IF rhs.err /= 0 THEN {rhs.err} ELSE {})
               /\ arrayCopyLength' = rhs.copy
  /\ val' = NotConst
  /\ checked' = TRUE
  /\ UNCHANGED <<e, evaluated, pendingHeap>>

\* CheckIncDecExpr after CheckExpr on the operand: 22 for a non-l-value
\* or a const symbol; for a property, 152 without a setter, then 149
\* without a getter.
IncDecError(x) ==
  CASE x.kind \notin {"var", "cvar", "elem", "accessor"} -> 22
    [] x.kind = "accessor" /\ ~x.setter -> 152
    [] x.kind = "accessor" /\ ~x.getter -> 149
    [] x.kind /= "accessor" /\ SymIsConst(x) -> 22
    [] OTHER -> 0

CheckIncDec ==
  /\ ~checked /\ e.kind = "incdec"
  /\ reported' = LET c == IncDecError(e.x) IN IF c /= 0 THEN {c} ELSE {}
  /\ val' = IF IncDecError(e.x) = 0 THEN NotConst ELSE val
  /\ checked' = TRUE
  /\ UNCHANGED <<e, evaluated, arrayCopyLength, pendingHeap>>

(***************************************************************************)
(* Calls: CheckArgument on one argument, checked first by CheckExpr        *)
(* (CheckIndexExpr for an indexed array).                                  *)
(***************************************************************************)
\* The value descriptor of an argument: ident, l-value, whether it has a
\* symbol and the symbol's const bit, dimensions and String tag, and the
\* constval; or the error of its check.
Desc(ident, lv, sym, const, dims, cv, str) ==
  [err |-> 0, ident |-> ident, lvalue |-> lv, sym |-> sym, const |-> const,
   dims |-> dims, constval |-> cv, str |-> str]

\* Mutant: a constant index equal to the length is taken.
IndexValPastEnd(b, i) ==
  IF i < 0 \/ (b.dims[1] /= 0 /\ b.dims[1] < i) THEN [err |-> 32]
  ELSE IF Len(b.dims) > 1 THEN Desc("refarray", FALSE, TRUE, b.const, Tail(b.dims), 0, b.str)
  ELSE Desc(IF b.str THEN "arraychar" ELSE "arraycell", TRUE, TRUE, b.const, b.dims, 0, b.str)

\* CheckIndexExpr on b[i] for a constant i: 32 out of bounds (a length of
\* 0 is not checked); the sub-array (array_child) of a higher-dimensional
\* base; else a character of a String array or a cell, an l-value.
IndexVal(b, i) ==
  IF i < 0 \/ (b.dims[1] /= 0 /\ b.dims[1] <= i) THEN [err |-> 32]
  ELSE IF Len(b.dims) > 1 THEN Desc("refarray", FALSE, TRUE, b.const, Tail(b.dims), 0, b.str)
  ELSE Desc(IF b.str THEN "arraychar" ELSE "arraycell", TRUE, TRUE, b.const, b.dims, 0, b.str)

ArgVal(p) ==
  CASE p.kind = "var"   -> Desc("variable", TRUE, TRUE, FALSE, <<>>, 0, FALSE)
    [] p.kind = "cvar"  -> Desc("variable", TRUE, TRUE, TRUE, <<>>, 0, FALSE)
    [] p.kind = "const" -> Desc("constexpr", FALSE, FALSE, FALSE, <<>>, p.v, FALSE)
    [] p.kind = "expr"  -> Desc("expression", FALSE, FALSE, FALSE, <<>>, 0, FALSE)
    [] p.kind = "darr"  -> Desc("array", FALSE, TRUE, p.const, p.dims, 0, p.str)
    [] p.kind = "index" -> IndexVal(p.base, p.i)
    [] p.kind = "str"   -> Desc("array", FALSE, FALSE, FALSE, <<>>, ArrayConstval(p), TRUE)
    [] p.kind = "lit"   -> Desc("array", FALSE, FALSE, FALSE, <<>>, ArrayConstval(p), FALSE)

\* The outcome of CheckArgument: the codes reported, whether it returns
\* true, and whether it called NeedsHeapAlloc.
Fail(code) == [codes |-> {code}, ok |-> FALSE, heap |-> FALSE]
Pass(heap) == [codes |-> {}, ok |-> TRUE, heap |-> heap]

\* The walk of CheckArgument down the symbol's array_child chain: every
\* dimension the formal sizes must have that length.
RECURSIVE DimsMatch(_, _, _)
DimsMatch(dims, fdims, level) ==
  /\ fdims[level] = 0 \/ dims[level] = fdims[level]
  /\ level < Len(dims) => DimsMatch(dims, fdims, level + 1)

\* The iVARARGS case: always by reference, so a const variable for a
\* non-const formal, a variable that is not an l-value, and a constant
\* or computed value get a heap temporary.
VarargsResult(f, v) ==
  CASE v.ident = "variable" /\ v.const /\ ~f.const ->
         IF v.lvalue THEN Pass(TRUE) ELSE Fail(22)
    [] v.ident = "variable" -> Pass(~v.lvalue)
    [] v.ident \in {"constexpr", "expression"} -> Pass(TRUE)
    [] OTHER -> Pass(FALSE)

\* The iREFARRAY case.  A value without a symbol (a literal) or a cell
\* counts as one dimension of length constval: a cell (constval 0) only
\* for an unsized formal, a literal array of exactly the formal's size,
\* a string literal of at most that many characters.  A symbol must have
\* the formal's number of dimensions and their lengths.  Then String
\* against non-String (178).
RefArrayResult(f, v) ==
  LET single == ~v.sym \/ v.ident \in {"arraycell", "arraychar"} IN
  CASE v.ident \notin {"array", "refarray", "arraycell", "arraychar"} -> Fail(35)
    [] v.sym /\ v.const /\ ~f.const -> Fail(35)
    [] single /\ Len(f.dims) /= 1 -> Fail(48)
    [] single /\ f.dims[1] /= 0 /\
         \/ v.constval = 0
         \/ v.ident = "arraycell" /\ f.dims[1] /= v.constval
         \/ v.ident /= "arraycell" /\ v.constval > 0 /\ f.dims[1] /= v.constval
         \/ v.ident /= "arraycell" /\ v.constval < 0 /\ f.dims[1] < -v.constval -> Fail(47)
    [] ~single /\ Len(v.dims) /= Len(f.dims) -> Fail(48)
    [] ~single /\ ~DimsMatch(v.dims, f.dims, 1) -> Fail(47)
    [] f.str /= v.str -> Fail(178)
    [] OTHER -> Pass(FALSE)

\* Semantics::CheckArgument for formal f and argument p (or the default
\* of f when p is missing).  A formal not known yet reports 92 and goes on.
\* CheckCallExpr stops filling defaults at a terminator formal (none or
\* varargs), so a call that stops there never reaches CheckArgument.
ArgumentResult(f, p, def) ==
  IF p.kind = "missing"
  THEN CASE f.kind \in {"none", "varargs"} -> Pass(FALSE)
         [] def = "none" -> Fail(34)
         [] OTHER -> Pass(f.kind = "reference" \/ (f.kind = "refarray" /\ ~f.const /\ def = "array"))
  ELSE LET v == ArgVal(p) IN
       CASE v.err /= 0 -> Fail(v.err)
         [] f.kind = "none" -> [codes |-> {92}, ok |-> TRUE, heap |-> FALSE]
         [] f.kind = "varargs" -> VarargsResult(f, v)
         [] f.kind = "variable" ->
              IF v.ident \in {"array", "refarray"} THEN Fail(35) ELSE Pass(FALSE)
         [] f.kind = "reference" ->
              IF ~v.lvalue \/ v.ident = "arraychar" \/ (v.sym /\ v.const /\ ~f.const)
              THEN Fail(35) ELSE Pass(FALSE)
         [] f.kind = "refarray" -> RefArrayResult(f, v)

\* CheckCallExpr on a call with one argument, as far as CheckArgument
\* goes: the codes it reports and the heap bit NeedsHeapAlloc sets.
CheckCall ==
  /\ ~checked /\ e.kind = "call"
  /\ LET r == ArgumentResult(e.f, e.p, e.def) IN
       /\ reported' = r.codes
       /\ pendingHeap' = (pendingHeap \/ r.heap)
  /\ val' = NotConst
  /\ checked' = TRUE
  /\ UNCHANGED <<e, evaluated, arrayCopyLength>>

(***************************************************************************)
(* sizeof: CheckSizeofExpr.                                                *)
(***************************************************************************)
\* The symbol array_child reaches after k levels: the dimensions below.
RECURSIVE ArrayChild(_, _)
ArrayChild(dims, k) == IF k = 0 THEN dims ELSE ArrayChild(Tail(dims), k - 1)

\* The field lookup of FindEnumStructField and the size a field gives:
\* its array length, or the 1 already in val for a scalar field.
FieldSize(f) == IF ESFields[f] /= 0 THEN ESFields[f] ELSE 1

\* Mutant: the last level is taken as past the dimensions.
SizeofResultLastLevel(x) ==
  LET s == x.sym
      k == x.levels
      n == Len(s.dims)
      Err(c) == [err |-> c, v |-> 1]
      Ok(v) == [err |-> 0, v |-> v]
  IN CASE s.ident = "const" -> Err(39)
       [] s.ident = "func" -> Err(72)
       [] s.ident = "undef" -> Err(17)
       [] s.ident \notin {"arr", "enumstruct"} -> Ok(1)
       [] k > 0 /\ (s.ident = "enumstruct" \/ s.es) -> Err(111)
       [] x.suffix = "::" /\ ~(s.ident = "enumstruct" /\ k = 0) -> Err(112)
       [] x.suffix = "." /\ ~(s.es /\ k = 0) -> Err(116)
       [] x.suffix /= "none" /\ x.field \notin DOMAIN ESFields -> Err(105)
       [] x.suffix /= "none" -> Ok(FieldSize(x.field))
       [] s.ident = "enumstruct" -> Ok(ESSize)
       [] k >= n -> Err(28)
       [] k /= n /\ Head(ArrayChild(s.dims, k)) = 0 -> Err(163)
       [] k /= n -> Ok(Head(ArrayChild(s.dims, k)))
       [] OTHER -> Ok(1)

\* CheckSizeofExpr: 39, 72 and 17 for a constant, a function and an
\* undefined symbol; 1 for any other non-array.  Indexing an enum struct,
\* or an array whose index tag (of the symbol itself, at every level) is
\* an enum struct, is 111; :: needs an enum struct (112), . an array of
\* one (116), and the field must exist (105).  A bare enum struct gives
\* its size; more levels than dimensions are 28; an inner dimension its
\* length, 163 when unsized; the last level one cell.
SizeofResult(x) ==
  LET s == x.sym
      k == x.levels
      n == Len(s.dims)
      Err(c) == [err |-> c, v |-> 1]
      Ok(v) == [err |-> 0, v |-> v]
  IN CASE s.ident = "const" -> Err(39)
       [] s.ident = "func" -> Err(72)
       [] s.ident = "undef" -> Err(17)
       [] s.ident \notin {"arr", "enumstruct"} -> Ok(1)
       [] k > 0 /\ (s.ident = "enumstruct" \/ s.es) -> Err(111)
       [] x.suffix = "::" /\ ~(s.ident = "enumstruct" /\ k = 0) -> Err(112)
       [] x.suffix = "." /\ ~(s.es /\ k = 0) -> Err(116)
       [] x.suffix /= "none" /\ x.field \notin DOMAIN ESFields -> Err(105)
       [] x.suffix /= "none" -> Ok(FieldSize(x.field))
       [] s.ident = "enumstruct" -> Ok(ESSize)
       [] k > n -> Err(28)
       [] k /= n /\ Head(ArrayChild(s.dims, k)) = 0 -> Err(163)
       [] k /= n -> Ok(Head(ArrayChild(s.dims, k)))
       [] OTHER -> Ok(1)

CheckSizeof ==
  /\ ~checked /\ e.kind = "sizeof"
  /\ LET r == SizeofResult(e) IN
       /\ reported' = IF r.err /= 0 THEN {r.err} ELSE {}
       /\ val' = IF r.err \in {39, 72, 17} THEN val ELSE ConstVal(r.v)
  /\ checked' = TRUE
  /\ UNCHANGED <<e, evaluated, arrayCopyLength, pendingHeap>>

Init ==
  /\ e \in Exprs
  /\ val = NotConst
  /\ reported = {}
  /\ checked = FALSE
  /\ evaluated = FALSE
  /\ arrayCopyLength = 0
  /\ pendingHeap = FALSE

Next == FoldBinary \/ CheckUnary \/ CheckTernary \/ FoldTernary \/ CheckChain \/ CheckLogical
        \/ CheckAssign \/ CheckCall \/ CheckSizeof \/ CheckIncDec

\* One node is checked and the check stops.
Spec == Init /\ [][Next]_vars /\ WF_vars(Next)

(***************************************************************************)
(* The integer semantics of spec 4.3, as mathematics: each result is the   *)
(* exact value reduced modulo 2^CellBits; / and % fail with 93 (divisor 0) *)
(* or 97 (INT_MIN / -1); >> is signed, >>> unsigned, both by the exact     *)
(* count.  Negating a Float flips its sign bit.                            *)
(***************************************************************************)
\* A bitwise operator of Bitwise on the two's-complement residues.
OnResidues(r) == Wrap(r)

\* The spec does not fold the node (err -1); 0 is a fold, 93 and 97 errors.
NoFold == [err |-> -1]

SpecBinary(op, a, b) ==
  CASE op \in {"/", "%"} /\ b = 0                -> [err |-> 93]
    [] op \in {"/", "%"} /\ a = IntMin /\ b = -1  -> [err |-> 97]
    [] OTHER ->
       LET q == IF a * b >= 0 THEN AbsVal(a) \div AbsVal(b) ELSE -(AbsVal(a) \div AbsVal(b))
       IN [err |-> 0, v |->
            CASE op = "*" -> Wrap(a * b)
              [] op = "/" -> Wrap(q)
              [] op = "%" -> Wrap(a - q * b)
              [] op = "+" -> Wrap(a + b)
              [] op = "-" -> Wrap(a - b)
              [] op = "<<" -> Wrap(a * 2 ^ b)
              [] op = ">>" -> a \div 2 ^ b
              [] op = ">>>" -> Wrap(Unsigned(a) \div 2 ^ b)
              [] op = "&" -> OnResidues(Unsigned(a) & Unsigned(b))
              [] op = "|" -> OnResidues(Unsigned(a) | Unsigned(b))
              [] op = "^" -> OnResidues(Unsigned(a) ^^ Unsigned(b))]

\* The leaves of an && / || tree.
RECURSIVE TreeLeaves(_)
TreeLeaves(x) == IF x.kind = "logical" THEN TreeLeaves(x.l) \cup TreeLeaves(x.r) ELSE {x}

\* The truth of a leaf when the variables have the values env; an array
\* is an address, never zero.
Truth(x, env) ==
  CASE x.kind = "const" -> x.v /= 0
    [] x.kind = "var"   -> env[x.id]
    [] IsArrayVal(x)    -> TRUE

\* The short-circuit semantics of && and ||: the truth of tree x and the
\* leaves evaluated, in order.
RECURSIVE ShortCircuit(_, _)
ShortCircuit(x, env) ==
  IF x.kind /= "logical" THEN [val |-> Truth(x, env), trace |-> <<x>>]
  ELSE LET a == ShortCircuit(x.l, env) IN
       IF a.val = (x.tok = "||") THEN a
       ELSE LET b == ShortCircuit(x.r, env) IN [val |-> b.val, trace |-> a.trace \o b.trace]

\* How a flattened chain is run: operand by operand, each one by its own
\* short-circuit semantics, leaving at the first that decides the result.
RECURSIVE ChainEval(_, _, _)
ChainEval(xs, token, env) ==
  IF xs = <<>> THEN [val |-> token = "&&", trace |-> <<>>]
  ELSE LET a == ShortCircuit(Head(xs), env) IN
       IF a.val = (token = "||") THEN a
       ELSE LET b == ChainEval(Tail(xs), token, env) IN
            [val |-> b.val, trace |-> a.trace \o b.trace]

\* What the spec makes of the node: not constant, an error, or a value.
SpecFold ==
  CASE e.kind = "binary" ->
         IF /\ EvalConst(e.l) /\ EvalConst(e.r) /\ e.op /= "=" /\ ~e.userop
            /\ e.l.tag \in {"untagged", "enum"} /\ e.r.tag \in {"untagged", "enum"}
         THEN SpecBinary(e.op, e.l.v, e.r.v) ELSE NoFold
    [] e.kind = "unary" ->
         IF \/ ~EvalConst(e.e)
            \/ e.userop /\ e.op \in {"!", "-"} /\ ~(e.op = "-" /\ e.e.tag = "Float")
         THEN NoFold
         ELSE [err |-> 0, v |->
                CASE e.op = "~" -> OnResidues(Unsigned(e.e.v) ^^ (Modulus - 1))
                  [] e.op = "!" -> IF e.e.v = 0 THEN 1 ELSE 0
                  [] e.op = "-" -> IF e.e.tag = "Float" THEN Wrap(e.e.v - IntMin)
                                   ELSE Wrap(-e.e.v)]
    [] e.kind = "ternary" ->
         IF EvalConst(e.c) /\ EvalConst(e.a) /\ EvalConst(e.b)
         THEN [err |-> 0, v |-> IF e.c.v /= 0 THEN e.a.v ELSE e.b.v]
         ELSE NoFold
    [] e.kind = "logical" ->
         IF \A x \in TreeLeaves(e) : EvalConst(x)
         THEN [err |-> 0, v |-> IF ShortCircuit(e, [i \in {1, 2} |-> FALSE]).val THEN 1 ELSE 0]
         ELSE NoFold
    [] e.kind = "chain" ->
         LET xs == <<e.first>> \o [i \in 1..ChainLen |-> e.rest[i]] IN
         IF \A i \in 1..ChainLen + 1 : EvalConst(xs[i])
         THEN [err |-> 0, v |->
                IF \A i \in 1..ChainLen : Compare(e.ops[i], xs[i].v, xs[i + 1].v)
                THEN 1 ELSE 0]
         ELSE NoFold

\* The check agrees with the spec's folding of the node.
AgreesWithSpec ==
  LET s == SpecFold IN
  CASE s.err = NoFold.err -> val = NotConst /\ reported = {}
    [] s.err = 0      -> val = ConstVal(s.v) /\ reported = {}
    [] OTHER          -> val = NotConst /\ reported = {s.err}

\* A shift whose count lies outside 0..CellBits-1 (negative counts have
\* no meaning in the spec).
WideShift ==
  e.kind = "binary" /\ e.op \in ShiftOps /\ e.r.kind = "const" /\ e.r.v \notin 0..CellBits - 1

(***************************************************************************)
(* Properties.                                                             *)
(***************************************************************************)
\* The state has the shapes the declarations above give it.
TypeOK ==
  /\ e \in Exprs
  /\ val \in [ident : {"constexpr", "expression", "refarray"}, constval : Cells]
  /\ reported \subseteq {6, 17, 22, 23, 28, 32, 33, 34, 35, 39, 46, 47, 48, 72, 92, 93, 97, 213,
                         105, 111, 112, 116, 149, 152, 163, 178, 179, 205, 206, 226}
  /\ checked \in BOOLEAN /\ evaluated \in BOOLEAN
  /\ arrayCopyLength \in 0..MaxArrLen
  /\ pendingHeap \in BOOLEAN

\* BinaryExpr::FoldToConstant, CheckUnaryExpr, CheckChainedCompareExpr
\* and CheckLogicalExpr (through nested && and ||) fold exactly the nodes
\* the spec folds, to the spec's 32-bit value, and report 93 and 97
\* exactly where it fails; shifts by a count within the width included.
FoldMatchesSpec ==
  checked /\ e.kind \in {"binary", "unary", "chain", "logical"} /\ ~WideShift =>
    AgreesWithSpec

\* BinaryExpr::FoldToConstant folds a shift by a count of at least the
\* width as the spec's modulo-2^32 shift.
ShiftFoldMatchesSpec ==
  checked /\ WideShift /\ e.r.v >= 0 => AgreesWithSpec

\* The code generator runs a || or && node as the list FlattenLogical
\* makes of it, operand by operand, leaving at the first operand that
\* decides.  For every value of the variables and every nesting of the
\* other operator, that runs the same operands in the same order and
\* gives the same truth as the short-circuit semantics of the tree.
FlattenKeepsShortCircuit ==
  e.kind = "logical" =>
    \A env \in [{1, 2} -> BOOLEAN] :
      ChainEval(FlattenLogical(e, e.tok), e.tok, env) = ShortCircuit(e, env)

\* Spec 4.5: the operands of && and ||, and the condition of ?:, must be
\* scalar, and the branches of ?: both arrays or both scalars ("array must
\* be indexed", 33).  A check of such a node that succeeds has none of its
\* operands an array where a scalar is needed.
ArrayOperandsRejected ==
  checked /\ 33 \notin reported =>
    /\ e.kind = "logical" => \A x \in TreeLeaves(e) : ~IsArrayVal(x)
    /\ e.kind = "ternary" =>
         /\ ~IsArrayVal(e.c)
         /\ IsArrayVal(e.a) = IsArrayVal(e.b)
\* The cells a source array holds: a string literal its characters and
\* the terminator, packed; a declared array its length, packed for a
\* string; a literal array its count.  And the cells of a destination.
SourceCells(r) ==
  CASE r.kind = "str" -> CharCells(r.len + 1)
    [] r.kind = "lit" -> r.n
    [] r.kind = "arr" -> IF r.str THEN CharCells(r.len) ELSE r.len
CapacityCells(l) == IF l.str THEN CharCells(l.len) ELSE l.len

\* Spec 4.5 (array assignment copies whole arrays of matching shape): an
\* array assignment CheckAssignmentRHS accepts copies the whole source,
\* a string's terminator included, and no more cells than the
\* destination holds, whatever the mix of string literals, literal
\* arrays, declared and index-tagged arrays, and characters and cells.
ArrayCopyFits ==
  checked /\ e.kind = "assign" /\ e.l.kind = "arr" /\ e.r.kind /= "ternary"
  /\ reported \subseteq {226} =>
    /\ arrayCopyLength = SourceCells(e.r)
    /\ arrayCopyLength <= CapacityCells(e.l)
\* CheckTernaryExpr ("If both sides are arrays, we should return the
\* maximal as the lvalue. Otherwise we could buffer overflow") and spec
\* 4.5: of two array branches the larger is chosen.  So an assignment
\* dst = c ? a : b that is accepted copies at least the whole of either
\* branch, whichever the condition selects at run time, and no string
\* reaches dst truncated, without its terminator.
TernaryCopyTakesEither ==
  checked /\ e.kind = "assign" /\ e.l.kind = "arr" /\ e.r.kind = "ternary"
  /\ reported \subseteq {226} =>
    \A x \in {e.r.a, e.r.b} : arrayCopyLength >= SourceCells(x)

\* A formal of shape P takes an array of dimensions D when both have as
\* many dimensions and every sized dimension of P has D's length.
ShapeFits(D, P) == Len(D) = Len(P) /\ \A k \in 1..Len(P) : P[k] = 0 \/ P[k] = D[k]

\* Spec 4.5: the left side of an assignment must be a non-const l-value,
\* and CheckIncDecExpr holds ++ and -- to the same (22).  So no
\* assignment or ++/-- that checks without an error writes a const
\* variable or an element of a const array, a character of a const
\* String array (a const char[] argument) included.
ConstNeverWritten ==
  checked /\ reported \subseteq {226} =>
    /\ e.kind = "assign" => ~SymIsConst(e.l)
    /\ e.kind = "incdec" => ~SymIsConst(e.x)

\* Spec 4.5, sizeof: the result is the length of the dimension the []
\* levels address, or 1 (a cell) when every dimension is indexed; more
\* levels than dimensions, or an unsized addressed dimension, have no
\* size.  Indexing into an enum struct is forbidden, and a field after .
\* resolves in the enum struct, giving the field's length (1 for a
\* scalar field), while the bare variable gives the struct's size.  A
\* field of an array that is not an enum struct is rejected.  For every
\* shape of one or two dimensions, sized or not, CheckSizeofExpr, with
\* its walk down array_child, agrees.
SizeofMatchesSpec ==
  checked /\ e.kind = "sizeof" /\ e.sym.ident = "arr" =>
    LET d == e.sym.dims
        k == e.levels
        ok == reported = {}
    IN /\ ~e.sym.es /\ e.suffix = "none" /\ k < Len(d) =>
            (ok <=> d[k + 1] > 0) /\ (ok => val.constval = d[k + 1])
       /\ ~e.sym.es /\ e.suffix = "none" /\ k >= Len(d) =>
            (ok <=> k = Len(d)) /\ (ok => val.constval = 1)
       /\ ~e.sym.es /\ e.suffix /= "none" => ~ok
       /\ e.sym.es =>
            /\ ok <=> k = 0 /\ (e.suffix = "none" \/ (e.suffix = "." /\ e.field \in {"x", "buf"}))
            /\ ok /\ e.suffix = "none" => val.constval = ESSize
            /\ ok /\ e.suffix = "." => val.constval = IF e.field = "x" THEN 1 ELSE 2

\* Spec 4.5, calls: a RefArray formal requires shape equality, 0-size
\* dimensions being wildcards, and rejects string/non-string confusion.
\* An argument CheckArgument accepts for an array formal is: a declared
\* array of the formal's shape; a row b[i] of a higher-dimensional array,
\* i within b's first dimension, of the formal's shape; a cell or
\* character b[i] within b, for an unsized formal; a literal array of the
\* formal's size; a string literal that fits, terminator included.  A
\* const array goes only to a const formal.
ArgumentShapeFits ==
  checked /\ e.kind = "call" /\ e.f.kind = "refarray" /\ e.p.kind /= "missing"
  /\ reported = {} =>
    LET P == e.f.dims
        p == e.p
    IN CASE p.kind = "darr" ->
              ShapeFits(p.dims, P) /\ (p.const => e.f.const) /\ p.str = e.f.str
         [] p.kind = "index" ->
              /\ p.base.dims[1] /= 0 => p.i < p.base.dims[1]
              /\ IF Len(p.base.dims) > 1 THEN ShapeFits(Tail(p.base.dims), P) ELSE P = <<0>>
              /\ p.base.const => e.f.const
              /\ p.base.str = e.f.str
         [] p.kind = "str" -> Len(P) = 1 /\ (P[1] = 0 \/ P[1] >= p.len + 1) /\ e.f.str
         [] p.kind = "lit" -> P \in {<<0>>, <<p.n>>} /\ ~e.f.str
         [] OTHER -> FALSE
====
