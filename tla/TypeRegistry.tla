---------------------------- MODULE TypeRegistry ----------------------------
(***************************************************************************)
(* What the type registry promises the rest of the compiler (spec 4.1 and  *)
(* 6), without the vector it is stored in: every name a program uses as a  *)
(* tag is bound to one tag for the rest of the compilation, tags are       *)
(* handed out densely in order of first use, a definition gives a name a   *)
(* kind for the current pass, and a new pass forgets the kind of every     *)
(* name that is not built in.                                              *)
(***************************************************************************)
EXTENDS Integers, FiniteSets, TLC

CONSTANTS
  UserNames,  \* names a program may use as tags
  Builtin,    \* the built-in names, bound before any declaration
  BuiltinTag, \* BuiltinTag[n]: the tag of built-in name n
  BuiltinKind,\* BuiltinKind[n]: the kind of built-in name n
  Kinds       \* the kinds a name can have, "None" among them

VARIABLES
  tagOf,   \* the tag bound to each name used so far
  kindOf,  \* the kind each such name has in this pass
  pass     \* the pass the compiler is in

Init ==
  /\ tagOf = BuiltinTag
  /\ kindOf = BuiltinKind
  /\ pass = 1

\* A name not used before gets the next free tag and no kind; a name used
\* before keeps its tag and its kind.
Use(n) ==
  IF n \in DOMAIN tagOf THEN tagOf
  ELSE tagOf @@ (n :> Cardinality(DOMAIN tagOf))

UseKind(n) ==
  IF n \in DOMAIN kindOf THEN kindOf ELSE kindOf @@ (n :> "None")

\* A program uses a name as a tag, without or with a definition of its kind.
Declare(n) ==
  /\ tagOf' = Use(n)
  /\ kindOf' = UseKind(n)
  /\ UNCHANGED pass

Define(n, k) ==
  /\ tagOf' = Use(n)
  /\ kindOf' = [UseKind(n) EXCEPT ![n] = k]
  /\ UNCHANGED pass

\* A new pass: tags stay, kinds of the names that are not built in go.
NewPass ==
  /\ tagOf' = tagOf
  /\ kindOf' = [n \in DOMAIN kindOf |-> IF n \in Builtin THEN kindOf[n] ELSE "None"]
  /\ pass' = pass + 1

Next ==
  \/ \E n \in UserNames : Declare(n)
  \/ \E n \in UserNames, k \in Kinds \ {"None"} : Define(n, k)
  \/ NewPass

Spec == Init /\ [][Next]_<<tagOf, kindOf, pass>>
====
