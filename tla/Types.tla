------------------------------- MODULE Types -------------------------------
(***************************************************************************)
(* The type registry (types.cpp): TypeDictionary interns a Type per name,  *)
(* its tag being its index; init creates the reserved types in a fixed     *)
(* order and marks them intrinsic; define* attaches a kind and its payload *)
(* to a name; clearExtendedTypes runs resetPtr on every type between two   *)
(* passes, clearing the kind and payload of every non-intrinsic type and   *)
(* remembering the kind as first_pass_kind.                                *)
(***************************************************************************)
EXTENDS Integers, Sequences, FiniteSets, SequencesExt

CONSTANTS
  UserNames,   \* names the program declares types under
  Upper,       \* those starting with an upper-case letter
  MaxPasses,   \* passes the compiler runs over the same registry
  MaxDefs      \* bound on define* calls per pass

Kinds == {"None", "Enum", "EnumStruct", "Struct", "Methodmap", "Object", "Function"}

\* The reserved types of TypeDictionary::init, in order, with the kind and
\* payload and fixed bit their define* gives them.
Reserved ==
  << [name |-> "_", kind |-> "None", payload |-> FALSE, fixed |-> FALSE],
     [name |-> "bool", kind |-> "None", payload |-> FALSE, fixed |-> FALSE],
     [name |-> "any", kind |-> "None", payload |-> FALSE, fixed |-> FALSE],
     [name |-> "Function", kind |-> "Function", payload |-> FALSE, fixed |-> FALSE],
     [name |-> "String", kind |-> "None", payload |-> FALSE, fixed |-> TRUE],
     [name |-> "Float", kind |-> "None", payload |-> FALSE, fixed |-> TRUE],
     [name |-> "void", kind |-> "None", payload |-> FALSE, fixed |-> TRUE],
     [name |-> "object", kind |-> "Object", payload |-> FALSE, fixed |-> FALSE],
     [name |-> "null_t", kind |-> "Object", payload |-> FALSE, fixed |-> FALSE],
     [name |-> "nullfunc_t", kind |-> "Object", payload |-> FALSE, fixed |-> FALSE] >>

Names == UserNames \cup {Reserved[i].name : i \in DOMAIN Reserved}

VARIABLES
  types,   \* TypeDictionary::types_: the Type of tag i is types[i + 1]
  pass,    \* the pass the compiler is in
  defs,    \* define* calls made in this pass
  setIn,   \* ghost: setIn[i] is the pass in which types[i]'s kind was last set
  lastKind \* ghost: lastKind[i] is the last kind types[i] was given, "None" if none

vars == <<types, pass, defs, setIn, lastKind>>

\* The kinds whose setter stores a payload: setMethodmap, setEnumStruct,
\* setStruct and setFunction take a pointer; setEnumTag and setObject none.
HasPayload(k) == k \in {"Methodmap", "EnumStruct", "Struct", "Function"}

\* Mutant: the new type's tag counts from one.
NewTypeTagFromOne(n) ==
  [name |-> n, value |-> Len(types) + 1, kind |-> "None", first_pass_kind |-> "None",
   payload |-> FALSE, fixed |-> FALSE, intrinsic |-> FALSE]

\* The Type constructor as findOrAdd calls it: the tag is the number of
\* types so far; no kind, no payload.
NewType(n) ==
  [name |-> n, value |-> Len(types), kind |-> "None", first_pass_kind |-> "None",
   payload |-> FALSE, fixed |-> FALSE, intrinsic |-> FALSE]

\* TypeDictionary::init, with setIntrinsic on every type it created.
Init ==
  /\ types = [i \in DOMAIN Reserved |->
                [name |-> Reserved[i].name, value |-> i - 1, kind |-> Reserved[i].kind,
                 first_pass_kind |-> "None", payload |-> Reserved[i].payload,
                 fixed |-> Reserved[i].fixed, intrinsic |-> TRUE]]
  /\ pass = 1
  /\ defs = 0
  /\ setIn = [i \in DOMAIN Reserved |-> 1]
  /\ lastKind = [i \in DOMAIN Reserved |-> Reserved[i].kind]

\* The index in types of the type named n, 0 if there is none.
IndexOf(n) == IF \E i \in DOMAIN types : types[i].name = n
              THEN CHOOSE i \in DOMAIN types : types[i].name = n ELSE 0

\* Mutant: findOrAdd does not look the name up.
AddedAlways(n) == Append(types, NewType(n))

\* TypeDictionary::findOrAdd: the types after the call.
FindOrAddTypes(n) == IF IndexOf(n) /= 0 THEN types ELSE Append(types, NewType(n))

\* The index findOrAdd returns, in the types after the call.
FoundIndex(n) == IF IndexOf(n) /= 0 THEN IndexOf(n) ELSE Len(types) + 1

\* A name used as a tag without a declaration: findOrAdd alone.
FindOrAdd ==
  /\ defs < MaxDefs
  /\ \E n \in UserNames :
       /\ types' = FindOrAddTypes(n)
       /\ setIn' = IF Len(types') > Len(types) THEN Append(setIn, pass) ELSE setIn
       /\ lastKind' = IF Len(types') > Len(types) THEN Append(lastKind, "None") ELSE lastKind
  /\ defs' = defs + 1
  /\ UNCHANGED pass

\* defineTag: findOrAdd, and the fixed bit for an upper-case name.
DefineTag ==
  /\ defs < MaxDefs
  /\ \E n \in UserNames :
       LET ts == FindOrAddTypes(n) IN
       /\ types' = [ts EXCEPT ![FoundIndex(n)].fixed = @ \/ n \in Upper]
       /\ setIn' = IF Len(ts) > Len(types) THEN Append(setIn, pass) ELSE setIn
       /\ lastKind' = IF Len(ts) > Len(types) THEN Append(lastKind, "None") ELSE lastKind
  /\ defs' = defs + 1
  /\ UNCHANGED pass

\* defineEnumTag, defineMethodmap, defineEnumStruct, definePStruct,
\* defineObject and defineFunction: findOrAdd, then the setter of the kind,
\* which records its payload.
DefineKind ==
  /\ defs < MaxDefs
  /\ \E n \in UserNames, k \in Kinds \ {"None"} :
       LET ts == FindOrAddTypes(n)
           i == FoundIndex(n)
       IN /\ types' = [ts EXCEPT ![i].kind = k, ![i].payload = HasPayload(k),
                                 ![i].fixed = @ \/ (k = "Enum" /\ n \in Upper)]
          /\ setIn' = [(IF Len(ts) > Len(types) THEN Append(setIn, pass) ELSE setIn)
                         EXCEPT ![i] = pass]
          /\ lastKind' = [(IF Len(ts) > Len(types) THEN Append(lastKind, "None") ELSE lastKind)
                            EXCEPT ![i] = k]
  /\ defs' = defs + 1
  /\ UNCHANGED pass

\* Mutant: resetPtr also spares the fixed types.
KeptFixed(t) == t.intrinsic \/ t.fixed

\* Mutant: resetPtr has no early return for intrinsic types.
KeptNever(t) == FALSE

\* The early return of Type::resetPtr.
Kept(t) == t.intrinsic

\* Mutant: resetPtr records the kind even when there is none.
ResetPtrAlwaysRecords(t) ==
  IF Kept(t) THEN t
  ELSE [t EXCEPT !.first_pass_kind = t.kind, !.kind = "None", !.payload = FALSE]

\* Type::resetPtr.
ResetPtr(t) ==
  IF Kept(t) THEN t
  ELSE [t EXCEPT !.first_pass_kind = IF t.kind /= "None" THEN t.kind ELSE @,
                 !.kind = "None", !.payload = FALSE]

\* TypeDictionary::clearExtendedTypes, between two passes.
ClearExtendedTypes ==
  /\ pass < MaxPasses
  /\ types' = [i \in DOMAIN types |-> ResetPtr(types[i])]
  /\ pass' = pass + 1
  /\ defs' = 0
  /\ UNCHANGED <<setIn, lastKind>>

\* Type::isDeclaredButNotDefined.
IsDeclaredButNotDefined(t) ==
  t.kind = "None" /\ t.first_pass_kind \in {"None", "EnumStruct"}

Next == FindOrAdd \/ DefineTag \/ DefineKind \/ ClearExtendedTypes

Spec == Init /\ [][Next]_vars

(***************************************************************************)
(* Properties.                                                             *)
(***************************************************************************)
TypeRec ==
  [name : Names, value : Nat, kind : Kinds, first_pass_kind : Kinds, payload : BOOLEAN,
   fixed : BOOLEAN, intrinsic : BOOLEAN]

\* The state has the shapes the declarations above give it.
TypeOK ==
  /\ types \in Seq(TypeRec) /\ \A i \in DOMAIN types : types[i].value < Len(types)
  /\ pass \in 1..MaxPasses /\ defs \in 0..MaxDefs
  /\ DOMAIN setIn = DOMAIN types /\ DOMAIN lastKind = DOMAIN types

\* Spec 4.1: findOrAdd interns, so no two tags carry the same name; every
\* tag is its index (dense from 0); and the reserved types keep the tags
\* init gave them, intrinsic, whatever the program declares over any
\* number of passes.
Interned ==
  /\ \A i \in DOMAIN types : types[i].value = i - 1
  /\ \A i, j \in DOMAIN types : i /= j => types[i].name /= types[j].name
  /\ \A i \in DOMAIN Reserved :
       types[i].name = Reserved[i].name /\ types[i].intrinsic

\* Spec 4.1 and 6: resetPtr clears the kind and payload of every
\* non-intrinsic type between passes, so a kind a non-intrinsic type has
\* was given to it in the current pass, never left over from an earlier one.
NoStaleKind ==
  \A i \in DOMAIN types :
    /\ types[i].kind /= "None" => types[i].intrinsic \/ setIn[i] = pass
    /\ types[i].payload => HasPayload(types[i].kind)

\* resetPtr keeps the kind of the previous definition as first_pass_kind,
\* so a type not (yet) defined in this pass is "declared but not defined"
\* exactly when it was never given a kind, or was last an enum struct,
\* however many passes have gone by since it was defined.
DeclaredButNotDefinedExact ==
  \A i \in DOMAIN types :
    ~types[i].intrinsic /\ types[i].kind = "None" =>
      (IsDeclaredButNotDefined(types[i]) <=> lastKind[i] \in {"None", "EnumStruct"})

(***************************************************************************)
(* Refinement: the vector of Type records implements the registry of       *)
(* TypeRegistry, a name's tag being the value of the record carrying the   *)
(* name and its kind the record's kind.                                    *)
(***************************************************************************)
UsedNames == {types[i].name : i \in DOMAIN types}

BuiltinNames == {Reserved[i].name : i \in DOMAIN Reserved}

Registry == INSTANCE TypeRegistry WITH
  tagOf <- [n \in UsedNames |-> types[IndexOf(n)].value],
  kindOf <- [n \in UsedNames |-> types[IndexOf(n)].kind],
  Builtin <- BuiltinNames,
  BuiltinTag <- [n \in BuiltinNames |-> CHOOSE v \in 0..Len(Reserved) - 1 : Reserved[v + 1].name = n],
  BuiltinKind <- [n \in BuiltinNames |-> Reserved[CHOOSE i \in DOMAIN Reserved : Reserved[i].name = n].kind]

\* findOrAdd, the define* calls and clearExtendedTypes together keep the
\* registry's promise: a name keeps the tag its first use gave it, tags are
\* handed out densely, and a new pass forgets every kind but the built-in
\* ones (resetPtr's early return for intrinsic types and nothing else).
RegistrySpec == Registry!Spec
====
