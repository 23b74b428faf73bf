-------------------------------- MODULE Types --------------------------------
(***************************************************************************)
(* The types of a program and what the compiler asks of them.               *)
(*                                                                         *)
(* TypeContext interns: two types are equal when they are the same object.  *)
(* Here a type is a record that says how it is built, so that equal means   *)
(* equal.  What a class or union consists of is not part of its type but of *)
(* the state (records), as it is filled in while the program is read.       *)
(* Only const can be written in a program, not atomic and volatile.         *)
(***************************************************************************)
EXTENDS Primitives, Sequences, SequencesExt

CONSTANTS Classes, Unions,   \* the names of user types, ...
          Members,           \* ... of their members
          Enums,             \* enums with their underlying types
          Reps,              \* the types that represent unions: one or none
          SizeType           \* the unsigned integer as wide as a pointer

Records == Classes \cup Unions

-----------------------------------------------------------------------------
Type(kind, name, of, n) ==
  [kind |-> kind, name |-> name, of |-> of, n |-> n, const |-> FALSE]

Void        == Type("void", "", << >>, 0)
Prim(p)     == Type("prim", p, << >>, 0)
Enum(e)     == Type("enum", e, << >>, 0)
Record(r)   == Type(IF r \in Classes THEN "class" ELSE "union", r, << >>, 0)
Pointer(t)  == Type("pointer", "", << t >>, 0)
Array(t, n) == Type("array", "", << t >>, n)
Unsized(t)  == Array(t, 0)
Function(ret, params) == Type("function", "", << ret >> \o params, 0)

Base(t)   == t.of[1]
Const(t)  == [t EXCEPT !.const = TRUE]
Unqual(t) == [t EXCEPT !.const = FALSE]

Bool == Prim("bool")

-----------------------------------------------------------------------------
VARIABLE records   \* what the classes and unions consist of

Nothing  == [complete |-> FALSE, defining |-> FALSE,
             parent |-> << >>, members |-> << >>]

HasParent(r) == records[r].parent # << >>
Parent(r)    == records[r].parent[1]

IsRecord(t)  == t.kind \in {"class", "union"}

RECURSIVE Ancestors(_), Offset(_), NumMembers(_)
Ancestors(r) ==
  IF HasParent(r) THEN {Parent(r)} \cup Ancestors(Parent(r)) ELSE {}

OffsetOfParent(r) == IF HasParent(r) THEN Len(records[Parent(r)].members) ELSE 0

\* Where the indexes of a class start: behind the members of its parents.
Offset(r) ==
  IF HasParent(r) THEN Offset(Parent(r)) + Len(records[Parent(r)].members) ELSE 0

NumMembers(r) ==
  Len(records[r].members) + IF HasParent(r) THEN NumMembers(Parent(r)) ELSE 0

-----------------------------------------------------------------------------
(* What a type can be used for.                                            *)

RECURSIVE IsComplete(_), EffectiveType(_), TrueBase(_), Nesting(_)
IsCompleteIfSized(t) ==
  CASE t.kind = "array" -> t.n # 0
    [] IsRecord(t)      -> records[t.name].complete
    [] OTHER -> t.kind \in {"prim", "enum", "pointer"}

IsComplete(t) ==
  CASE t.kind \in {"prim", "enum", "pointer"} -> TRUE
    [] t.kind \in {"void", "function"}        -> FALSE
    [] t.kind = "array" -> t.n # 0 /\ IsComplete(Base(t))
    [] IsRecord(t)      -> records[t.name].complete

IsAssignable(t) == ~t.const /\ t.kind \notin {"void", "array", "function"}
IsSubscriptable(t) == t.kind \in {"pointer", "array"}
IsBoolable(t) == \/ t.kind \in {"prim", "enum", "pointer"}
                 \/ t.kind = "union" /\ Reps[t.name] # << >>
IsIntegral(t) == t.kind = "prim" /\ t.name \in Ints

\* The type a value of t is handled by: that of an enum is its underlying
\* type and that of a union the type that represents it.
EffectiveType(t) ==
  LET e == CASE t.kind = "enum"  -> Prim(Enums[t.name])
             [] t.kind = "union" /\ Reps[t.name] # << >> -> Prim(Reps[t.name][1])
             [] t.kind \in {"pointer", "array"} ->
                  [Unqual(t) EXCEPT !.of = << EffectiveType(Base(t)) >>]
             [] OTHER -> t
  IN  IF t.const THEN Const(e) ELSE e

TrueBase(t) == IF t.kind = "pointer" THEN TrueBase(Base(t)) ELSE t
Nesting(t)  == IF t.kind = "pointer" THEN 1 + Nesting(Base(t)) ELSE 0

IsCallable(t) == \/ t.kind = "function"
                 \/ t.kind = "pointer" /\ Base(t).kind = "function"

Decay(t) == CASE t.kind = "array"    -> Pointer(Base(t))
              [] t.kind = "function" -> Pointer(Unqual(t))
              [] OTHER -> t

\* A signature takes its parameters decayed.
FunctionType(ret, params) ==
  Function(ret, [i \in DOMAIN params |-> Decay(params[i])])

-----------------------------------------------------------------------------
(* Conversions.                                                            *)

PrimCoercible(p, d) ==
  /\ d.kind \in {"prim", "enum"}
  /\ LET q == IF d.kind = "enum" THEN Enums[d.name] ELSE d.name
     IN  IF q = "bool" THEN p \in Ints \cup Floats
                       ELSE ~(p \in Floats /\ q \in Ints)

SizesAgree(s, d) == s.n = 0 \/ d.n = 0 \/ s.n = d.n

ClassCoercible(s, d) == d.kind = "class" /\ d.name \in Ancestors(s.name)

PointerCoercible(s, d) ==
  /\ d.kind = "pointer"
  /\ Nesting(s) = 1 /\ Nesting(d) = 1
  /\ LET b == Base(s)
         t == Base(d)
     IN  IF b.kind = "function" /\ t.kind = "function" THEN Unqual(b) = Unqual(t)
         ELSE \/ b = t
              \/ "void" \in {b.kind, t.kind}
              \/ b.kind = "class" /\ (b.const => t.const) /\ ClassCoercible(b, t)

RECURSIVE ArrayCoercible(_, _)
ArrayCoercible(s, d) ==
  CASE d.kind = "pointer" -> PointerCoercible(Decay(s), d)
    [] d.kind = "array" ->
         /\ SizesAgree(s, d)
         /\ IF Base(s).kind = "array" /\ Base(d).kind = "array"
            THEN ArrayCoercible(Base(s), Base(d))
            ELSE Base(s) = Base(d)
    [] OTHER -> FALSE

\* s is converted to d where the program does not ask for it.
CoercibleTo(s, d) ==
  /\ s.const => d.const
  /\ CASE s.kind = "prim"    -> PrimCoercible(s.name, d)
       [] s.kind = "enum"    -> PrimCoercible(Enums[s.name], d)
       [] s.kind = "union"   -> /\ Reps[s.name] # << >>
                                /\ PrimCoercible(Reps[s.name][1], d)
       [] s.kind = "class"   -> ClassCoercible(s, d)
       [] s.kind = "pointer" -> PointerCoercible(s, d)
       [] s.kind = "array"   -> ArrayCoercible(s, d)
       [] s.kind = "function" -> d.kind = "function" /\ Unqual(s) = Unqual(d)
       [] OTHER -> FALSE

\* s is converted to dst where it does.
CastableTo(s, dst) ==
  LET d == IF s.const THEN Unqual(dst) ELSE dst
  IN  CASE s.kind = "prim" -> \/ d.kind = "prim"
                              \/ d.kind = "pointer" /\ s.name = SizeType
        [] s.kind = "pointer" -> \/ PointerCoercible(Unqual(s), d)
                                 \/ d = Prim(SizeType)
        [] s.kind = "class" -> /\ d.kind = "class"
                               /\ \/ d.name \in Ancestors(s.name)
                                  \/ s.name \in Ancestors(d.name)
        [] OTHER -> CoercibleTo(Unqual(s), d)

-----------------------------------------------------------------------------
(* Members by name and by index.                                           *)

Own(r) == records[r].members

RECURSIVE FindOwn(_, _), Find(_, _), FindImm(_, _), IndexOwn(_, _), Index(_, _),
          FindIdx(_, _), DirectlyContains(_, _)

\* The member itself or, if it has no name, one of the record it is.
FindIn(m, n) ==
  IF m.name # "" THEN IF m.name = n THEN << m >> ELSE << >>
  ELSE IF IsRecord(m.ty) THEN Find(m.ty.name, n) ELSE << >>

FindOwn(r, n) ==
  LET found == SelectSeq(Own(r), LAMBDA m : FindIn(m, n) # << >>)
  IN  IF found = << >> THEN << >> ELSE FindIn(found[1], n)

Find(r, n) ==
  IF FindOwn(r, n) # << >> \/ ~HasParent(r) THEN FindOwn(r, n)
  ELSE Find(Parent(r), n)

FindImm(r, n) ==
  LET found == SelectSeq(Own(r), LAMBDA m : m.name = n)
  IN  IF found # << >> THEN << found[1] >>
      ELSE IF HasParent(r) THEN FindImm(Parent(r), n) ELSE << >>

\* The indexes that lead to a member.  find, and find_imm, already search the
\* parents of a class.
IndexOwn(r, n) ==
  LET anon == SelectSeq(Own(r), LAMBDA m : /\ m.name = "" /\ IsRecord(m.ty)
                                           /\ Find(m.ty.name, n) # << >>)
  IN  IF Find(r, n) = << >> THEN << >>
      ELSE IF FindImm(r, n) # << >> THEN << FindImm(r, n)[1].idx >>
      ELSE IF anon # << >> THEN Index(anon[1].ty.name, n) ELSE << >>

Index(r, n) ==
  IF IndexOwn(r, n) # << >> \/ ~HasParent(r) THEN IndexOwn(r, n)
  ELSE Index(Parent(r), n)

FindIdxOwnFirst(r, i) ==
  IF i < Len(Own(r)) THEN << Own(r)[i + 1] >>
  ELSE IF HasParent(r) THEN FindIdx(Parent(r), i - Len(Own(r))) ELSE << >>

\* What is read behind the members of a class.
Stray == [name |-> "", ty |-> Type("stray", "", << >>, 0), idx |-> 0]

\* An index counts from the first member of the first ancestor.  What is left
\* of it behind those of the ancestors is compared with the number of all
\* members, theirs included.
FindIdx(r, i) ==
  LET own == i - Offset(r)
  IN  IF own < 0 THEN FindIdx(Parent(r), i)
      ELSE IF own >= NumMembers(r) THEN << >>
      ELSE IF own < Len(Own(r)) THEN << Own(r)[own + 1] >> ELSE << Stray >>

RECURSIVE FindByPath(_, _)
FindByPath(r, path) ==
  LET m == FindIdx(r, path[1])
  IN  IF m = << >> \/ Len(path) = 1 THEN m
      ELSE IF IsRecord(m[1].ty) THEN FindByPath(m[1].ty.name, Tail(path))
      ELSE << >>

\* Whether values of r hold a value of the type, not only a pointer to it.
DirectlyContains(r, t) == \E i \in DOMAIN Own(r) :
  LET ty == Own(r)[i].ty
  IN  \/ ty = t
      \/ IsRecord(ty) /\ DirectlyContains(ty.name, t)
      \/ ty.kind = "array" /\ Base(ty) = t

=============================================================================
