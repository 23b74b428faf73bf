----------------------------- MODULE ExprValidator -----------------------------
(***************************************************************************)
(* ExprValidator: what each kind of expression asks of its operands, the    *)
(* conversions it inserts and the type it gets.  An expression is a tree of *)
(* nodes; a handler takes the trees of the operands, already visited, and   *)
(* returns that of the expression, or one of the failures below.            *)
(*                                                                         *)
(* An error after which the visit goes on (add_error with no throw) is a    *)
(* refusal too: Backend::run stops after validation for either.             *)
(***************************************************************************)
EXTENDS Types, Values

CONSTANTS Symbols,    \* name -> what it is, its type, value and default values
          RecordSizes \* the size of a record is for the LLVM backend to know

Node(k, op, ty, kids) == [k |-> k, op |-> op, ty |-> ty, val |-> NoVal, kids |-> kids]

Refused == Node("refused", "", Void, << >>)
Ice     == Node("ice", "", Void, << >>)        \* an assertion fails
Failures == {"refused", "ice", "invalid", "error"}
Fails(n) == n.k \in Failures

\* A node, unless an operand failed.
Made(k, op, ty, kids) ==
  LET bad == SelectSeq(kids, Fails)
  IN  IF bad # << >> THEN bad[1] ELSE Node(k, op, ty, kids)

LiteralNode(v, ty) == [Node("literal", "", ty, << >>) EXCEPT !.val = v]
IsValue(n)  == n.k = "literal" /\ n.op # "string"
IsString(n) == n.k = "literal" /\ n.op = "string"

Eff(n)       == Unqual(EffectiveType(n.ty))   \* eff_type
IsPrim(n)    == Eff(n).kind = "prim"
IsInteger(n) == IsIntegral(Eff(n))
IsPointer(n) == Eff(n).kind = "pointer"
Size_t       == Prim(SizeType)

RECURSIVE AllocSize(_)
AllocSize(t) ==
  CASE t.kind = "array" -> t.n * AllocSize(Base(t))
    [] IsRecord(t)      -> RecordSizes[t.name]
    [] t.kind \in {"pointer", "function"} -> pr_size(SizeType)
    [] OTHER -> pr_size(EffectiveType(t).name)

-----------------------------------------------------------------------------
(* What an expression can be used for.                                     *)

IsVar(n) == n.k = "ident" /\ Symbols[n.op].what # "function"

RECURSIVE is_lvalue(_)
is_lvalue(n) ==
  \/ n.k = "ident"
  \/ n.k = "unary" /\ n.op = "*"
  \/ n.k \in {"arrow", "reint_arrow"}
  \/ n.k \in {"dot", "reint"} /\ is_lvalue(n.kids[1])
  \/ n.k = "subscr" /\ (n.kids[1].ty.kind = "pointer" \/ is_lvalue(n.kids[1]))

is_assignable(n) ==
  /\ is_lvalue(n)
  /\ ~n.ty.const
  /\ n.k = "ident" => IsVar(n) /\ n.ty.kind # "array"
  /\ n.k \in {"dot", "arrow", "reint", "reint_arrow"} => ~n.kids[1].ty.const

-----------------------------------------------------------------------------
(* Conversions that the program does not spell.                            *)

\* cast
Implicit(ty, n) == Node("cast", "implicit", ty, << n >>)

\* decay: the assertion compares the type without const with the one that may
\* have it.
Decayed(n) ==
  IF n.ty.kind \notin {"array", "function"} THEN n
  ELSE IF n.ty.const THEN Ice
  ELSE Node("cast", "decay", Decay(n.ty), << n >>)

\* An operand as the primitive type an operator asks for.
Converted(n, p) ==
  IF Eff(n) = Prim(p) THEN n
  ELSE IF CoercibleTo(Eff(n), Prim(p)) THEN Implicit(Prim(p), n)
  ELSE Refused

-----------------------------------------------------------------------------
(* Binary operators.                                                       *)

BinaryPrim(op, l, r) ==
  LET types == pr_check_binary_op(op, Eff(l).name, Eff(r).name)
  IN  IF types.ok THEN Made("binary", op, Prim(types.result),
                            << Converted(l, types.lhs), Converted(r, types.rhs) >>)
      ELSE Refused

\* p is the operand that is a pointer and i the other one.
PointerAndInteger(op, l, r, p, i) ==
  IF ~IsInteger(i) THEN Refused
  ELSE CASE op \in Equalities /\ ~(IsValue(i) /\ i.val.n # 0) ->
              Made("binary", op, Bool, << l, r >>)
         [] op \in AddOps /\ IsComplete(Base(Eff(p))) ->
              Made("binary", op, p.ty, << l, r >>)
         [] OTHER -> Refused

PtrLeft(op, l, r)  == PointerAndInteger(op, l, r, l, r)
PtrRight(op, l, r) == IF op = "-" THEN Refused ELSE PointerAndInteger(op, l, r, r, l)

PtrBoth(op, l, r) ==
  LET s == Unqual(l.ty)
      t == Unqual(r.ty)
  IN  CASE op = "-" ->
             IF IsComplete(Base(s)) /\ IsComplete(Base(t)) /\ Unqual(Base(s)) = Unqual(Base(t))
             THEN Made("binary", op, Size_t, << l, r >>) ELSE Refused
        [] op \in Relations ->
             Made("binary", op, Bool,
                  IF s = t THEN << l, r >>
                  ELSE IF CoercibleTo(t, s) THEN << l, Implicit(s, r) >>
                  ELSE IF CoercibleTo(s, t) THEN << Implicit(t, l), r >>
                  ELSE << l, r >>)
        [] OTHER -> Refused

BinaryExpr(op, left, right) ==
  LET l == Decayed(left)
      r == Decayed(right)
  IN  IF Fails(l) \/ Fails(r) THEN Ice
      ELSE CASE IsPrim(l) /\ IsPrim(r) -> BinaryPrim(op, l, r)
             [] IsPointer(l) /\ IsPointer(r) -> PtrBoth(op, l, r)
             [] IsPointer(l) /\ ~IsPointer(r) -> PtrLeft(op, l, r)
             [] ~IsPointer(l) /\ IsPointer(r) -> PtrRight(op, l, r)
             [] OTHER -> Refused

-----------------------------------------------------------------------------
(* Unary operators and casts.                                              *)

UnaryOps == {"++", "--", "&", "*", "+", "-", "~", "!"}

UnaryExpr(op, n) ==
  LET d == Decayed(n)
      same == Node("unary", op, Unqual(n.ty), << n >>)
  IN  CASE op \in {"++", "--"} ->
             IF (IsPrim(n) \/ IsPointer(n)) /\ is_assignable(n) THEN same ELSE Refused
        [] op = "&" -> IF is_lvalue(n) THEN Node("unary", op, Pointer(n.ty), << n >>)
                       ELSE Refused
        [] op = "*" -> IF Fails(d) THEN d
                       ELSE IF d.ty.kind = "pointer" THEN Node("unary", op, Base(d.ty), << d >>)
                       ELSE Refused
        [] op \in {"+", "-", "!"} -> IF IsPrim(n) THEN same ELSE Refused
        [] op = "~" -> IF IsInteger(n) THEN same ELSE Refused

\* An integer becomes a pointer, or the reverse, as an integer of its size.
CastExpr(target, n) ==
  LET bridged == \/ target.kind = "pointer" /\ IsInteger(n) /\ Eff(n) # Size_t
                 \/ IsPointer(n) /\ IsIntegral(target) /\ target # Size_t
      inner == IF bridged THEN Implicit(Size_t, n) ELSE n
  IN  IF CastableTo(Eff(inner), target) THEN Node("cast", "explicit", target, << inner >>)
      ELSE Refused

-----------------------------------------------------------------------------
(* Assignments.                                                            *)

Compound  == {"*=", "/=", "%=", "+=", "-="}

\* The right side as a value of the left; a string may become U8 * or I8 *.
Assigned(l, r, string) ==
  IF Eff(l) = Eff(r) THEN r
  ELSE IF \/ CoercibleTo(Eff(r), Eff(l))
          \/ /\ string /\ IsPointer(l)
             /\ Unqual(Base(Eff(l))) \in {Prim("u8"), Prim("i8")}
  THEN Implicit(Eff(l), r)
  ELSE Refused

AssignExpr(op, l, right) ==
  LET r == Decayed(right)
      v == Assigned(l, r, IsString(right))
  IN  IF ~IsAssignable(l.ty) \/ ~is_assignable(l) THEN Refused
      ELSE IF Fails(r) THEN r
      ELSE IF op \in {"+=", "-="} /\ IsPointer(l)
      THEN IF IsInteger(r) THEN Made("assign", op, Unqual(l.ty), << l, r >>) ELSE Refused
      ELSE IF Fails(v) \/ ~CASE op = "=" -> TRUE
                             [] op \in Compound ->
                                  /\ IsPrim(v)
                                  /\ pr_check_binary_op(pr_assignop_to_binop(op),
                                                        Eff(l).name, Eff(v).name).ok
                             [] OTHER -> IsInteger(l) /\ IsInteger(v)
      THEN Refused
      ELSE Made("assign", op, Unqual(l.ty), << l, v >>)

PostfixExpr(op, n) ==
  IF is_assignable(n) /\ (IsPrim(n) \/ IsPointer(n))
  THEN Node("postfix", op, Unqual(n.ty), << n >>) ELSE Refused

CondExpr(c, t, f) ==
  LET ty == IF t.ty = f.ty \/ CoercibleTo(f.ty, t.ty) THEN t.ty ELSE f.ty
      As(n) == IF n.ty = ty THEN n
               ELSE IF CoercibleTo(n.ty, ty) THEN Implicit(ty, n) ELSE Refused
  IN  IF IsBoolable(Eff(c)) THEN Made("cond", "", Unqual(ty), << c, As(t), As(f) >>)
      ELSE Refused

-----------------------------------------------------------------------------
(* Names, literals and sizes.                                              *)

IdentExpr(x)   == Node("ident", x, Symbols[x].ty, << >>)
ValueExpr(v)   == LiteralNode(v, IF IsPtr(v) THEN Pointer(Void) ELSE Prim(v.p))
StringExpr(n)  == Node("literal", "string", Array(Prim("i8"), n + 1), << >>)

SizeofExpr(n) ==
  LET arg == IF n.ty.kind = "function" THEN [n EXCEPT !.ty = Decay(n.ty)] ELSE n
  IN  Node("sizeof", "expr", Size_t, << arg >>)
SizeofType(t) ==
  IF IsComplete(t) THEN Node("sizeof", "type", Size_t, << Node("type", "", t, << >>) >>)
  ELSE Refused

-----------------------------------------------------------------------------
(* Calls.                                                                  *)

Signature(n) == IF n.ty.kind = "pointer" THEN Base(n.ty) ELSE n.ty
Params(n)    == Tail(Signature(n).of)
IsVariadic(n) == Signature(n).n = 1

\* The trailing parameters of the function a name stands for that can be left out.
Defaults(n) == IF n.k = "ident" THEN Symbols[n.op].defaults ELSE << >>

Argument(n, param) ==
  LET a == IF Unqual(n.ty) = param THEN n ELSE Decayed(n)
  IN  IF Fails(a) \/ Unqual(a.ty) = param THEN a
      ELSE IF CoercibleTo(Unqual(a.ty), param) THEN Implicit(param, a)
      ELSE Refused

CallExpr(callee, args) ==
  LET params == Params(callee)
      Arg(i) == IF i <= Len(params) THEN Argument(args[i], params[i]) ELSE Decayed(args[i])
  IN  IF ~IsCallable(Eff(callee)) THEN Refused
      ELSE IF Len(args) > Len(params) /\ ~IsVariadic(callee) THEN Refused
      ELSE IF Len(args) + Len(Defaults(callee)) < Len(params) THEN Refused
      ELSE Made("call", "", Unqual(Signature(callee).of[1]),
                << callee >> \o [i \in DOMAIN args |-> Arg(i)])

-----------------------------------------------------------------------------
(* Access to members, bytes and elements.                                  *)

ConstIf(c, t) == IF c THEN Const(t) ELSE t

\* A mutation: the members of a const object are const only behind a pointer.
MemberConstByArrow(k, name, o) ==
  LET pointer == k = "arrow"
      base  == IF pointer THEN Base(o.ty) ELSE o.ty
      found == Find(base.name, name)
  IN  IF \/ pointer /\ o.ty.kind # "pointer"
         \/ ~IsRecord(base)
         \/ ~records[base.name].complete
         \/ found = << >>
      THEN Refused
      ELSE Node(k, name, ConstIf(pointer /\ base.const, found[1].ty), << o >>)

MemberExpr(k, name, o) ==
  LET pointer == k = "arrow"
      base  == IF pointer THEN Base(o.ty) ELSE o.ty
      found == Find(base.name, name)
      m     == found[1].ty
  IN  IF \/ pointer /\ o.ty.kind # "pointer"
         \/ ~IsRecord(base)
         \/ ~records[base.name].complete
         \/ found = << >>
      THEN Refused
      ELSE Node(k, name, IF ~pointer /\ ~is_lvalue(o) THEN Unqual(m)
                         ELSE ConstIf(base.const, m), << o >>)

\* x.U8 is x as an array of bytes; that x is const is only seen behind a pointer.
ReintExpr(k, p, o) ==
  LET pointer == k = "reint_arrow"
      of == IF pointer THEN Base(Eff(o)) ELSE Eff(o)
  IN  IF \/ pointer /\ ~IsPointer(o)
         \/ of.kind # "prim"
         \/ pr_size(of.name) < pr_size(p)
      THEN Refused
      ELSE Node(k, p, ConstIf(of.const, Array(Prim(p), pr_size(of.name) \div pr_size(p))),
                << o >>)

SubscrExpr(a, i) ==
  IF ~IsSubscriptable(a.ty) \/ ~IsInteger(i) THEN Refused
  ELSE Node("subscr", "", ConstIf(a.ty.kind = "array" /\ a.ty.const, Base(a.ty)), << a, i >>)

=============================================================================
