---------------------------- MODULE ConstantFolder ----------------------------
(***************************************************************************)
(* What is known of an expression while the program is compiled: the        *)
(* constant evaluator, and the pass that replaces expressions by their      *)
(* values.  The pass is optional; enumerators, constexprs and the sizes of  *)
(* arrays use the evaluator alone.                                          *)
(***************************************************************************)
EXTENDS ExprValidator

HasValue(x)     == Symbols[x].val # NoVal
IsConstant(x)   == HasValue(x) /\ Symbols[x].what # "param"

RECURSIVE Foldable(_, _)
Foldable(n, strict) ==
  CASE n.k = "binary"  -> Foldable(n.kids[1], strict) /\ Foldable(n.kids[2], strict)
    [] n.k = "unary"   -> n.op \in {"+", "-", "~", "!"} /\ Foldable(n.kids[1], strict)
    [] n.k = "cast"    -> Foldable(n.kids[1], strict)
    [] n.k = "cond"    -> /\ Foldable(n.kids[1], strict)
                          /\ strict => Foldable(n.kids[2], TRUE) /\ Foldable(n.kids[3], TRUE)
    [] n.k = "ident"   -> IsConstant(n.op)
    [] n.k = "literal" -> IsValue(n)
    [] OTHER           -> n.k = "sizeof"

ToBool(v) == Val("bool", IF Truth(v) THEN 1 ELSE 0)

\* As the type, which is primitive or a pointer.
CastTo(v, t) ==
  LET e == EffectiveType(t)
  IN  CASE e.kind = "prim"    -> pr_cast(v, e.name)
        [] e.kind = "pointer" -> pr_cast(v, "ptr")
        [] OTHER -> IF Failed(v) THEN v ELSE Invalid

RECURSIVE Eval(_)
ShortCircuit(n) ==
  LET l == Eval(n.kids[1])
      r == Eval(n.kids[2])
  IN  IF Failed(l) THEN l
      ELSE IF Truth(l) = (n.op = "||") THEN ToBool(l)
      ELSE IF Failed(r) THEN r ELSE ToBool(r)

EvalCond(n) ==
  LET c == Eval(n.kids[1])
  IN  IF Failed(c) THEN c ELSE Eval(n.kids[IF Truth(c) THEN 2 ELSE 3])

\* An operand of sizeof must be a name, or a type.
EvalSizeof(n) ==
  LET arg == n.kids[1]
  IN  IF arg.k \in {"type", "ident"} THEN pr_cast(Val(SizeType, AllocSize(arg.ty)), SizeType)
      ELSE Invalid

\* ConstEvaluator
Eval(n) ==
  CASE n.k = "binary"  -> IF n.op \in Logical THEN ShortCircuit(n)
                          ELSE BinaryValue(n.op, Eval(n.kids[1]), Eval(n.kids[2]))
    [] n.k = "unary"   -> IF Failed(Eval(n.kids[1])) \/ n.op \in {"+", "-", "~", "!"}
                          THEN UnaryValue(n.op, Eval(n.kids[1])) ELSE Invalid
    [] n.k = "cast"    -> CastTo(Eval(n.kids[1]), n.ty)
    [] n.k = "cond"    -> EvalCond(n)
    [] n.k = "ident"   -> IF IsConstant(n.op) THEN Symbols[n.op].val ELSE Invalid
    [] n.k = "literal" -> IF IsValue(n) THEN n.val ELSE Invalid
    [] n.k = "sizeof"  -> EvalSizeof(n)
    [] OTHER           -> Invalid

-----------------------------------------------------------------------------
(* The pass.                                                               *)

Failure(v) == Node(v.p, "", Void, << >>)

RECURSIVE FoldOperand(_), FoldWithin(_)

\* Where the node is visited (accept) instead of being folded itself.
Visited(n, i) ==
  \/ n.k \in {"dot", "arrow", "reint", "reint_arrow", "subscr", "postfix", "sizeof"}
  \/ n.k \in {"call", "assign"} /\ i = 1

\* The do_visit of the node.
FoldWithin(n) ==
  LET Kid(i) == IF Visited(n, i) THEN FoldWithin(n.kids[i]) ELSE FoldOperand(n.kids[i])
      kids == [i \in DOMAIN n.kids |-> Kid(i)]
      bad  == SelectSeq(kids, Fails)
  IN  IF bad # << >> THEN bad[1] ELSE [n EXCEPT !.kids = kids]

RECURSIVE eval_and_expr(_)

\* The branch that is taken remains, folded or not.
FoldCond(n) ==
  LET c == Eval(n.kids[1])
      taken == n.kids[IF Truth(c) THEN 2 ELSE 3]
  IN  IF Failed(c) THEN Failure(c)
      ELSE IF Foldable(taken, FALSE) THEN eval_and_expr(taken) ELSE FoldWithin(taken)

KeepsValueType(n) ==   \* a mutation of eval_and_expr: the value is not cast
  LET v == Eval(n)
  IN  IF n.k = "cond" THEN FoldCond(n)
      ELSE IF IsValue(n) THEN n
      ELSE IF Failed(v) THEN Failure(v) ELSE LiteralNode(v, Eff(n))

\* The literal has the type of the expression it replaces.
eval_and_expr(n) ==
  LET v == CastTo(Eval(n), Eff(n))
  IN  IF n.k = "cond" THEN FoldCond(n)
      ELSE IF IsValue(n) THEN n
      ELSE IF Failed(v) THEN Failure(v) ELSE LiteralNode(v, Eff(n))

FoldOperand(n) ==
  IF ~Foldable(n, FALSE) THEN FoldWithin(n)
  ELSE LET folded == eval_and_expr(n)
       IN  IF folded.k = "invalid" THEN FoldWithin(n) ELSE folded

=============================================================================
