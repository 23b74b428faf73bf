----------------------------- MODULE ExprLowering -----------------------------
(***************************************************************************)
(* Expressions on their way from the checked tree to instructions: the      *)
(* LIRSynthesizer, which has no names of members, no default arguments and  *)
(* no arrows left, and the CFGBuilder, which puts the instructions of an    *)
(* expression into basic blocks.                                            *)
(***************************************************************************)
EXTENDS ConstantFolder

Deref(n) == Node("unary", "*", Base(n.ty), << n >>)

\* One step on the way to a member, by its index.
Step(o, idx, ty) == [Node("member", "", ty, << o >>) EXCEPT !.val = Val("index", idx)]

RECURSIVE Steps(_, _, _)
Steps(o, path, ty) ==
  LET m == FindIdx(o.ty.name, path[1])[1]
  IN  IF Len(path) = 1 THEN Step(o, path[1], ty)
      ELSE Steps(Step(o, path[1], m.ty), Tail(path), ty)

LowerMember(n, o) ==
  LET object == IF n.k = "arrow" THEN Deref(o) ELSE o
      path   == Index(object.ty.name, n.op)
  IN  IF path = << >> THEN Ice ELSE Steps(object, path, n.ty)

\* A cast of a literal is made at once.
LowerCast(n, inner) ==
  IF IsValue(inner) /\ n.ty.kind \in {"prim", "pointer"}
  THEN LiteralNode(CastTo(inner.val, n.ty), n.ty)
  ELSE [n EXCEPT !.kids = << inner >>]

\* The arguments a call of the function by its name leaves out.
LowerCall(n, kids) ==
  LET params  == Params(n.kids[1])
      given   == Len(kids) - 1
      omitted == Len(params) - given
      values  == Defaults(n.kids[1])
      Default(i) == LiteralNode(values[Len(values) - omitted + i], params[given + i])
  IN  [n EXCEPT !.kids = kids \o [i \in 1 .. IF omitted > 0 THEN omitted ELSE 0 |-> Default(i)]]

\* A symbolic constant has no storage; a parameter with a default value has.
LowerIdent(n) == IF IsConstant(n.op) THEN LiteralNode(Symbols[n.op].val, n.ty) ELSE n

\* An expression without a type that has a size is not refused; LLVM has none for it.
LowerSizeof(n) ==
  LET ty == n.kids[1].ty
  IN  IF ty.kind = "void" THEN Ice
      ELSE LiteralNode(pr_cast(Val(SizeType, AllocSize(ty)), SizeType), n.ty)

RECURSIVE Lower(_)
Lower(n) ==
  LET kids == [i \in DOMAIN n.kids |-> Lower(n.kids[i])]
      bad  == SelectSeq(kids, Fails)
  IN  IF n.k = "sizeof" THEN LowerSizeof(n)
      ELSE IF bad # << >> THEN bad[1]
      ELSE CASE n.k = "ident"            -> LowerIdent(n)
             [] n.k = "cast"             -> LowerCast(n, kids[1])
             [] n.k = "call"             -> LowerCall(n, kids)
             [] n.k \in {"dot", "arrow"} -> LowerMember(n, kids[1])
             [] n.k = "reint_arrow"      -> [n EXCEPT !.k = "reint", !.kids = << Deref(kids[1]) >>]
             [] OTHER                    -> [n EXCEPT !.kids = kids]

-----------------------------------------------------------------------------
(* Instructions.  The builder has blocks and is in one of them (curr_blk);  *)
(* a block that has an edge to another one is terminated.                   *)

Start == [blocks |-> 1, cur |-> 1, code |-> << >>, edges |-> {}, phis |-> {}, bad |-> FALSE]

Terminated(s, b) == \E e \in s.edges : e[1] = b

\* add_instruction asserts that the block is not terminated.
EmitIn(s, b, op) ==
  IF Terminated(s, b) THEN [s EXCEPT !.bad = TRUE]
  ELSE [s EXCEPT !.code = Append(@, [at |-> b, op |-> op])]
Emit(s, op)  == EmitIn(s, s.cur, op)

Edges(s, from, to) == [s EXCEPT !.edges = @ \cup {<< from, t >> : t \in to}]
Enter(s, b)  == [s EXCEPT !.cur = b]
NewBlocks(s, k) == [s EXCEPT !.blocks = @ + k]
Phi(s, from) == [Emit(s, "phi") EXCEPT !.phis = @ \cup {[at |-> s.cur, from |-> from]}]
Asserted(s, ok) == IF ok THEN s ELSE [s EXCEPT !.bad = TRUE]

\* Whether eval_lvalue returns an address; its null makes a bad instruction.
HasPlace(n) ==
  \/ n.k \in {"ident", "member", "reint", "subscr"}
  \/ n.k = "unary" /\ n.op = "*"
  \/ IsString(n)

RECURSIVE CodeOf(_, _), PlaceOf(_, _)

\* materialize: what has no address gets one.
Materialize(s, n) == IF HasPlace(n) THEN PlaceOf(s, n) ELSE Emit(CodeOf(s, n), "spill")

\* eval_lvalue
PlaceOf(s, n) ==
  CASE n.k = "member" ->
         LET o == Materialize(s, n.kids[1])
         IN  IF n.kids[1].ty.kind = "union" THEN o ELSE Emit(o, "member")
    [] n.k = "reint"  -> Materialize(s, n.kids[1])
    [] n.k = "subscr" -> Emit(Materialize(CodeOf(s, n.kids[2]), n.kids[1]), "subscr")
    [] n.k = "unary" /\ n.op = "*" -> CodeOf(s, n.kids[1])
    [] OTHER -> Asserted(s, HasPlace(n))

\* The value is read from the place, changed and stored.
Update(s, n, how) == Emit(Emit(Emit(PlaceOf(s, n), "load"), how), "store")

CodeOfLogical(s, n) ==
  LET l == CodeOf(s, n.kids[1])
      rhs == l.blocks + 1
      merge == l.blocks + 2
      r == CodeOf(Enter(Edges(NewBlocks(l, 2), l.cur, {rhs, merge}), rhs), n.kids[2])
  IN  Phi(Enter(Edges(r, r.cur, {merge}), merge), {l.cur, r.cur})

CodeOfCondEarly(s, n) ==   \* a mutation: the phi has the blocks the branches start in
  LET c == CodeOf(s, n.kids[1])
      then == c.blocks + 1
      else == c.blocks + 2
      merge == c.blocks + 3
      t == CodeOf(Enter(Edges(NewBlocks(c, 3), c.cur, {then, else}), then), n.kids[2])
      f == CodeOf(Enter(Edges(t, t.cur, {merge}), else), n.kids[3])
  IN  Phi(Enter(Edges(f, f.cur, {merge}), merge), {then, else})

CodeOfCond(s, n) ==
  LET c == CodeOf(s, n.kids[1])
      then == c.blocks + 1
      else == c.blocks + 2
      merge == c.blocks + 3
      t == CodeOf(Enter(Edges(NewBlocks(c, 3), c.cur, {then, else}), then), n.kids[2])
      f == CodeOf(Enter(Edges(t, t.cur, {merge}), else), n.kids[3])
  IN  Phi(Enter(Edges(f, f.cur, {merge}), merge), {t.cur, f.cur})

RECURSIVE Args(_, _)
Args(s, kids) == IF kids = << >> THEN s ELSE Args(CodeOf(s, Head(kids)), Tail(kids))

\* The block of the call is taken before the callee is evaluated.
CodeOfCall(s, n) ==
  LET a == Args(s, Tail(n.kids))
  IN  EmitIn(CodeOf(a, n.kids[1]), a.cur, "call")

CodeOfUnary(s, n) ==
  CASE n.op \in {"++", "--"} -> Update(s, n.kids[1], n.op)
    [] n.op = "&" -> PlaceOf(s, n.kids[1])
    [] n.op = "*" -> Emit(CodeOf(s, n.kids[1]), "load")
    [] OTHER      -> Emit(CodeOf(s, n.kids[1]), "unary")

CodeOfCast(s, n) ==
  IF n.op = "decay"
  THEN IF n.kids[1].ty.kind = "array" THEN PlaceOf(s, n.kids[1]) ELSE CodeOf(s, n.kids[1])
  ELSE Emit(CodeOf(s, n.kids[1]), "cast")

CodeOfAssignTwice(s, n) ==   \* a mutation: the left side is evaluated again
  LET r == CodeOf(PlaceOf(s, n.kids[1]), n.kids[2])
  IN  Emit(IF n.op = "=" THEN r ELSE Emit(CodeOf(r, n.kids[1]), "binary"), "store")

\* A compound assignment has its address once, and reads it after the right side.
CodeOfAssign(s, n) ==
  LET r == CodeOf(PlaceOf(s, n.kids[1]), n.kids[2])
  IN  Emit(IF n.op = "=" THEN r ELSE Emit(Emit(r, "load"), "binary"), "store")

CodeOfLiteral(s, n) ==
  Asserted(s, IsString(n) \/ Eff(n).kind = IF IsPtr(n.val) THEN "pointer" ELSE "prim")

CodeOf(s, n) ==
  CASE n.k = "binary"  -> IF n.op \in Logical THEN CodeOfLogical(s, n)
                          ELSE IF n.op = "," THEN Args(s, n.kids)
                          ELSE Emit(Args(s, n.kids), "binary")
    [] n.k = "unary"   -> CodeOfUnary(s, n)
    [] n.k = "postfix" -> Update(s, n.kids[1], n.op)
    [] n.k = "cast"    -> CodeOfCast(s, n)
    [] n.k = "assign"  -> CodeOfAssign(s, n)
    [] n.k = "cond"    -> CodeOfCond(s, n)
    [] n.k = "ident"   -> IF IsVar(n) THEN Emit(s, "load") ELSE s
    [] n.k = "literal" -> CodeOfLiteral(s, n)
    [] n.k = "call"    -> CodeOfCall(s, n)
    [] n.k \in {"member", "reint", "subscr"} -> Emit(PlaceOf(s, n), "load")

=============================================================================
