------------------------------ MODULE Expressions ------------------------------
(***************************************************************************)
(* An expression on its way through the compiler.  It is read bottom up,    *)
(* each node checked when its operands have been; a checked expression is   *)
(* the value of a constexpr, or it is folded (or not, the pass is           *)
(* optional), lowered and made into instructions.                           *)
(***************************************************************************)
EXTENDS ExprLowering

CONSTANTS Definitions,   \* the members of classes and unions
          Vocabularies   \* what expressions consist of, and how many nodes they
                         \* have, those with branches not counted, with how many
                         \* operands pending

VARIABLES words,   \* one of the vocabularies
          stack,   \* expressions that have been checked, the last one last
          reads,   \* nodes read, those with branches not counted
          phase,   \* what became of the expression
          source,  \* the checked expression it was, once it is changed
          out,     \* the value of a constexpr
          code     \* the instructions

evars == << records, words, stack, reads, phase, source, out, code >>

Init ==
  /\ records = Definitions
  /\ words \in Vocabularies
  /\ stack = << >> /\ reads = 0
  /\ phase = "reading"
  /\ source = << >>
  /\ out = NoVal
  /\ code = Start

-----------------------------------------------------------------------------
(* Reading and checking.                                                   *)

\* The tree of the last k expressions.
ReadFor(cost, k, Handler(_)) ==
  /\ phase = "reading"
  /\ k <= Len(stack) /\ Len(stack) < words.pending + k
  /\ reads + cost <= words.reads
  /\ reads' = reads + cost
  /\ \E operands \in {SubSeq(stack, Len(stack) - k + 1, Len(stack))} :
     \E n \in {Handler(operands)} :
       IF Fails(n) THEN stack' = << >> /\ phase' = n.k
       ELSE /\ stack' = Append(SubSeq(stack, 1, Len(stack) - k), n)
            /\ UNCHANGED phase
  /\ UNCHANGED << records, words, source, out, code >>
Read(k, Handler(_)) == ReadFor(1, k, Handler)

ReadIdentifier == \E x \in words.symbols : Read(0, LAMBDA k : IdentExpr(x))
ReadLiteral ==
  \/ \E v \in words.literals : Read(0, LAMBDA k : ValueExpr(v))
  \/ \E n \in words.strings : Read(0, LAMBDA k : StringExpr(n))
ReadBinary == \E op \in words.binaries :
  ReadFor(IF op \in Logical THEN 0 ELSE 1, 2, LAMBDA k : BinaryExpr(op, k[1], k[2]))
ReadUnary  == \E op \in words.unaries : Read(1, LAMBDA k : UnaryExpr(op, k[1]))
ReadCast   == \E t \in words.casts : Read(1, LAMBDA k : CastExpr(t, k[1]))
ReadAssign == \E op \in words.assigns : Read(2, LAMBDA k : AssignExpr(op, k[1], k[2]))
ReadCond   == ReadFor(0, 3, LAMBDA k : CondExpr(k[1], k[2], k[3]))
ReadCall   == \E n \in 0 .. 2 : Read(n + 1, LAMBDA k : CallExpr(k[1], Tail(k)))
ReadMember == \E m \in words.members, kind \in {"dot", "arrow"} :
  Read(1, LAMBDA k : MemberExpr(kind, m, k[1]))
ReadReint  == \E p \in words.reints, kind \in {"reint", "reint_arrow"} :
  Read(1, LAMBDA k : ReintExpr(kind, p, k[1]))
ReadSubscript == Read(2, LAMBDA k : SubscrExpr(k[1], k[2]))
ReadPostfix   == \E op \in words.postfixes : Read(1, LAMBDA k : PostfixExpr(op, k[1]))
ReadSizeof ==
  \/ Read(1, LAMBDA k : SizeofExpr(k[1]))
  \/ \E t \in words.sizeofs : Read(0, LAMBDA k : SizeofType(t))

-----------------------------------------------------------------------------
(* What the expression is used for.                                        *)

Tree == stack[1]
Becomes(n, p) ==
  /\ IF Fails(n) THEN stack' = << >> /\ phase' = n.k ELSE stack' = << n >> /\ phase' = p
  /\ source' = IF source = << >> THEN << Tree >> ELSE source
  /\ UNCHANGED << records, words, reads, out, code >>

Fold  == phase = "reading" /\ Len(stack) = 1 /\ Becomes(FoldOperand(Tree), "folded")
LowerIt ==
  /\ phase \in {"reading", "folded"} /\ Len(stack) = 1
  /\ Becomes(Lower(Tree), "lowered")

Build ==
  /\ phase = "lowered"
  /\ LET s == CodeOf(Start, Tree)
     IN  IF s.bad THEN phase' = "ice" /\ stack' = << >> /\ UNCHANGED code
         ELSE phase' = "built" /\ code' = s /\ UNCHANGED stack
  /\ UNCHANGED << records, words, reads, source, out >>

IntMax(p) == IF p \in SignedInts THEN 2^(Width(p) - 1) - 1 ELSE 2^Width(p) - 1
IntMin(p) == IF p \in SignedInts THEN -(2^(Width(p) - 1)) ELSE 0

\* A mutation: the lower limit is forgotten.
ExceedsMax(v, p) ==
  IF p = "bool" THEN Wrap("u64", v.n) > 1
  ELSE Wrap(IF p \in SignedInts THEN "i64" ELSE "u64", v.n) > IntMax(p)

\* As an unsigned or signed integer of the widest type.
ExceedsLimits(v, p) ==
  CASE p = "bool" -> Wrap("u64", v.n) > 1
    [] p \in SignedInts -> Wrap("i64", v.n) > IntMax(p) \/ Wrap("i64", v.n) < IntMin(p)
    [] p \in UnsignedInts -> Wrap("u64", v.n) > IntMax(p)

\* parse_constexpr_init
EvalConstexpr == \E t \in words.constexprs :
  /\ phase = "reading" /\ Len(stack) = 1
  /\ LET v  == Eval(Tree)
         ok == /\ Foldable(Tree, TRUE)
               /\ ~Failed(v)
               /\ t.kind = "prim" => ~ExceedsLimits(v, t.name)
     IN  /\ phase' = IF ok THEN "constant" ELSE "refused"
         /\ out' = IF ok THEN CastTo(v, t) ELSE NoVal
         /\ stack' = IF ok THEN stack ELSE << >>
  /\ UNCHANGED << records, words, reads, source, code >>

Next ==
  \/ ReadIdentifier \/ ReadLiteral \/ ReadBinary \/ ReadUnary \/ ReadCast
  \/ ReadAssign \/ ReadCond \/ ReadCall \/ ReadMember \/ ReadReint
  \/ ReadSubscript \/ ReadPostfix \/ ReadSizeof
  \/ Fold \/ LowerIt \/ Build \/ EvalConstexpr

Spec == Init /\ [][Next]_evars

-----------------------------------------------------------------------------
(* Properties.                                                             *)

RECURSIVE Flat(_)
Flat(n)  == << n >> \o FlattenSeq([i \in DOMAIN n.kids |-> Flat(n.kids[i])])
Nodes(n) == ToSet(Flat(n))
All == IF stack = << >> THEN {} ELSE Nodes(stack[Len(stack)])

\* What the backend expects of the types of a node and of its operands.
NodeTyped(n) ==
  LET E(i) == Eff(n.kids[i])
  IN  CASE n.k = "binary" /\ IsPrim(n.kids[1]) /\ IsPrim(n.kids[2]) ->
             /\ n.op \notin Shifts => E(1) = E(2)
             /\ n.ty = IF n.op \in Relations \cup Logical THEN Bool ELSE E(1)
        [] n.k = "assign" ->
             \/ E(1) = E(2)
             \/ E(1).kind = "pointer" /\ n.op # "=" /\ IsInteger(n.kids[2])
        [] n.k = "cond" -> E(2) = E(3)
        [] n.k = "call" ->
             LET params == Params(n.kids[1])
                 given  == Len(n.kids) - 1
             IN  /\ phase \in {"lowered", "built"} => given >= Len(params)
                 /\ \A i \in 1 .. given : i <= Len(params) =>
                      Eff(n.kids[i + 1]) = Unqual(EffectiveType(params[i]))
        [] n.k = "literal" /\ n.op # "string" ->
             IF IsPtr(n.val) THEN IsPointer(n) ELSE Eff(n) = Prim(n.val.p)
        [] n.k = "member" -> FindIdx(n.kids[1].ty.name, n.val.n) # << >>
        [] OTHER -> TRUE

\* Checked, folded or lowered, the operands of every operator have the types
\* the operator works on: conversions are in the tree, the arguments of a call
\* are as many as its parameters, and the value of a literal is of its type.
WellTyped == \A n \in All : NodeTyped(n)

\* The object an expression stands for is const: it was declared so, or it is
\* part of one, or it is reached by a pointer to const.
RECURSIVE ConstObject(_)
ConstObject(n) ==
  CASE n.k = "ident"  -> Symbols[n.op].ty.const
    [] n.k = "dot"    -> ConstObject(n.kids[1]) \/ Find(n.kids[1].ty.name, n.op)[1].ty.const
    [] n.k = "arrow"  -> \/ Base(n.kids[1].ty).const
                         \/ Find(Base(n.kids[1].ty).name, n.op)[1].ty.const
    [] n.k = "unary" /\ n.op = "*" -> Base(n.kids[1].ty).const
    [] n.k = "subscr" -> \/ Base(n.kids[1].ty).const
                         \/ n.kids[1].ty.kind = "array" /\ ConstObject(n.kids[1])
    [] OTHER -> FALSE

Writes(n) == \/ n.k \in {"assign", "postfix"}
             \/ n.k = "unary" /\ n.op \in {"++", "--"}

\* A program that is accepted changes no object that is const, whatever way it
\* is reached.  (x.U8 forgets that x is const; such a path counts as not const.)
ConstNotWritten ==
  phase = "reading" => \A n \in All : Writes(n) => ~ConstObject(n.kids[1])

\* What an expression without side effects is worth when its variables have the
\* values of env, each operator working on the types of its operands.
NoMeaning == Invalid
\* Enumerators and constexprs; the value of a parameter is that of the caller.
Known(x) == Symbols[x].what = "var" /\ Symbols[x].val # NoVal
RECURSIVE Meaning(_, _)
Meaning(env, n) ==
  LET M(i) == Meaning(env, n.kids[i])
      p == Eff(n).name
      Binary(l, r) ==
        IF Failed(l) THEN NoMeaning
        ELSE IF n.op \in Logical /\ Truth(l) = (n.op = "||") THEN ToBool(l)
        ELSE IF Failed(r) \/ IsPtr(l) \/ IsPtr(r) THEN NoMeaning
        ELSE IF n.op \in Logical THEN ToBool(r)
        ELSE IF n.op = "," THEN r
        ELSE LET v == Compute(n.op, l, r) IN IF Failed(v) THEN NoMeaning ELSE v
      Unary(v) ==
        IF Failed(v) \/ IsPtr(v) THEN NoMeaning
        ELSE Val(p, Wrap(p, CASE n.op = "-" -> -v.n [] n.op = "+" -> v.n
                              [] n.op = "~" -> -v.n - 1
                              [] n.op = "!" -> IF Truth(v) THEN 0 ELSE 1))
  IN  CASE n.k = "ident" /\ Eff(n).kind = "prim" ->
             IF Known(n.op) THEN Symbols[n.op].val ELSE Val(p, Wrap(p, env[n.op]))
        [] n.k = "literal" /\ n.op # "string" -> n.val
        [] n.k = "binary" -> Binary(M(1), M(2))
        [] n.k = "unary" /\ n.op \in {"+", "-", "~", "!"} -> Unary(M(1))
        [] n.k = "cast" /\ Eff(n).kind \in {"prim", "pointer"} -> CastTo(M(1), n.ty)
        [] n.k = "cond" -> IF Failed(M(1)) THEN NoMeaning
                           ELSE M(IF Truth(M(1)) THEN 2 ELSE 3)
        [] n.k = "sizeof" /\ n.kids[1].ty.kind # "void" -> LowerSizeof(n).val
        [] OTHER -> NoMeaning

\* The evaluator computes with operands smaller than an I32 as with I32, and !
\* gives a Bool: there it differs from the types of the checked expression.
Regular(n) == n.k = "unary" =>
  /\ n.op \in {"+", "-", "~"} => pr_rank(Eff(n).name) >= INT32
  /\ n.op = "!" => Eff(n) = Bool

Variables(nodes) == { n.op : n \in { n \in nodes : n.k = "ident" /\ IsPrim(n) /\ ~Known(n.op) } }
Envs(nodes) == [Variables(nodes) -> {0, 1, -1}]

\* Folding and lowering keep the value an expression has, for every value of
\* its variables: a parameter is not its default value, what is short-circuited
\* or not taken is not computed, and literals keep their type.
MeaningKept ==
  phase \in {"folded", "lowered"} /\ (\A n \in Nodes(source[1]) : Regular(n)) =>
    \A env \in Envs(Nodes(source[1])) :
      LET v == Meaning(env, source[1])
      IN  Failed(v) \/ Meaning(env, Tree) = v

\* The value of a constexpr is the one its initializer has, unless that does
\* not fit the widest signed integer and wraps in the comparison with the limits.
ConstantExact ==
  phase = "constant" =>
    LET v == Eval(Tree)
    IN  out.p \in Ints \ {"u64"} /\ v.n <= IntMax("i64") => out.n = v.n

Count(Has(_), seq) == Len(SelectSeq(seq, Has))
\* Every call, assignment and increment of an expression has its effect in one
\* place of the code: nothing that is evaluated for its address, its value and
\* its storage in turn is evaluated twice.
EffectsOnce ==
  phase = "built" =>
    /\ Count(LAMBDA c : c.op = "store", code.code) = Count(Writes, Flat(Tree))
    /\ Count(LAMBDA c : c.op = "call", code.code) = Count(LAMBDA n : n.k = "call", Flat(Tree))

\* A phi has a value for exactly the blocks that lead to its block, however the
\* operands branch themselves.
PhisMatchEdges ==
  phase = "built" =>
    \A phi \in code.phis : phi.from = {e[1] : e \in {e \in code.edges : e[2] = phi.at}}

\* No assertion fails.
NoInternalError == phase # "ice"

=============================================================================
