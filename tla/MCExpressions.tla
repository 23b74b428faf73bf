---------------------------- MODULE MCExpressions ----------------------------
(* A few symbols, types and operators for Expressions.                      *)
EXTENDS Expressions

MCBits == [r \in 2 .. 5 |-> r]
MCEnums == [Colour |-> "i32"]
MCReps == << >>
MCDefinitions ==
  [r \in {"K"} |->
     [complete |-> TRUE, defining |-> FALSE, parent |-> << >>,
      members |-> << [name |-> "n", ty |-> Prim("i32"), idx |-> 0],
                     [name |-> "a", ty |-> Array(Prim("u8"), 2), idx |-> 1] >>]]
MCRecordSizes == [r \in {"K"} |-> 8]

Symbol(what, ty, val, defaults) ==
  [what |-> what, ty |-> ty, val |-> val, defaults |-> defaults]
Variable(ty) == Symbol("var", ty, NoVal, << >>)
f == Symbol("function", FunctionType(Prim("i32"), << Prim("i32"), Prim("u8") >>), NoVal,
            << Val("u8", 2) >>)

MCSymbols ==
  [x  |-> Variable(Prim("i32")),
   b  |-> Variable(Prim("u8")),
   p  |-> Variable(Pointer(Prim("i32"))),
   q  |-> Variable(Pointer(Const(Prim("u8")))),
   k  |-> Variable(Record("K")),
   c  |-> Variable(Const(Record("K"))),
   kp |-> Variable(Pointer(Const(Record("K")))),
   r  |-> Variable(Array(Prim("i32"), 2)),
   n  |-> Symbol("var", Const(Prim("u8")), Val("u8", 3), << >>),
   e  |-> Symbol("var", Enum("Colour"), Val("i32", 1), << >>),
   d  |-> Symbol("param", Prim("i32"), Val("i32", 2), << >>),
   f  |-> f]

I32(n) == Val("i32", n)
True   == Val("bool", 1)
Words(max, pending, symbols, literals, binaries, unaries) ==
  [reads |-> max, pending |-> pending, symbols |-> symbols, literals |-> literals, binaries |-> binaries,
   unaries |-> unaries, strings |-> {}, casts |-> {}, assigns |-> {}, postfixes |-> {},
   members |-> {}, reints |-> {}, sizeofs |-> {}, constexprs |-> {}]

\* All kinds, in expressions of up to three nodes.
Everything == [Words(3, 3, DOMAIN Symbols, {I32(0), I32(1), True},
              {"+", "-", "/", "<<", "<", "==", "&&", ","}, UnaryOps) EXCEPT
          !.strings = {1},
          !.casts = {Prim("u8"), Prim("i64"), Pointer(Void), Pointer(Prim("u8"))},
          !.assigns = {"=", "+=", "<<="}, !.postfixes = {"++"}, !.members = {"n", "a"},
          !.reints = {"u8", "u16"}, !.sizeofs = {Prim("i32"), Record("K")},
          !.constexprs = {Prim("i8"), Prim("u8"), Prim("i64"), Prim("bool")}]

\* Arithmetic.
Arithmetic == [Words(5, 2, {"b", "n"}, {I32(-1)}, {"+", "/", "||"}, {"-"})
                 EXCEPT !.casts = {Prim("u8")}, !.constexprs = {Prim("u16")}]

\* Ways to reach an object and to change it.
Access == [Words(6, 2, {"k", "c", "kp"}, {I32(0)}, {}, {"*", "&"}) EXCEPT
             !.assigns = {"="}, !.members = {"n", "a"}]

\* Calls, and branches in all their operands.
Calls == [Words(5, 3, {"f", "d"}, {I32(1)}, {"&&"}, {}) EXCEPT !.assigns = {"+="}]

\* Side effects on the way to what is assigned.
Effects == [Words(6, 2, {"p", "d"}, {}, {"+"}, {"*", "--"}) EXCEPT
              !.assigns = {"=", "+="}, !.postfixes = {"++"}]

MCVocabularies == {Everything, Arithmetic, Access, Calls, Effects}
\* A callee that branches takes one more.
CallsOnly == {[Calls EXCEPT !.reads = 6]}
\* An array in a constant object.
DecaysOnly == {[Words(4, 2, {"c", "k"}, {I32(1)}, {"+"}, {}) EXCEPT !.members = {"n", "a"}]}
=============================================================================
