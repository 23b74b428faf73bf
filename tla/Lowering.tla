------------------------------ MODULE Lowering ------------------------------
(***************************************************************************)
(* From the MIR to the LIR: the same program walked by the Validator and by *)
(* the LIRSynthesizer.  The second walk only starts when the first has      *)
(* found no error, and visits the nodes in the same order, so that the two  *)
(* are taken in step and the second stops where an error has been found.    *)
(* source records, per function, what a reader of the program finds in it.  *)
(***************************************************************************)
EXTENDS Validator, LIRSynthesizer, Functions

CONSTANTS MaxItems,       \* statements, declarations and functions
          MaxWithErrors,  \* the same, once there are errors
          MaxDepth,       \* statements and functions open at a time
          DeclInits,      \* initializers of declarations and ...
          LoopInits,      \* ... of loops
          NestInBodies    \* functions may be nested in loops and switches

ASSUME LoweringAssumption ==
  /\ MaxItems \in Nat /\ MaxWithErrors \in Nat /\ MaxDepth \in Nat
  /\ DeclInits \subseteq {"none", "constant", "value"}
  /\ LoopInits \subseteq DeclInits \cup {"expr"}
  /\ NestInBodies \in BOOLEAN
  /\ LFuncs = Funcs

VARIABLE source

vars == << vvars, lvars, source >>

Owners == Funcs \cup {NoFunc}

Init ==
  /\ VInit /\ LInit
  /\ source = [body   |-> [f \in Owners |-> << >>],
               locals |-> [f \in Owners |-> << >>],
               funcs  |-> << >>, defined |-> {}, looped |-> {}, count |-> 0]

Room == source.count < IF errors THEN MaxWithErrors ELSE MaxItems
Deeper == Room /\ Len(queue_stack) < MaxDepth

\* The source of a statement in the function it stands in, before and after
\* the step: the next number names it.
Here(items) == [source EXCEPT !.body[Within] = @ \o items, !.count = @ + 1]
Closing(items) == [source EXCEPT !.body[Within] = @ \o items]
Next1 == source.count + 1

Lowered(A, s) ==
  IF errors' THEN /\ UNCHANGED lvars
                  /\ source' = [source EXCEPT !.count = s.count]
             ELSE A /\ source' = s

-----------------------------------------------------------------------------
Met(f) ==
  IF f \in Range(source.funcs) THEN source.funcs ELSE Append(source.funcs, f)

MayNest == NestInBodies \/ ~(In("loop") \/ In("switch"))

DeclareFunction(f) ==
  /\ Room
  /\ VDeclareFunction(f)
  /\ Lowered(LDeclareFunction(f),
             [source EXCEPT !.funcs = Met(f), !.count = @ + 1])

RepeatMark(f) ==
  /\ Room
  /\ VDuplicate(f)
  /\ Lowered(FALSE, [source EXCEPT !.count = @ + 1])

EnterFunction(f) ==
  LET ps == [i \in 1 .. Params[f] |-> << f, 0 - i >>]
  IN  /\ Deeper
      /\ f \notin source.defined /\ MayNest
      /\ VEnterFunction(f)
      /\ Lowered(LEnterFunction(f, ps),
                 [source EXCEPT !.funcs = Met(f), !.defined = @ \cup {f},
                                !.locals[f] = ps, !.count = @ + 1])

ExitFunction == \E returns \in BOOLEAN :
  VExitFunction(returns) /\ Lowered(LExitFunction, source)

ExitProgram ==
  /\ VExitProgram
  /\ Lowered(LExitProgram,
             [source EXCEPT !.body[NoFunc] = Append(@, Item("return", 0))])

\* init: none, a constant, or a value that has to be computed.
Inits(v, init) == IF init = "value" THEN << Item("init", v) >> ELSE << >>
Looped(v, init) == IF init \notin {"none", "expr"} /\ In("loop") THEN {v} ELSE {}

VarDecl(init) ==
  LET v == << Within, Next1 >>
  IN  /\ Room
      /\ Stays(DeclAllowed)
      /\ Lowered(LVarDecl(v, Inits(v, init)),
                 [Here(Inits(v, init)) EXCEPT
                    !.locals[Within] = Append(@, v),
                    !.looped = @ \cup Looped(v, init)])

Statement(k, allowed) ==
  LET items == << Item(k, Next1) >>
  IN  /\ Room
      /\ Stays(allowed)
      /\ Lowered(LStatement(items), Here(items))

ExprStmt == Statement("stmt", TRUE)
Break    == Statement("break", BreakAllowed)
Continue == Statement("continue", ContinueAllowed)
Return   == \E value \in BOOLEAN : Statement("return", ReturnAllowed(value))

\* The labels of a case, or of a range of cases, in the order of their values.
Labels(vs) ==
  { s \in [1 .. Cardinality(vs) -> { Item("case", v) : v \in vs }] :
      \A i, j \in DOMAIN s : i < j => s[i].x.bits < s[j].x.bits }

Case(vs) ==
  /\ Room
  /\ \/ VCase(vs)
     \/ \E before \in SUBSET vs : VRepeatedCase(vs, before)
  /\ \E labels \in Labels(vs) : Lowered(LStatement(labels), Here(labels))

Default ==
  LET items == << Item("default", Next1) >>
  IN  /\ Room
      /\ VDefault \/ (~DefaultAllowed /\ Stays(FALSE))
      /\ Lowered(LStatement(items), Here(items))

EnterIf == LET open == Item("if", Next1)
           IN  Deeper /\ VEnterIf /\ Lowered(LEnter(open), Here(<< open >>))
Else == VElse /\ Lowered(LElse(Item("else", 0)), Closing(<< Item("else", 0) >>))
End == Item("end", 0)
ExitIf == VExit("if") /\ Lowered(LExit(End), Closing(<< End >>))

EnterLabel ==
  LET label == Item("label", Next1)
  IN  Deeper /\ VEnterLabel /\ Lowered(LEnter(label), Here(<< label >>))
ExitLabel == VExit("label") /\ Lowered(LExitLabel, source)

EnterSwitch ==
  LET open == Item("switch", Next1)
  IN  Deeper /\ VEnterSwitch /\ Lowered(LEnter(open), Here(<< open >>))
ExitSwitch == VExitSwitch /\ Lowered(LExit(End), Closing(<< End >>))

\* init: an expression, or the declaration of a variable.
EnterLoop(init) ==
  LET open == Item("loop", Next1)
      v == << Within, Next1 >>
      decls == IF init = "expr" THEN << >> ELSE << v >>
      inits == IF init = "expr" THEN << Item("stmt", Next1) >> ELSE Inits(v, init)
      emitted == [i \in 1 .. Len(decls) |-> Item("decl", v)] \o inits
      next == << Item("next", Next1) >>
  IN  /\ Deeper
      /\ VEnterLoop
      /\ Lowered(LEnterLoop(open, emitted, Range(decls), next),
                 [Here(<< open >> \o inits \o << Item("step", 0) >> \o next
                         \o << Item("body", 0) >>)
                    EXCEPT !.locals[Within] = @ \o decls,
                           !.looped = @ \cup Looped(v, init)])
ExitLoop == VExit("loop") /\ Lowered(LExit(End), Closing(<< End >>))

Finished == validated /\ UNCHANGED vars

Next ==
  \/ \E f \in Funcs : DeclareFunction(f) \/ RepeatMark(f) \/ EnterFunction(f)
  \/ ExitFunction \/ ExitProgram
  \/ \E init \in DeclInits : VarDecl(init)
  \/ ExprStmt \/ Break \/ Continue \/ Return
  \/ \E ty \in { v.ty : v \in CaseVals } :
       \E vs \in SUBSET { v \in CaseVals : v.ty = ty } \ {{}} : Case(vs)
  \/ Default
  \/ EnterIf \/ Else \/ ExitIf
  \/ EnterLabel \/ ExitLabel
  \/ EnterSwitch \/ ExitSwitch
  \/ \E init \in LoopInits : EnterLoop(init)
  \/ ExitLoop
  \/ Finished

Spec == Init /\ [][Next]_vars

-----------------------------------------------------------------------------
(* Properties of the program that has been lowered.  *)
Defined == { f \in Funcs : functions[f].has_definition }
Bodies == { functions[f].body : f \in Defined } \cup {prog.progitems}

\* The nodes of both walks keep their types.
TypeOK == ValidatorTypeOK /\ LIRTypeOK

\* The walks keep their types, and the Validator's trackers its nodes.
VisitsInStep == TypeOK /\ TrackersInStep

\* However functions, loops, branches and labels nest, hoisting
\* (lib/lowering/lir/synthesizer.cpp:397-470, 541-842) leaves the statements
\* of a function in the order of the source and in that function, its locals
\* in the order of their declarations, and every function met exactly once
\* among the functions of the program.
SourceOrderKept ==
  LET names(items) == [i \in DOMAIN items |-> items[i].x]
  IN  prog.done =>
        /\ \A f \in Defined :
             /\ functions[f].body = source.body[f]
             /\ names(functions[f].locals) = source.locals[f]
        /\ names(prog.functions) = source.funcs
        /\ names(prog.globals) = source.locals[NoFunc]
        /\ prog.progitems = source.body[NoFunc]

\* The statements around position i of a body, by where they open.
Around(body, i, kinds) ==
  { j \in 1 .. i - 1 :
      /\ body[j].k \in kinds
      /\ \A n \in j .. i - 1 :
           Cardinality({ m \in j .. n : body[m].k \in {"if", "loop", "switch"} })
             > Cardinality({ m \in j .. n : body[m].k = "end" }) }

\* What the Validator accepts the CFGBuilder must be able to place: a break
\* finds a loop or a switch in the LIR of its own function, a continue a loop,
\* a case a switch (assertions of lib/lowering/cfg/builder.cpp:308-441), and
\* no switch holds one value twice or two defaults
\* (lib/semantics/validator.cpp:505-611).
JumpsPlaced ==
  prog.done => \A body \in Bodies : \A i \in DOMAIN body :
    LET in(kinds) == Around(body, i, kinds)
        mine == CHOOSE j \in in({"switch"}) : \A n \in in({"switch"}) : n <= j
    IN  /\ body[i].k = "break" => in({"loop", "switch"}) # {}
        /\ body[i].k = "continue" => in({"loop"}) # {}
        /\ body[i].k \in {"case", "default"} =>
             /\ in({"switch"}) # {}
             /\ \A n \in 1 .. i - 1 :
                  /\ body[n].k = body[i].k
                  /\ body[i].k = "case" => body[n].x = body[i].x
                  => LET other == Around(body, n, {"switch"})
                     IN  ~(mine \in other /\ \A o \in other : o <= mine)

\* A variable declared in a loop gets its initial value each time around, as
\* in C: doc/lang/2-primitive-types.md:38, "Initialization is also identical
\* to C."
InitializedEachTime ==
  prog.done => \A f \in Defined : \A v \in source.looped :
    v[1] = f => Item("init", v) \in Range(functions[f].body)
=============================================================================
