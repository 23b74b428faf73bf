--------------------------- MODULE LIRSynthesizer ---------------------------
(***************************************************************************)
(* lower::lir::LIRSynthesizer: functions and variables nest in MIR and do  *)
(* not in LIR, where functions are items of the program and variables are  *)
(* locals of a function.  Visits emit into current_q; the visit of a       *)
(* statement with nested items puts a queue of its own on top, sorts what  *)
(* its parts have emitted, and emits the functions, the declarations and   *)
(* then itself into the queue below.                                       *)
(*                                                                         *)
(* An item is [k, x]: a function, a declaration, or a token of a statement *)
(* list.  A statement that holds lists, one item in the code, is written   *)
(* out as its brackets and what is between them.                           *)
(***************************************************************************)
EXTENDS Naturals, Sequences, FiniteSets

CONSTANTS LFuncs,       \* function symbols
          Params        \* per function: how many parameters

ASSUME LIRAssumption == Params \in [LFuncs -> Nat]

VARIABLES current_q, queue_stack,
          visits,       \* the locals of the visits in progress
          func_stack,
          symbols,      \* LIRSymbolMap: the map of each function, the globals
          functions,    \* the FunctionLIR nodes
          prog          \* prog_lir, once the program has been visited

lvars == << current_q, queue_stack, visits, func_stack, symbols, functions, prog >>

Item(k, x) == [k |-> k, x |-> x]
Sort(item) == IF item.k \in {"func", "decl"} THEN item.k ELSE "item"

\* The items of one sort among the first i, in the order of the queue.
Taken(q, sort) ==
  LET taken[i \in 0 .. Len(q)] ==
        IF i = 0 THEN << >>
        ELSE IF Sort(q[i]) = sort THEN Append(taken[i - 1], q[i])
        ELSE taken[i - 1]
  IN  taken
OfSort(q, sort) == Taken(q, sort)[Len(q)]
FuncsOf(q) == OfSort(q, "func")
DeclsOf(q) == OfSort(q, "decl")
ItemsOf(q) == OfSort(q, "item")

\* The locals of a visit: what it hoists, and its own statement so far.
NewVisit(own) == [funcs |-> << >>, decls |-> << >>, own |-> own]
Visit == visits[Len(visits)]

\* The loop over consume() with which every such visit sorts its queue.
Drained(v, q) ==
  [funcs |-> v.funcs \o FuncsOf(q), decls |-> v.decls \o DeclsOf(q),
   own |-> v.own \o ItemsOf(q)]

NoFunction == [made |-> FALSE, has_definition |-> FALSE,
               locals |-> << >>, body |-> << >>]

LInit ==
  /\ current_q = << >> /\ queue_stack = << >> /\ visits = << >>
  /\ func_stack = << >>
  /\ symbols = [funcs |-> [f \in LFuncs |-> {}], globals |-> {}]
  /\ functions = [f \in LFuncs |-> NoFunction]
  /\ prog = [done |-> FALSE, functions |-> << >>, globals |-> << >>,
             progitems |-> << >>]

-----------------------------------------------------------------------------
(* The queues.  *)
Emit(items) == current_q' = current_q \o items

PushQueue(own) ==
  /\ queue_stack' = Append(queue_stack, current_q)
  /\ current_q' = << >>
  /\ visits' = Append(visits, NewVisit(own))

Below == queue_stack[Len(queue_stack)]

\* What a finished visit emits: the functions and the declarations it
\* hoists before its own statement.
HoistedNotFuncs(v, close) == v.decls \o v.own \o close
Hoisted(v, close) == v.funcs \o v.decls \o v.own \o close

PopQueue(items) ==
  /\ current_q' = Below \o items
  /\ queue_stack' = SubSeq(queue_stack, 1, Len(queue_stack) - 1)
  /\ visits' = SubSeq(visits, 1, Len(visits) - 1)

-----------------------------------------------------------------------------
(* Functions.  The FunctionLIR is made and emitted where the symbol is met  *)
(* first, and found again by its back-pointer.                              *)
Made(f) == IF functions[f].made THEN << >> ELSE << Item("func", f) >>

LDeclareFunction(f) ==
  /\ Emit(Made(f))
  /\ functions' = [functions EXCEPT ![f].made = TRUE]
  /\ UNCHANGED << queue_stack, visits, func_stack, symbols, prog >>

\* vs: the symbols of the parameters, which become locals.
LEnterFunction(f, vs) ==
  /\ queue_stack' = Append(queue_stack, current_q \o Made(f))
  /\ current_q' = [i \in 1 .. Params[f] |-> Item("decl", vs[i])]
  /\ visits' = Append(visits, NewVisit(<< >>))
  /\ func_stack' = Append(func_stack, f)
  /\ functions' = [functions EXCEPT ![f].made = TRUE, ![f].has_definition = TRUE]
  /\ symbols' = [symbols EXCEPT !.funcs[f] = { vs[i] : i \in 1 .. Params[f] }]
  /\ UNCHANGED prog

LExitFunction ==
  LET f == func_stack[Len(func_stack)]
      v == Drained(Visit, current_q)
  IN  /\ functions' = [functions EXCEPT ![f].locals = v.decls, ![f].body = v.own]
      /\ func_stack' = SubSeq(func_stack, 1, Len(func_stack) - 1)
      /\ PopQueue(v.funcs)
      /\ UNCHANGED << symbols, prog >>

\* The end of the program: implicit main gets a return.
LExitProgram ==
  LET v == Drained(NewVisit(<< >>), current_q)
  IN  /\ prog' = [done |-> TRUE, functions |-> v.funcs, globals |-> v.decls,
                  progitems |-> Append(v.own, Item("return", 0))]
      /\ current_q' = << >>
      /\ UNCHANGED << queue_stack, visits, func_stack, symbols, functions >>

-----------------------------------------------------------------------------
(* Variables.  inits: the statements that initialize v where it is declared:  *)
(* none if it has no initializer or the whole of it is a constant, which is   *)
(* attached to the declaration.                                               *)
WithVarsOutermost(vs) ==
  IF func_stack = << >>
  THEN [symbols EXCEPT !.globals = @ \cup vs]
  ELSE [symbols EXCEPT !.funcs[func_stack[1]] = @ \cup vs]

WithVars(vs) ==
  IF func_stack = << >>
  THEN [symbols EXCEPT !.globals = @ \cup vs]
  ELSE [symbols EXCEPT !.funcs[func_stack[Len(func_stack)]] = @ \cup vs]

LVarDecl(v, inits) ==
  /\ Emit(<< Item("decl", v) >> \o inits)
  /\ symbols' = WithVars({v})
  /\ UNCHANGED << queue_stack, visits, func_stack, functions, prog >>

-----------------------------------------------------------------------------
(* Statements.  *)
LStatement(items) ==
  /\ Emit(items)
  /\ UNCHANGED << queue_stack, visits, func_stack, symbols, functions, prog >>

\* if, switch: the condition emits nothing.
LEnter(open) ==
  /\ PushQueue(<< open >>)
  /\ UNCHANGED << func_stack, symbols, functions, prog >>

LElse(sep) ==
  /\ visits' = [visits EXCEPT ![Len(visits)] =
                  Drained(@, Append(current_q, sep))]
  /\ current_q' = << >>
  /\ UNCHANGED << queue_stack, func_stack, symbols, functions, prog >>

LExit(close) ==
  /\ PopQueue(Hoisted(Drained(Visit, current_q), << close >>))
  /\ UNCHANGED << func_stack, symbols, functions, prog >>

\* A label is emitted by itself, and the items of its statement behind it.
LExitLabel ==
  /\ PopQueue(Hoisted(Drained(Visit, current_q), << >>))
  /\ UNCHANGED << func_stack, symbols, functions, prog >>

\* A loop visits init, condition, step and body, and sorts after each.
\* init: what the visit of init emits; vs: the variables it declares.
LEnterLoop(open, init, vs, step) ==
  /\ queue_stack' = Append(queue_stack, current_q)
  /\ visits' = Append(visits, Drained(Drained(NewVisit(<< open >>),
                                              Append(init, Item("step", 0))),
                                      Append(step, Item("body", 0))))
  /\ current_q' = << >>
  /\ symbols' = WithVars(vs)
  /\ UNCHANGED << func_stack, functions, prog >>

-----------------------------------------------------------------------------
(* Properties.                                                             *)
LIRTypeOK ==
  /\ \A i \in 1 .. Len(current_q) : DOMAIN current_q[i] = {"k", "x"}
  /\ Len(visits) = Len(queue_stack)
  /\ \A i \in 1 .. Len(func_stack) : func_stack[i] \in LFuncs
  /\ \A f \in LFuncs : DOMAIN functions[f] = DOMAIN NoFunction
  /\ prog.done \in BOOLEAN

Vars(items) == { items[i].x : i \in 1 .. Len(items) }

\* A variable has its storage where its declaration ends up, and is found
\* through the map of the function it was declared in: the two must be the
\* same function (insert_varsym looks at func_stack, the declaration travels
\* through the queues), and each variable must be declared once.
StorageWhereDeclared == prog.done =>
  /\ \A f \in LFuncs : functions[f].has_definition =>
       /\ Vars(functions[f].locals) = symbols.funcs[f]
       /\ Len(functions[f].locals) = Cardinality(symbols.funcs[f])
  /\ Vars(prog.globals) = symbols.globals
  /\ Len(prog.globals) = Cardinality(symbols.globals)
=============================================================================
