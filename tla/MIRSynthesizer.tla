--------------------------- MODULE MIRSynthesizer ---------------------------
(***************************************************************************)
(* sema::mir::MIRSynthesizer as a visitor of the AST: how its visits nest, *)
(* what each hands to the one that called it (last_result), the scopes it  *)
(* pushes and pops on the way, and how a user error (UnableToContinue)     *)
(* unwinds through it.  The statements are chosen by the environment; their*)
(* types and expressions are abstracted to "this visit throws or not".     *)
(***************************************************************************)
EXTENDS Naturals, Sequences

CONSTANTS Faults,       \* what a program may do wrong, a subset of AllFaults
          MaxDepth,     \* bound: visits in progress
          MaxScopes,    \* bound: scopes pushed
          MaxErrors     \* bound: errors found

AllFaults ==
  { "header",           \* an error in the declarator of a function
    "error",            \* an error in a statement, a declaration or an expression
    "report",           \* an error after which the visit goes on
    "constant",         \* errors an ExprValidator of its own finds in a constant
    "eval",             \* an EvalSemanticError no visit catches
    "escape",           \* a TypeSemError no visit catches
    "argc" }            \* a variadic HolyC function with a parameter argc or argv

ASSUME MIRSynthesizerAssumption ==
  Faults \subseteq AllFaults /\ MaxDepth \in Nat \ {0} /\ MaxScopes \in Nat /\ MaxErrors \in Nat

VARIABLES frames,       \* the visits in progress, outermost first
          scopes,       \* the scopes around syms.current, itself last, without the global one
          made,         \* scopes pushed so far
          found,        \* found_errors
          threw,        \* an error was thrown
          noticed,      \* errors of the program found so far, numbered in that order
          reported,     \* diagnostics, those of the synthesizer itself
          told,         \* what Ecc::print_diagnostic was given
          tied,         \* per finished function: the scope of its body, the one tied to it
          outcome       \* how generate_mir ended, "running" until then

errors == << found, threw, noticed, reported, told >>

vars == << frames, scopes, made, errors, tied, outcome >>

\* Lists of items take whatever an item leaves in last_result, nothing at all
\* included.  The other statements have sub-statements and take a StmtMIR for
\* each: "if" one or two, "for" and "single" (switch, while, do, case, default,
\* label) one.
Lists == {"program", "function", "compound"}
Statements == {"if", "for", "single"}
Results == {"stmt", "decl", "func", "none"}

\* own: the scope the visit pushed, 0 if none; got: sub-statements taken.
Visit(node, own) == [node |-> node, own |-> own, got |-> 0]

Top == frames[Len(frames)]
Front(s) == SubSeq(s, 1, Len(s) - 1)
Room == Len(frames) < MaxDepth /\ made < MaxScopes
Running == outcome = "running"

Init ==
  /\ frames = << Visit("program", 0) >>
  /\ scopes = << >>
  /\ made = 0
  /\ found = FALSE /\ threw = FALSE
  /\ noticed = 0 /\ reported = << >> /\ told = << >>
  /\ tied = {}
  /\ outcome = "running"

\* Whether visit f may have one more item or sub-statement.  A function has
\* items when it has the scope of its body.
MayHaveItem(f) ==
  CASE f.node = "function" -> f.own # 0
    [] f.node = "if"       -> f.got < 2
    [] f.node \in {"for", "single"} -> f.got = 0
    [] OTHER -> TRUE

\* A visit has returned r to the one on top of fs.  take_last_result on a
\* result of another type is unreachable code.
Deliver(fs, r) ==
  IF fs[Len(fs)].node \in Lists
  THEN frames' = fs /\ UNCHANGED outcome
  ELSE /\ frames' = [fs EXCEPT ![Len(fs)].got = @ + 1]
       /\ outcome' = IF r = "stmt" THEN outcome ELSE "ice"

PushScope == made' = made + 1 /\ scopes' = Append(scopes, made + 1)
PopScope == scopes' = IF scopes = << >> THEN scopes ELSE Front(scopes)

-----------------------------------------------------------------------------
\* A statement or declaration without sub-statements.  Only lists of items
\* have declarations.
VisitLeaf(r) ==
  /\ Running
  /\ MayHaveItem(Top)
  /\ r = "decl" => Top.node \in Lists
  /\ Deliver(frames, r)
  /\ UNCHANGED << scopes, made, errors, tied >>

EnterStatement(node) ==
  /\ Running /\ Room
  /\ MayHaveItem(Top)
  /\ IF node = "for"
     THEN /\ PushScope
          /\ frames' = Append(frames, Visit(node, made + 1))
     ELSE /\ frames' = Append(frames, Visit(node, 0))
          /\ UNCHANGED << scopes, made >>
  /\ UNCHANGED << errors, tied, outcome >>

ExitStatement ==
  /\ Running
  /\ Top.node \in Statements /\ Top.got > 0
  /\ IF Top.node = "for" THEN PopScope ELSE UNCHANGED scopes
  /\ Deliver(Front(frames), "stmt")
  /\ UNCHANGED << made, errors, tied >>

\* The ScopeGuard of visit(CompoundStatement) pushes and pops.
EnterCompound ==
  /\ Running /\ Room
  /\ MayHaveItem(Top)
  /\ PushScope
  /\ frames' = Append(frames, Visit("compound", made + 1))
  /\ UNCHANGED << errors, tied, outcome >>

ExitCompound ==
  /\ Running
  /\ Top.node = "compound"
  /\ PopScope
  /\ Deliver(Front(frames), "stmt")
  /\ UNCHANGED << made, errors, tied >>

\* Functions nest, as items of a list.  Before its body a function has no scope.
EnterFunction ==
  /\ Running /\ Room
  /\ Top.node \in Lists /\ MayHaveItem(Top)
  /\ frames' = Append(frames, Visit("function", 0))
  /\ UNCHANGED << scopes, made, errors, tied, outcome >>

InHeader == Top.node = "function" /\ Top.own = 0

\* parse_function_body.  A Symbol* thrown by insert_implicit is caught by
\* nobody, not even Ecc::run.
EnterBody(clash) ==
  /\ Running
  /\ InHeader
  /\ made < MaxScopes
  /\ clash => "argc" \in Faults
  /\ PushScope
  /\ frames' = [frames EXCEPT ![Len(frames)].own = made + 1]
  /\ outcome' = IF clash THEN "uncaught" ELSE outcome
  /\ UNCHANGED << errors, tied >>

\* Mutant of ExitFunction: the current scope is read after it is popped.
ExitFunctionTiesOuter ==
  /\ Running
  /\ Top.node = "function" /\ ~InHeader
  /\ tied' = tied \cup {[body |-> Top.own,
                          scope |-> IF Len(scopes) = 1 THEN 0 ELSE scopes[Len(scopes) - 1]]}
  /\ PopScope
  /\ Deliver(Front(frames), "func")
  /\ UNCHANGED << made, errors >>

\* The scope tied to the function is the one that is current at the end.
ExitFunction ==
  /\ Running
  /\ Top.node = "function" /\ ~InHeader
  /\ tied' = tied \cup {[body |-> Top.own, scope |-> scopes[Len(scopes)]]}
  /\ PopScope
  /\ Deliver(Front(frames), "func")
  /\ UNCHANGED << made, errors >>

-----------------------------------------------------------------------------
(* Errors.  Only visit(Function) and visit(CompoundStatement) catch one, and *)
(* of what was pushed on the way only the scope of the catching compound,    *)
(* which a guard holds, is popped.                                           *)

Catching == {i \in DOMAIN frames : frames[i].node \in {"function", "compound"}}

\* add_error, of one that has just been found.
AddError ==
  /\ noticed < MaxErrors
  /\ noticed' = noticed + 1
  /\ reported' = Append(reported, noticed + 1)

\* drain, of the n errors another visitor has just found.
Drain(n) ==
  /\ noticed + n <= MaxErrors
  /\ noticed' = noticed + n
  /\ reported' = reported \o [k \in 1 .. n |-> noticed + k]

\* Nothing calls add_warning: the diagnostics are the errors.
HasErrors == reported # << >>
HasDiagnostics == HasErrors

\* What Backend::run prints when nobody before it catches the error.
Unwind ==
  /\ threw' = TRUE
  /\ IF Catching = {}
     THEN /\ outcome' = "abandoned" /\ told' = reported'
          /\ UNCHANGED << frames, scopes, found >>
     ELSE LET i == CHOOSE k \in Catching : \A j \in Catching : j <= k
          IN  /\ found' = TRUE /\ UNCHANGED told
              /\ IF frames[i].node = "compound" THEN PopScope ELSE UNCHANGED scopes
              /\ Deliver(SubSeq(frames, 1, i - 1), "none")

Throw ==
  /\ Running
  /\ (IF InHeader THEN "header" ELSE "error") \in Faults
  /\ AddError
  /\ Unwind
  /\ UNCHANGED << made, tied >>

\* add_error without a throw, as for a duplicate qualifier.
Report ==
  /\ Running
  /\ "report" \in Faults
  /\ AddError
  /\ UNCHANGED << frames, scopes, made, found, threw, told, tied, outcome >>

\* Mutant of CheckConstant: the errors stay with the ExprValidator.
CheckConstantUndrained(n) ==
  /\ Running
  /\ "constant" \in Faults
  /\ noticed + n <= MaxErrors
  /\ noticed' = noticed + n /\ UNCHANGED reported
  /\ Unwind
  /\ UNCHANGED << made, tied >>

\* A constant expression, or the initializer of a constexpr, is checked by an
\* ExprValidator with diagnostics of its own.  Whether it throws or returns
\* with errors, they are drained and the visit throws.
CheckConstant(n) ==
  /\ Running
  /\ "constant" \in Faults
  /\ Drain(n)
  /\ Unwind
  /\ UNCHANGED << made, tied >>

\* do_visit(ConstExpression) does not catch the EvalSemanticError of its
\* evaluation, and Ecc::run prints nothing but that.
EvalEscape ==
  /\ Running
  /\ "eval" \in Faults
  /\ noticed < MaxErrors
  /\ noticed' = noticed + 1
  /\ threw' = TRUE
  /\ told' = << noticed + 1 >>
  /\ outcome' = "raised"
  /\ UNCHANGED << frames, scopes, made, found, reported, tied >>

\* Caught by Backend::run only, which prints it after the others.
Escape ==
  /\ Running
  /\ "escape" \in Faults
  /\ noticed < MaxErrors
  /\ noticed' = noticed + 1
  /\ threw' = TRUE
  /\ told' = Append(reported, noticed + 1)
  /\ outcome' = "abandoned"
  /\ UNCHANGED << frames, scopes, made, found, reported, tied >>

\* Backend::run looks at found_errors only when there are diagnostics.
Finish ==
  /\ Running
  /\ Top.node = "program"
  /\ told' = IF HasDiagnostics THEN reported ELSE told
  /\ outcome' = IF HasDiagnostics /\ (HasErrors \/ found) THEN "abandoned" ELSE "done"
  /\ UNCHANGED << frames, scopes, made, found, threw, noticed, reported, tied >>

Next ==
  \/ \E r \in {"stmt", "decl"} : VisitLeaf(r)
  \/ \E node \in Statements : EnterStatement(node)
  \/ ExitStatement
  \/ EnterCompound
  \/ ExitCompound
  \/ EnterFunction
  \/ \E clash \in BOOLEAN : EnterBody(clash)
  \/ ExitFunction
  \/ Throw
  \/ Report
  \/ \E n \in 1 .. 2 : CheckConstant(n)
  \/ EvalEscape
  \/ Escape
  \/ Finish

Spec == Init /\ [][Next]_vars

-----------------------------------------------------------------------------
(* Properties *)

ScopeIds == 1 .. MaxScopes

\* The types of the synthesizer's state.
TypeOK ==
  /\ frames \in Seq([node : Lists \cup Statements, own : ScopeIds \cup {0}, got : 0 .. 2])
  /\ frames # << >> /\ frames[1].node = "program"
  /\ scopes \in Seq(ScopeIds)
  /\ made \in 0 .. MaxScopes
  /\ found \in BOOLEAN /\ threw \in BOOLEAN
  /\ noticed \in 0 .. MaxErrors
  /\ reported \in Seq(1 .. MaxErrors) /\ told \in Seq(1 .. MaxErrors)
  /\ tied \subseteq [body : ScopeIds, scope : ScopeIds \cup {0}]
  /\ outcome \in {"running", "done", "abandoned", "raised", "ice", "uncaught"}

\* The scopes of the first i visits of fs, outermost first.
OwnedTo(fs) ==
  LET of[i \in 0 .. Len(fs)] ==
        IF i = 0 THEN << >>
        ELSE IF fs[i].own = 0 THEN of[i - 1] ELSE Append(of[i - 1], fs[i].own)
  IN  of

\* Those of the visits in progress.
Owned == OwnedTo(frames)[Len(frames)]

\* Every construct is lowered inside the scope it pushed.  Until an error is
\* thrown the scopes around the current one are exactly those of the visits
\* in progress, though three different mechanisms push and pop them; after
\* one, scopes may be left behind but never is a live one popped.
InsideOwnScopes ==
  /\ ~threw => scopes = Owned
  /\ Running => \A i \in DOMAIN Owned : \E k \in i .. Len(scopes) : scopes[k] = Owned[i]

\* A function that is finished before any error is tied to the scope its
\* parameters were inserted in, whatever its body held.
TiedToBody == ~threw => \A t \in tied : t.scope = t.body

\* Scopes follow the visits, and functions know their own.
ScopesTied == TypeOK /\ InsideOwnScopes /\ TiedToBody

\* No program with an error gets past MIR synthesis, and whoever gives it up
\* has been told of every error once, in the order they were found.
\* found_errors alone would not stop one: whatever a visit throws and another
\* swallows must have left its diagnostics with the synthesizer.
ErrorsTold ==
  /\ outcome = "done" => noticed = 0 /\ ~threw
  /\ outcome = "abandoned" => noticed # 0 /\ told = [k \in 1 .. noticed |-> k]

=============================================================================
