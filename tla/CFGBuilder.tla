----------------------------- MODULE CFGBuilder -----------------------------
(***************************************************************************)
(* lower::cfg::CFGBuilder, statement level: the visitor that turns the LIR *)
(* of each function into basic blocks.  The LIR is not stored: it is the   *)
(* sequence of visits, and the environment chooses the next one.  A visit  *)
(* that recurses into the items of a statement is split where it recurses: *)
(* EnterX runs up to the first item, ExitX from the last item on, and what *)
(* the C++ locals hold in between is a frame of "stack".                   *)
(*                                                                         *)
(* The builder's infostack is the subsequence of loop and switch frames:   *)
(* push_info and pop_info happen exactly where those are pushed and        *)
(* popped, so a frame also carries its NestedStmtInfo.                     *)
(***************************************************************************)
EXTENDS CFGraph, FiniteSets

CONSTANTS Labels,       \* the labels a function may declare
          MaxDepth,     \* bound: nesting of statements
          MaxFuncs      \* bound: functions of the program

ASSUME BoundsAssumption == MaxDepth \in Nat \ {0} /\ MaxFuncs \in Nat

VARIABLES g,            \* the graph of curr_func
          curr,         \* curr_blk
          stack,        \* the visits in progress, outermost first
          pending,      \* pending_gotos: label -> blocks whose Goto waits for it
          labeled,      \* labeled_blocks of curr_func: label -> block or Null
          used,         \* labels the gotos of curr_func name
          funcs         \* functions begun so far

vars == << g, curr, stack, pending, labeled, used, funcs >>

-----------------------------------------------------------------------------
(* Frames *)

FuncFrame == [stmt |-> "func"]

IfFrames ==
  [stmt : {"if"}, blk : Blk, thenExit : Blk \cup {Null}, inElse : BOOLEAN]

\* init .. stepExit are Null when the loop has no such part.
LoopFrames ==
  [stmt : {"loop"}, entry : Blk, init : Blk \cup {Null}, initExit : Blk \cup {Null},
   cond : Blk \cup {Null}, condExit : Blk \cup {Null},
   step : Blk \cup {Null}, stepExit : Blk \cup {Null},
   body : Blk, dowhile : BOOLEAN, merges : Seq(Blk)]

SwitchFrames == [stmt : {"switch"}, blk : Blk, merges : Seq(Blk)]

Frames == {FuncFrame} \cup IfFrames \cup LoopFrames \cup SwitchFrames

\* The loops MIR lowers to: while, do-while and for.
Shapes ==
  { s \in [init : BOOLEAN, cond : BOOLEAN, step : BOOLEAN, dowhile : BOOLEAN] :
      s.dowhile => s.cond /\ ~s.init /\ ~s.step }

Top == stack[Len(stack)]
Push(f) == Append(stack, f)
Pop == SubSeq(stack, 1, Len(stack) - 1)
SetTop(f) == [stack EXCEPT ![Len(stack)] = f]

-----------------------------------------------------------------------------
(* Pieces the handlers share *)

\* A handler may run: inside a function, and no assertion has failed.
Running == stack # << >> /\ g.ice = ""

\* "if (curr_blk->is_terminated()) curr_blk = create_block()"
Opens == IF Terminated(g, curr) THEN 1 ELSE 0
OpenGraph == IF Terminated(g, curr) THEN Create(g) ELSE g
OpenBlock == IF Terminated(g, curr) THEN Fresh(g) ELSE curr

\* Evaluating an expression leaves the current block alone, or, when it is a
\* short-circuit operator, ends it and continues in the block that merges.
EvalSize(branches) == IF branches THEN 2 ELSE 0
EvalGraph(h, b, branches) ==
  IF ~branches THEN AddInstruction(h, b)
  ELSE LET rhs   == Fresh(h)
           merge == rhs + 1
           lhs   == Terminate(Create(Create(h)), b, "if")
       IN  GotoTo(SetElse(SetThen(lhs, b, rhs), b, merge), rhs, merge)
EvalBlock(h, b, branches) == IF branches THEN h.n + 2 ELSE b

\* The block bound, checked before a handler that creates k blocks runs.
Room(k) == g.n + k <= MaxBlocks

\* find_info: the innermost frame of one of these statements, 0 if none.
FindInfo(stmts) ==
  LET found == {i \in DOMAIN stack : stack[i].stmt \in stmts}
  IN  IF found = {} THEN 0
      ELSE CHOOSE i \in found : \A j \in found : j <= i

-----------------------------------------------------------------------------
(* Functions *)

Init ==
  /\ g = EmptyGraph
  /\ curr = Entry
  /\ stack = << >>
  /\ pending = [l \in Labels |-> << >>]
  /\ labeled = [l \in Labels |-> Null]
  /\ used = {}
  /\ funcs = 0

EnterFunction ==
  /\ stack = << >>
  /\ g.ice = ""
  /\ funcs < MaxFuncs
  /\ funcs' = funcs + 1
  /\ g' = EmptyGraph
  /\ curr' = Entry
  /\ stack' = << FuncFrame >>
  /\ labeled' = [l \in Labels |-> Null]
  /\ used' = {}
  /\ UNCHANGED pending

\* A goto to a label its function does not declare never reaches the builder.
ExitFunction ==
  /\ Running
  /\ Top.stmt = "func"
  /\ \A l \in used : labeled[l] # Null
  /\ stack' = << >>
  /\ UNCHANGED << g, curr, pending, labeled, used, funcs >>

-----------------------------------------------------------------------------
(* Statements without nested items *)

VisitExprStmt(branches) ==
  /\ Running
  /\ Room(Opens + EvalSize(branches))
  /\ g' = EvalGraph(OpenGraph, OpenBlock, branches)
  /\ curr' = EvalBlock(OpenGraph, OpenBlock, branches)
  /\ UNCHANGED << stack, pending, labeled, used, funcs >>

\* Mutant of VisitReturn: no new block when the current one is terminated.
VisitReturnAnywhere(branches) ==
  /\ Running
  /\ Room(EvalSize(branches))
  /\ g' = Terminate(EvalGraph(g, curr, branches), EvalBlock(g, curr, branches), "return")
  /\ curr' = EvalBlock(g, curr, branches)
  /\ UNCHANGED << stack, pending, labeled, used, funcs >>

\* The value returned, if any, is evaluated first.
VisitReturn(branches) ==
  /\ Running
  /\ Room(Opens + EvalSize(branches))
  /\ LET h == EvalGraph(OpenGraph, OpenBlock, branches)
         b == EvalBlock(OpenGraph, OpenBlock, branches)
     IN  /\ g' = Terminate(h, b, "return")
         /\ curr' = b
  /\ UNCHANGED << stack, pending, labeled, used, funcs >>

VisitGoto(l) ==
  /\ Running
  /\ Room(Opens)
  /\ curr' = OpenBlock
  /\ LET h == Terminate(OpenGraph, OpenBlock, "goto")
     IN  IF labeled[l] # Null
         THEN /\ g' = SetGoto(h, OpenBlock, labeled[l])
              /\ UNCHANGED pending
         ELSE /\ g' = h
              /\ pending' = [pending EXCEPT ![l] = Append(@, OpenBlock)]
  /\ used' = used \cup {l}
  /\ UNCHANGED << stack, labeled, funcs >>

\* A label is declared once.  num_pending_gotos() == 0 is asserted although
\* only the gotos to l have been resolved.
VisitLabelDecl(l) ==
  /\ Running
  /\ labeled[l] = Null
  /\ Room(1)
  /\ LET new     == Fresh(g)
         entered == GotoIfOpen(Create(g), curr, new)
         linked  == SetGotos(entered, pending[l], new)
     IN  /\ g' = IF \A m \in Labels \ {l} : pending[m] = << >>
                 THEN linked
                 ELSE Fail(linked, "num_pending_gotos() == 0")
         /\ curr' = new
         /\ labeled' = [labeled EXCEPT ![l] = new]
  /\ pending' = [pending EXCEPT ![l] = << >>]
  /\ UNCHANGED << stack, used, funcs >>

\* CaseLIR and DefaultLIR: the innermost switch, whatever lies in between.
VisitCase ==
  /\ Running
  /\ Room(1)
  /\ LET new     == Fresh(g)
         entered == GotoIfOpen(Create(g), curr, new)
         sw      == FindInfo({"switch"})
     IN  IF sw = 0
         THEN /\ g' = Fail(entered, "unable to find switch NestedStmtInfo")
              /\ UNCHANGED curr
         ELSE /\ g' = AddCase(entered, stack[sw].blk, new)
              /\ curr' = new
  /\ UNCHANGED << stack, pending, labeled, used, funcs >>

VisitBreak ==
  /\ Running
  /\ Room(Opens)
  /\ curr' = OpenBlock
  /\ LET i == FindInfo({"loop", "switch"})
     IN  IF i = 0
         THEN /\ g' = Fail(OpenGraph, "unable to find loop or switch NestedStmtInfo")
              /\ UNCHANGED stack
         ELSE /\ g' = Terminate(OpenGraph, OpenBlock, "goto")
              /\ stack' = [stack EXCEPT ![i].merges = Append(@, OpenBlock)]
  /\ UNCHANGED << pending, labeled, used, funcs >>

\* step, then cond, then body: the first of them the loop has.
ContinueTarget(f) ==
  IF f.step # Null THEN f.step ELSE IF f.cond # Null THEN f.cond ELSE f.body

VisitContinue ==
  /\ Running
  /\ Room(Opens)
  /\ curr' = OpenBlock
  /\ LET i == FindInfo({"loop"})
     IN  IF i = 0
         THEN g' = Fail(OpenGraph, "unable to find loop NestedStmtInfo")
         ELSE g' = GotoTo(OpenGraph, OpenBlock, ContinueTarget(stack[i]))
  /\ UNCHANGED << stack, pending, labeled, used, funcs >>

-----------------------------------------------------------------------------
(* If *)

EnterIf(branches) ==
  /\ Running
  /\ Len(stack) < MaxDepth
  /\ Room(Opens + EvalSize(branches) + 1)
  /\ LET h    == EvalGraph(OpenGraph, OpenBlock, branches)
         b    == EvalBlock(OpenGraph, OpenBlock, branches)
         then == Fresh(h)
     IN  /\ g' = SetThen(Terminate(Create(h), b, "if"), b, then)
         /\ curr' = then
         /\ stack' = Push([stmt |-> "if", blk |-> b, thenExit |-> Null, inElse |-> FALSE])
  /\ UNCHANGED << pending, labeled, used, funcs >>

EnterElse ==
  /\ Running
  /\ Top.stmt = "if" /\ ~Top.inElse
  /\ Room(1)
  /\ g' = SetElse(Create(g), Top.blk, Fresh(g))
  /\ curr' = Fresh(g)
  /\ stack' = SetTop([Top EXCEPT !.thenExit = curr, !.inElse = TRUE])
  /\ UNCHANGED << pending, labeled, used, funcs >>

\* An if without else: the false edge goes straight to the merge block.
ExitIfNoElse ==
  /\ Running
  /\ Top.stmt = "if" /\ ~Top.inElse
  /\ Room(1)
  /\ g' = SetElse(GotoIfOpen(Create(g), curr, Fresh(g)), Top.blk, Fresh(g))
  /\ curr' = Fresh(g)
  /\ stack' = Pop
  /\ UNCHANGED << pending, labeled, used, funcs >>

\* Both branches end in a terminator: there is nothing to merge.
ExitIfBothEnded ==
  /\ Running
  /\ Top.stmt = "if" /\ Top.inElse
  /\ Terminated(g, Top.thenExit) /\ Terminated(g, curr)
  /\ curr' = Top.thenExit
  /\ stack' = Pop
  /\ UNCHANGED << g, pending, labeled, used, funcs >>

ExitIfMerge ==
  /\ Running
  /\ Top.stmt = "if" /\ Top.inElse
  /\ ~(Terminated(g, Top.thenExit) /\ Terminated(g, curr))
  /\ Room(1)
  /\ g' = GotoIfOpen(GotoIfOpen(Create(g), Top.thenExit, Fresh(g)), curr, Fresh(g))
  /\ curr' = Fresh(g)
  /\ stack' = Pop
  /\ UNCHANGED << pending, labeled, used, funcs >>

-----------------------------------------------------------------------------
(* Loops.  init, cond and step are expressions; step is built before body. *)

LoopSize(s) == (IF s.init THEN 1 ELSE 0) + (IF s.cond THEN 1 ELSE 0)
               + (IF s.step THEN 1 ELSE 0) + 1

EnterLoop(s, branches) ==
  /\ Running
  /\ Len(stack) < MaxDepth
  /\ branches => s.cond
  /\ Room(Opens + LoopSize(s) + EvalSize(branches))
  /\ LET entry == OpenBlock
         g1    == Terminate(OpenGraph, entry, "goto")
         init  == IF s.init THEN Fresh(g1) ELSE Null
         g2    == IF s.init THEN AddInstruction(Create(g1), init) ELSE g1
         cond  == IF s.cond THEN Fresh(g2) ELSE Null
         cexit == IF s.cond THEN EvalBlock(Create(g2), cond, branches) ELSE Null
         g3    == IF s.cond
                  THEN Terminate(EvalGraph(Create(g2), cond, branches), cexit, "if")
                  ELSE g2
         step  == IF s.step THEN Fresh(g3) ELSE Null
         g4    == IF s.step THEN AddInstruction(Create(g3), step) ELSE g3
         body  == Fresh(g4)
     IN  /\ g' = Create(g4)
         /\ curr' = body
         /\ stack' = Push([stmt |-> "loop", entry |-> entry,
                           init |-> init, initExit |-> init,
                           cond |-> cond, condExit |-> cexit,
                           step |-> step, stepExit |-> step,
                           body |-> body, dowhile |-> s.dowhile, merges |-> << >>])
  /\ UNCHANGED << pending, labeled, used, funcs >>

\* Mutant of EntryTarget: a do-while tests before its first iteration.
EntryTargetTests(f) ==
  IF f.init # Null THEN f.init ELSE IF f.cond = Null THEN f.body ELSE f.cond

EntryTarget(f) ==
  IF f.init # Null THEN f.init
  ELSE IF f.dowhile \/ f.cond = Null THEN f.body
  ELSE f.cond

\* What runs after the body and the step, and after the init.
BackedgeTarget(f) == IF f.cond # Null THEN f.cond ELSE f.body

BodyTarget(f) ==
  IF ~f.dowhile /\ f.step # Null THEN f.step ELSE BackedgeTarget(f)

ExitLoop ==
  /\ Running
  /\ Top.stmt = "loop"
  /\ Room(1)
  /\ LET f     == Top
         merge == Fresh(g)
         g1    == SetGoto(Create(g), f.entry, EntryTarget(f))
         g2    == IF f.init # Null THEN GotoIfOpen(g1, f.initExit, BackedgeTarget(f)) ELSE g1
         g3    == IF f.cond # Null THEN SetThen(g2, f.condExit, f.body) ELSE g2
         g4    == GotoIfOpen(g3, curr, BodyTarget(f))
         g5    == IF f.step # Null THEN GotoIfOpen(g4, f.stepExit, BackedgeTarget(f)) ELSE g4
         g6    == IF f.cond # Null THEN SetElse(g5, f.condExit, merge) ELSE g5
     IN  /\ g' = SetGotos(g6, f.merges, merge)
         /\ curr' = merge
  /\ stack' = Pop
  /\ UNCHANGED << pending, labeled, used, funcs >>

-----------------------------------------------------------------------------
(* Switch *)

EnterSwitch(branches) ==
  /\ Running
  /\ Len(stack) < MaxDepth
  /\ Room(Opens + EvalSize(branches))
  /\ LET h == EvalGraph(OpenGraph, OpenBlock, branches)
         b == EvalBlock(OpenGraph, OpenBlock, branches)
     IN  /\ g' = Terminate(h, b, "switch")
         /\ curr' = b
         /\ stack' = Push([stmt |-> "switch", blk |-> b, merges |-> << >>])
  /\ UNCHANGED << pending, labeled, used, funcs >>

\* Only the pending breaks are linked to the merge block.
ExitSwitch ==
  /\ Running
  /\ Top.stmt = "switch"
  /\ Room(1)
  /\ g' = SetGotos(Create(g), Top.merges, Fresh(g))
  /\ curr' = Fresh(g)
  /\ stack' = Pop
  /\ UNCHANGED << pending, labeled, used, funcs >>

-----------------------------------------------------------------------------
Next ==
  \/ EnterFunction
  \/ ExitFunction
  \/ \E br \in BOOLEAN : VisitExprStmt(br)
  \/ \E br \in BOOLEAN : VisitReturn(br)
  \/ \E l \in Labels : VisitGoto(l)
  \/ \E l \in Labels : VisitLabelDecl(l)
  \/ VisitCase
  \/ VisitBreak
  \/ VisitContinue
  \/ \E br \in BOOLEAN : EnterIf(br)
  \/ EnterElse
  \/ ExitIfNoElse
  \/ ExitIfBothEnded
  \/ ExitIfMerge
  \/ \E s \in Shapes, br \in BOOLEAN : EnterLoop(s, br)
  \/ ExitLoop
  \/ \E br \in BOOLEAN : EnterSwitch(br)
  \/ ExitSwitch

Spec == Init /\ [][Next]_vars

-----------------------------------------------------------------------------
(* Properties *)

\* The assertions of the builder and of the blocks, "" for none.
Assertions ==
  { "", "block already has terminator", "cannot append instructions to a terminated block",
    "num_pending_gotos() == 0", "unable to find switch NestedStmtInfo",
    "unable to find loop NestedStmtInfo", "unable to find loop or switch NestedStmtInfo" }

Graphs ==
  [ n : Blk, kind : [Blk -> Kinds], tgt : [Blk -> Seq(Blk \cup {Null})],
    succs : [Blk -> Seq(Blk)], incoming : [Blk -> Seq(Blk)], ice : Assertions ]

\* The types of the builder's state.
TypeOK ==
  /\ g \in Graphs
  /\ curr \in Blk
  /\ stack \in Seq(Frames)
  /\ pending \in [Labels -> Seq(Blk)]
  /\ labeled \in [Labels -> Blk \cup {Null}]
  /\ used \subseteq Labels
  /\ funcs \in Nat

\* Every edge is recorded at both ends, only created blocks have edges, and
\* only a block with a terminator has successors: what the walkers and the
\* phi nodes rely on.
EdgesOK(h) ==
  /\ \A b, t \in Blk : t \in Elems(h.succs[b]) <=> b \in Elems(h.incoming[t])
  /\ \A b \in Blk : Elems(h.succs[b]) # {} => b \in Blocks(h) /\ Terminated(h, b)
  /\ \A b \in Blk : Elems(h.succs[b]) \subseteq Blocks(h)

EdgesConsistent == EdgesOK(g)

\* The list link_to grows (num_successors) holds the targets the terminator of
\* b has been given (successors()), in order; those still to come are Null.
Mirrored(h, b) ==
  LET given == Len(h.succs[b])
  IN  /\ given <= Len(h.tgt[b])
      /\ \A i \in 1 .. Len(h.tgt[b]) :
           h.tgt[b][i] = IF i <= given THEN h.succs[b][i] ELSE Null

Times(x, s) == Cardinality({i \in DOMAIN s : s[i] = x})

\* The two descriptions of a block's successors never disagree, and a target's
\* incoming list names the block once for each of its edges to it.
SuccsMirrorTargets ==
  \A b \in Blocks(g) :
    /\ Mirrored(g, b)
    /\ \A t \in Blocks(g) : Times(b, g.incoming[t]) = Times(t, g.succs[b])

\* The state has its types, and the two descriptions agree.
WellFormed == TypeOK /\ SuccsMirrorTargets
=============================================================================
