----------------------------- MODULE CFGProgram -----------------------------
(***************************************************************************)
(* CFGBuilder driven by the functions the earlier passes let through.  The *)
(* module adds what those passes know of the source while the builder      *)
(* lowers it: Validator::always_returns of every statement list in         *)
(* progress, the checks that place break, continue, case and goto, and the *)
(* Return that ends every void function.  A second, independent account of *)
(* the same source, "live", says by the structure of the statements alone  *)
(* whether the current point can be reached; the graph is compared with it.*)
(***************************************************************************)
EXTENDS CFGBuilder

CONSTANT Families       \* the families of programs considered

AllFeatures ==
  { "loop", "switch", "goto",
    "void", "value",    \* functions returning nothing, or a value
    "fallout",          \* a switch body that may end without break
    "nodefault",        \* a switch without default
    "duff",             \* a case label inside a loop inside the switch
    "branch" }          \* expressions that branch

\* has: what the programs of a family may contain; blocks, depth, funcs: bounds.
ASSUME FamiliesAssumption ==
  Families \subseteq [has : SUBSET AllFeatures, blocks : Blk,
                     depth : 1 .. MaxDepth, funcs : 0 .. MaxFuncs]

VARIABLES family,       \* what this program may contain
          src,          \* per frame: what the source analyses know
          live,         \* the current point can be reached, by structure
          result,       \* "void" or "value": the function's return type
          loops         \* the loops finished in this function

srcvars == << family, src, live, result, loops >>
allvars == << vars, srcvars >>

\* entry, then: live where the statement, or its else branch, begins/ends.
\* always, thenAlways: always_returns of the items seen so far, here and in
\* the then branch.  brk, cont, dflt: a live break, a live continue, a
\* default.  infinite: the loop has no condition or a tautological one.
\* last: the last item was a return statement.
Fresh0(e) ==
  [entry |-> e, then |-> FALSE, always |-> FALSE, thenAlways |-> FALSE,
   brk |-> FALSE, cont |-> FALSE, dflt |-> FALSE, infinite |-> FALSE,
   last |-> FALSE]

STop == src[Len(src)]
SPush(r) == Append([src EXCEPT ![Len(src)].last = FALSE], r)

\* The statement on top ends; r: does it always return?
SPop(r) ==
  LET below == Len(src) - 1
  IN  [SubSeq(src, 1, below) EXCEPT ![below].always = @ \/ r]

SInit ==
  /\ Init
  /\ family \in Families
  /\ src = << >> /\ live = FALSE /\ result = "void"
  /\ loops = {}

-----------------------------------------------------------------------------
SEnterFunction ==
  /\ EnterFunction
  /\ src' = << Fresh0(TRUE) >>
  /\ live' = TRUE
  /\ result' \in family.has \cap {"void", "value"}
  /\ loops' = {}

\* MIRSynthesizer appends a Return to a void function that does not end in
\* one, and Validator rejects a function with a value that may fall off.
SExitFunction ==
  /\ ExitFunction
  /\ IF result = "void" THEN STop.last ELSE STop.always
  /\ src' = << >>
  /\ UNCHANGED << live, result, loops >>

Item == src' = [src EXCEPT ![Len(src)].last = FALSE]

SVisitExprStmt(br) ==
  VisitExprStmt(br) /\ Item /\ UNCHANGED << live, result, loops >>

SVisitReturn(br) ==
  /\ br => result = "value"
  /\ VisitReturn(br)
  /\ src' = [src EXCEPT ![Len(src)].always = TRUE, ![Len(src)].last = TRUE]
  /\ live' = FALSE
  /\ UNCHANGED << result, loops >>

SVisitGoto(l) ==
  /\ "goto" \in family.has
  /\ VisitGoto(l)
  /\ Item
  /\ live' = FALSE
  /\ UNCHANGED << result, loops >>

SVisitLabelDecl(l) ==
  /\ "goto" \in family.has
  /\ VisitLabelDecl(l)
  /\ Item
  /\ UNCHANGED << live, result, loops >>

SVisitCase(default) ==
  LET sw == FindInfo({"switch"})
  IN  /\ sw # 0
      /\ "duff" \in family.has \/ FindInfo({"loop"}) < sw
      /\ default => ~src[sw].dflt
      /\ VisitCase
      /\ live' = (live \/ src[sw].entry)
      /\ src' = [src EXCEPT ![sw].dflt = @ \/ default, ![Len(src)].last = FALSE]
      /\ UNCHANGED << result, loops >>

SVisitBreak ==
  LET i == FindInfo({"loop", "switch"})
  IN  /\ i # 0
      /\ VisitBreak
      /\ src' = [src EXCEPT ![i].brk = @ \/ live, ![Len(src)].last = FALSE]
      /\ live' = FALSE
      /\ UNCHANGED << result, loops >>

SVisitContinue ==
  LET i == FindInfo({"loop"})
  IN  /\ i # 0
      /\ VisitContinue
      /\ src' = [src EXCEPT ![i].cont = @ \/ live, ![Len(src)].last = FALSE]
      /\ live' = FALSE
      /\ UNCHANGED << result, loops >>

SEnterIf(br) ==
  EnterIf(br) /\ src' = SPush(Fresh0(live)) /\ UNCHANGED << live, result, loops >>

SEnterElse ==
  /\ EnterElse
  /\ src' = [src EXCEPT ![Len(src)] =
               [STop EXCEPT !.then = live, !.thenAlways = STop.always, !.always = FALSE]]
  /\ live' = STop.entry
  /\ UNCHANGED << result, loops >>

\* Mutant of SExitIf: one branch that returns is taken for both.
SExitIfEither ==
  /\ \/ ExitIfNoElse /\ src' = SPop(FALSE) /\ live' = (live \/ STop.entry)
     \/ /\ ExitIfBothEnded \/ ExitIfMerge
        /\ src' = SPop(STop.always \/ STop.thenAlways)
        /\ live' = (live \/ STop.then)
  /\ UNCHANGED << result, loops >>

SExitIf ==
  /\ \/ ExitIfNoElse /\ src' = SPop(FALSE) /\ live' = (live \/ STop.entry)
     \/ /\ ExitIfBothEnded \/ ExitIfMerge
        /\ src' = SPop(STop.always /\ STop.thenAlways)
        /\ live' = (live \/ STop.then)
  /\ UNCHANGED << result, loops >>

\* Whether a condition is tautological is asked of functions with a value.
SEnterLoop(s, br, tautological) ==
  /\ "loop" \in family.has
  /\ tautological => s.cond /\ result = "value"
  /\ EnterLoop(s, br)
  /\ src' = SPush([Fresh0(live) EXCEPT !.infinite = ~s.cond \/ tautological])
  /\ UNCHANGED << live, result, loops >>

\* The condition is reached from above the loop (not in a do-while), from the
\* end of the body or of the step, or by a continue.
SExitLoop ==
  /\ ExitLoop
  /\ LET again == live \/ STop.cont
         cond  == again \/ (STop.entry /\ ~Top.dowhile)
     IN  live' = (STop.brk \/ (Top.cond # Null /\ cond))
  /\ src' = SPop(STop.infinite)
  /\ loops' = loops \cup {[entry |-> Top.entry, cond |-> Top.cond,
                              step |-> Top.step, body |-> Top.body]}
  /\ UNCHANGED result

SEnterSwitch(br) ==
  /\ "switch" \in family.has
  /\ EnterSwitch(br)
  /\ src' = SPush(Fresh0(live))
  /\ live' = FALSE
  /\ UNCHANGED << result, loops >>

SExitSwitch ==
  /\ ExitSwitch
  /\ "fallout" \in family.has \/ Terminated(g, curr)
  /\ "nodefault" \in family.has \/ STop.dflt
  /\ src' = SPop(FALSE)
  /\ live' = (live \/ STop.brk \/ (STop.entry /\ ~STop.dflt))
  /\ UNCHANGED << result, loops >>

Branches == IF "branch" \in family.has THEN BOOLEAN ELSE {FALSE}

\* The program stays in its family.
Within ==
  /\ UNCHANGED family
  /\ g'.n <= family.blocks /\ Len(stack') <= family.depth /\ funcs' <= family.funcs

SNext ==
  \/ SEnterFunction /\ Within
  \/ SExitFunction /\ Within
  \/ \E br \in Branches : SVisitExprStmt(br) /\ Within
  \/ \E br \in Branches : SVisitReturn(br) /\ Within
  \/ \E br \in Branches : SEnterIf(br) /\ Within
  \/ \E br \in Branches : SEnterSwitch(br) /\ Within
  \/ \E l \in Labels : SVisitGoto(l) /\ Within
  \/ \E l \in Labels : SVisitLabelDecl(l) /\ Within
  \/ \E d \in BOOLEAN : SVisitCase(d) /\ Within
  \/ SVisitBreak /\ Within
  \/ SVisitContinue /\ Within
  \/ SEnterElse /\ Within
  \/ SExitIf /\ Within
  \/ \E s \in Shapes, br \in Branches, t \in BOOLEAN : SEnterLoop(s, br, t) /\ Within
  \/ SExitLoop /\ Within
  \/ SExitSwitch /\ Within

SSpec == SInit /\ [][SNext]_allvars

-----------------------------------------------------------------------------
(* Properties *)

\* A function has just been built, without a failed assertion.
Built == stack = << >> /\ funcs > 0 /\ g.ice = ""

\* No ECC_ASSERT of the builder fails on a program the earlier passes accept.
\* This does not hold of num_pending_gotos() == 0.
NoAssertionFails == g.ice = ""

\* But for that one, no assertion fails: no visit adds to a block that is already
\* terminated, break, continue and case find the statement they belong to, and
\* a goto is only given the block of its own label.  It says that nothing
\* waits when a label is declared, and it fails only while a goto of the
\* same function waits for a label that is still to come.
OnlyGotosAhead ==
  g.ice # "" =>
    /\ g.ice = "num_pending_gotos() == 0" /\ stack # << >>
    /\ \E l \in used : pending[l] # << >> /\ labeled[l] = Null

\* "every block must be terminated" (lib/lowering/lir/synthesizer.cpp:342):
\* a function whose construction is over has no open block.  Of a function with
\* a value the builder is not told where control cannot come; there the blocks
\* that control can reach are meant: always_returns promises that it does not
\* fall off the end.
BlocksTerminated ==
  Built => \A b \in IF result = "void" THEN Blocks(g) ELSE Reachable(g) : Terminated(g, b)

\* When a function is complete every edge its terminators promised exists:
\* no If or Goto still has a null target, and no goto still waits, so that
\* nothing of one function's graph leaks into the next.
TargetsResolved ==
  Built => /\ \A b \in Blocks(g) : Null \notin Elems(g.tgt[b])
           /\ \A l \in Labels : pending[l] = << >>

\* Programs without goto, and without cases inside a nested loop.
Structured == "goto" \notin family.has

\* The graph agrees with the structure of the source: between two statements
\* of the function's body, the block the builder stands in is open and can be
\* reached from the entry exactly when the statements so far can complete.
GraphMatchesStructure ==
  Structured /\ Len(stack) = 1 /\ g.ice = "" =>
    (live <=> ~Terminated(g, curr) /\ curr \in Reachable(g))

\* No iteration skips a part of its loop, whatever breaks and continues the
\* body holds: control gets from the body back to it, without leaving the loop and
\* entering it again, only through the step and through the condition, where
\* the loop has them.
LoopPartsNotSkipped ==
  Structured /\ Len(stack) = 1 /\ g.ice = "" =>
    \A lp \in loops, part \in {"step", "cond"} :
      lp[part] # Null =>
        LET cut == {lp[part], lp.entry}
        IN  \A b \in ReachableWithout(g, {lp.body}, cut) \ cut :
              lp.body \notin Elems(g.succs[b])

\* A function that is complete leaves nothing open: no block, no edge and no
\* goto, for the next function to find.
GraphComplete == BlocksTerminated /\ TargetsResolved

\* The graph has the paths of the source and no others, around loops too.
StructureKept == GraphMatchesStructure /\ LoopPartsNotSkipped
=============================================================================
