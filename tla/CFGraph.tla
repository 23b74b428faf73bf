------------------------------ MODULE CFGraph ------------------------------
(***************************************************************************)
(* The control-flow graph of one function (lower::cfg::Function): its      *)
(* basic blocks, their terminators and the edges between them, and the     *)
(* primitives by which the builder extends it.  A graph is a value; the    *)
(* primitives map graphs to graphs, and a handler of the builder is a      *)
(* composition of them.                                                    *)
(*                                                                         *)
(* Blocks are numbered in the order they are created (block 1 is the       *)
(* entry).  Their position in the function's linked list, the instructions *)
(* they hold and the values of the terminators are abstracted away.        *)
(***************************************************************************)
EXTENDS Naturals, Sequences

CONSTANT MaxBlocks      \* bound: basic blocks of one function

ASSUME MaxBlocksAssumption == MaxBlocks \in Nat \ {0}

Blk == 1 .. MaxBlocks
Null == 0               \* nullptr, as a target or as a block not created
Entry == 1

Kinds == {"none", "if", "goto", "switch", "return"}

(***************************************************************************)
(* n: blocks created so far; kind, tgt: the terminator of each block and   *)
(* its targets (if: then, else; goto: target; switch: the cases), Null     *)
(* until they are set; succs, incoming: the two edge lists each block      *)
(* keeps; ice: the assertion that failed, "" while none has.               *)
(***************************************************************************)
EmptyGraph ==
  [ n        |-> 1,
    kind     |-> [b \in Blk |-> "none"],
    tgt      |-> [b \in Blk |-> << >>],
    succs    |-> [b \in Blk |-> << >>],
    incoming |-> [b \in Blk |-> << >>],
    ice      |-> "" ]

Elems(s) == {s[i] : i \in DOMAIN s}

Blocks(g) == 1 .. g.n
Terminated(g, b) == g.kind[b] # "none"
Fresh(g) == g.n + 1
Create(g) == [g EXCEPT !.n = @ + 1]
Fail(g, assertion) == [g EXCEPT !.ice = assertion]

\* Mutant of LinkTo: the target does not learn of its new predecessor.
LinkToOneWay(g, b, t) == [g EXCEPT !.succs[b] = Append(@, t)]

LinkTo(g, b, t) ==
  [g EXCEPT !.succs[b] = Append(@, t), !.incoming[t] = Append(@, b)]

NullTargets(k) ==
  CASE k = "if"   -> << Null, Null >>
    [] k = "goto" -> << Null >>
    [] OTHER      -> << >>

Terminate(g, b, k) ==
  IF Terminated(g, b)
  THEN Fail(g, "block already has terminator")
  ELSE [g EXCEPT !.kind[b] = k, !.tgt[b] = NullTargets(k)]

AddInstruction(g, b) ==
  IF Terminated(g, b)
  THEN Fail(g, "cannot append instructions to a terminated block")
  ELSE g

SetTarget(g, b, i, t) == LinkTo([g EXCEPT !.tgt[b][i] = t], b, t)
SetThen(g, b, t) == SetTarget(g, b, 1, t)
SetElse(g, b, t) == SetTarget(g, b, 2, t)
SetGoto(g, b, t) == SetTarget(g, b, 1, t)
\* Mutant of AddCase: the edge is made, the terminator not told.
AddCaseEdgeOnly(g, b, t) == LinkTo(g, b, t)

AddCase(g, b, t) == LinkTo([g EXCEPT !.tgt[b] = Append(@, t)], b, t)

\* terminate<Goto>()->set_target(t), and the same unless already terminated.
GotoTo(g, b, t) == SetGoto(Terminate(g, b, "goto"), b, t)
GotoIfOpen(g, b, t) == IF Terminated(g, b) THEN g ELSE GotoTo(g, b, t)

\* set_target(t) on every Goto of a list of pending ones.
SetGotos(g, ps, t) ==
  [g EXCEPT
     !.tgt      = [b \in Blk |-> IF b \in Elems(ps) THEN << t >> ELSE @[b]],
     !.succs    = [b \in Blk |-> IF b \in Elems(ps) THEN Append(@[b], t) ELSE @[b]],
     !.incoming[t] = @ \o ps]

-----------------------------------------------------------------------------
(***************************************************************************)
(* Reachability along the edges of g, by a recursive function on the       *)
(* number of steps so that modules with theorems may use it.               *)
(***************************************************************************)
ReachableWithout(g, from, cut) ==
  LET after[k \in 0 .. MaxBlocks] ==
        IF k = 0 THEN from
        ELSE LET near == after[k - 1]
             IN  near \cup UNION {Elems(g.succs[b]) \ cut : b \in near \ cut}
  IN  after[g.n]

Reachable(g) == ReachableWithout(g, {Entry}, {})
=============================================================================
