----------------------------- MODULE CFGWalker ------------------------------
(***************************************************************************)
(* lower::cfg::CFGWalker: the depth-first walk of a function's blocks, and *)
(* the iterators over the order it leaves behind.  visit_block follows a   *)
(* chain of single successors in a loop and calls itself only where a      *)
(* block has several; "calls" is the C++ call stack.  One walker object    *)
(* serves any number of functions.                                         *)
(***************************************************************************)
EXTENDS Naturals, Sequences

CONSTANTS Block,        \* the blocks a function may have
          Entry,
          Uses          \* the uses of a walker considered

\* A use is a walker and the functions it is to walk, one after the other: the
\* graph of each, from blocks to successors, or NoBody for a declaration.
Orders == {"pre", "post", "revpost"}
NoBody == << >>

ASSUME WalkerAssumption ==
  /\ Entry \in Block
  /\ \A u \in Uses : /\ u.kind \in Orders
                     /\ u.funcs \in Seq([Block -> Seq(Block)] \cup {NoBody})

VARIABLES kind,         \* the walker: "pre", "post" or "revpost"
          todo,         \* the functions still to walk
          succs,        \* the graph of the function last walked
          visited,      \* the visited set
          order,        \* the preorder or postorder vector
          calls,        \* activations of visit_block, outermost first
          idx,          \* the cursor of the iterator blocks() made
          out,          \* what that iterator has yielded
          phase         \* "idle", "walking", "reading"

vars == << kind, todo, succs, visited, order, calls, idx, out, phase >>

\* blk: the loop variable; chain: the blocks this activation has to
\* post_visit; i: the next successor to look at; at: where it stands.
Call(b) == [blk |-> b, chain |-> << >>, i |-> 1, at |-> "loop"]

Top == calls[Len(calls)]
SetTop(c) == [calls EXCEPT ![Len(calls)] = c]
Last(s) == s[Len(s)]
Front(s) == SubSeq(s, 1, Len(s) - 1)

Init ==
  /\ \E u \in Uses : kind = u.kind /\ todo = u.funcs
  /\ succs = [b \in Block |-> << >>]
  /\ visited = {} /\ order = << >> /\ calls = << >>
  /\ idx = 0 /\ out = << >> /\ phase = "idle"

\* walk_function of a function that has a body.
WalkFunction ==
  /\ phase = "idle"
  /\ todo # << >> /\ Head(todo) # NoBody
  /\ todo' = Tail(todo)
  /\ succs' = Head(todo)
  /\ visited' = {}
  /\ order' = << >>
  /\ calls' = << Call(Entry) >>
  /\ out' = << >>
  /\ phase' = "walking"
  /\ UNCHANGED << kind, idx >>

\* walk_function of a declaration returns before it resets anything.
WalkDeclaration ==
  /\ phase = "idle"
  /\ todo # << >> /\ Head(todo) = NoBody
  /\ todo' = Tail(todo)
  /\ UNCHANGED << kind, succs, visited, order, calls, idx, out, phase >>

-----------------------------------------------------------------------------
(* visit_block *)

\* Mutant of VisitNew: of several successors only the first is followed.
VisitNewFirstOnly ==
  /\ calls # << >> /\ Top.at = "loop" /\ Top.blk \notin visited
  /\ visited' = visited \cup {Top.blk}
  /\ order' = IF kind = "pre" THEN Append(order, Top.blk) ELSE order
  /\ LET moved == [Top EXCEPT !.chain = Append(@, Top.blk)]
     IN  calls' = SetTop(IF succs[Top.blk] = << >> THEN [moved EXCEPT !.at = "post"]
                         ELSE [moved EXCEPT !.blk = succs[Top.blk][1]])
  /\ UNCHANGED << kind, todo, succs, idx, out, phase >>

\* One turn of the loop on a block not seen before.
VisitNew ==
  /\ calls # << >> /\ Top.at = "loop" /\ Top.blk \notin visited
  /\ visited' = visited \cup {Top.blk}
  /\ order' = IF kind = "pre" THEN Append(order, Top.blk) ELSE order
  /\ LET n     == Len(succs[Top.blk])
         moved == [Top EXCEPT !.chain = Append(@, Top.blk)]
     IN  calls' = SetTop(CASE n = 0 -> [moved EXCEPT !.at = "post"]
                           [] n = 1 -> [moved EXCEPT !.blk = succs[Top.blk][1]]
                           [] OTHER -> [moved EXCEPT !.at = "branch"])
  /\ UNCHANGED << kind, todo, succs, idx, out, phase >>

\* Mutant of VisitOld: a chain of single successors is followed past blocks
\* already visited.
VisitOldGoesOn ==
  /\ calls # << >> /\ Top.at = "loop" /\ Top.blk \in visited
  /\ calls' = SetTop(IF Len(succs[Top.blk]) = 1
                     THEN [Top EXCEPT !.blk = succs[Top.blk][1]]
                     ELSE [Top EXCEPT !.at = "post"])
  /\ UNCHANGED << kind, todo, succs, visited, order, idx, out, phase >>

\* The chain runs into a block that has been visited.
VisitOld ==
  /\ calls # << >> /\ Top.at = "loop" /\ Top.blk \in visited
  /\ calls' = SetTop([Top EXCEPT !.at = "post"])
  /\ UNCHANGED << kind, todo, succs, visited, order, idx, out, phase >>

\* Mutant of Branch: the successors are taken last to first.
BranchBackwards ==
  /\ calls # << >> /\ Top.at = "branch"
  /\ IF Top.i > Len(succs[Top.blk])
     THEN calls' = SetTop([Top EXCEPT !.at = "post"])
     ELSE LET s    == succs[Top.blk][Len(succs[Top.blk]) + 1 - Top.i]
              next == SetTop([Top EXCEPT !.i = @ + 1])
          IN  calls' = IF s \in visited THEN next ELSE Append(next, Call(s))
  /\ UNCHANGED << kind, todo, succs, visited, order, idx, out, phase >>

\* The next of several successors: a call, unless it has been visited.
Branch ==
  /\ calls # << >> /\ Top.at = "branch"
  /\ IF Top.i > Len(succs[Top.blk])
     THEN calls' = SetTop([Top EXCEPT !.at = "post"])
     ELSE LET s    == succs[Top.blk][Top.i]
              next == SetTop([Top EXCEPT !.i = @ + 1])
          IN  calls' = IF s \in visited THEN next ELSE Append(next, Call(s))
  /\ UNCHANGED << kind, todo, succs, visited, order, idx, out, phase >>

\* Mutant of PostVisit: the chain is delivered first block first.
PostVisitFromStart ==
  /\ calls # << >> /\ Top.at = "post" /\ Top.chain # << >>
  /\ order' = IF kind = "pre" THEN order ELSE Append(order, Head(Top.chain))
  /\ calls' = SetTop([Top EXCEPT !.chain = Tail(@)])
  /\ UNCHANGED << kind, todo, succs, visited, idx, out, phase >>

\* post_visit along the chain, last block first; then return.
PostVisit ==
  /\ calls # << >> /\ Top.at = "post" /\ Top.chain # << >>
  /\ order' = IF kind = "pre" THEN order ELSE Append(order, Last(Top.chain))
  /\ calls' = SetTop([Top EXCEPT !.chain = Front(@)])
  /\ UNCHANGED << kind, todo, succs, visited, idx, out, phase >>

Return ==
  /\ calls # << >> /\ Top.at = "post" /\ Top.chain = << >>
  /\ calls' = Front(calls)
  /\ phase' = IF Len(calls) = 1 THEN "idle" ELSE phase
  /\ UNCHANGED << kind, todo, succs, visited, order, idx, out >>

-----------------------------------------------------------------------------
(* blocks() and VecCFGWalkerBlocksInner::next() *)

\* Mutant of Begin: the reverse iterator starts one block late.
BeginLate ==
  /\ phase = "idle"
  /\ out' = << >>
  /\ idx' = IF kind = "revpost" /\ order # << >> THEN Len(order) - 1 ELSE 0
  /\ phase' = "reading"
  /\ UNCHANGED << kind, todo, succs, visited, order, calls >>

Begin ==
  /\ phase = "idle"
  /\ out' = << >>
  /\ idx' = IF kind = "revpost" THEN Len(order) ELSE 0
  /\ phase' = "reading"
  /\ UNCHANGED << kind, todo, succs, visited, order, calls >>

AtEnd == IF kind = "revpost" THEN idx = 0 ELSE idx >= Len(order)

Read ==
  /\ phase = "reading"
  /\ IF AtEnd
     THEN /\ phase' = "idle"
          /\ UNCHANGED << idx, out >>
     ELSE LET k == IF kind = "revpost" THEN idx ELSE idx + 1
          IN  /\ out' = Append(out, order[k])
              /\ idx' = IF kind = "revpost" THEN idx - 1 ELSE idx + 1
              /\ UNCHANGED phase
  /\ UNCHANGED << kind, todo, succs, visited, order, calls >>

-----------------------------------------------------------------------------
Visit == VisitNew \/ VisitOld \/ Branch \/ PostVisit \/ Return

Next == WalkFunction \/ WalkDeclaration \/ Visit \/ Begin \/ Read

Spec == Init /\ [][Next]_vars

\* walk_function and a range-for over blocks() run to their end once begun.
FairSpec == Spec /\ WF_vars(Visit) /\ WF_vars(Read)

-----------------------------------------------------------------------------
(* Properties *)

Elems(s) == {s[i] : i \in DOMAIN s}

Calls == [blk : Block, chain : Seq(Block), i : Nat \ {0}, at : {"loop", "branch", "post"}]

TypeOK ==
  /\ kind \in Orders
  /\ todo \in Seq([Block -> Seq(Block)] \cup {NoBody})
  /\ succs \in [Block -> Seq(Block)]
  /\ visited \subseteq Block
  /\ order \in Seq(Block)
  /\ calls \in Seq(Calls)
  /\ idx \in Nat
  /\ out \in Seq(Block)
  /\ phase \in {"idle", "walking", "reading"}
  /\ (phase = "walking") <=> (calls # << >>)

\* A set of blocks that control cannot leave.
Closed(S) == \A b \in S : Elems(succs[b]) \subseteq S

\* A finished walk has visited the blocks the entry reaches and no others:
\* what it visited is closed and inside every closed set with the entry.
Reached == visited # {} /\ phase # "walking"
WalkComplete == Reached => Entry \in visited /\ Closed(visited)
WalkSound ==
  \A S \in SUBSET Block : Entry \in S /\ Closed(S) => visited \subseteq S

\* The walker keeps its types, and a walk visits exactly what is reachable.
WalkExact == TypeOK /\ WalkSound /\ WalkComplete

\* What the iterator yields to its end is that order, reversed for the
\* reverse postorder walker, however often functions are walked and read.
IteratorYieldsOrder ==
  phase = "idle" /\ out # << >> =>
    /\ Len(out) = Len(order)
    /\ \A i \in DOMAIN out :
         out[i] = order[IF kind = "revpost" THEN Len(order) + 1 - i ELSE i]

\* A walk always ends, and so does reading its order, on cyclic graphs too.
WalkEnds == phase # "idle" ~> phase = "idle"

\* Whoever consumes the postorder, or the reverse of it, is kept the promises
\* of BlockOrder: each block once, and after the blocks it leads to, but for
\* the targets of back edges.  The code generator relies on it to define
\* values before their uses.
Promise == INSTANCE BlockOrder WITH
             order <- IF kind = "pre" THEN << >> ELSE order
PostorderPromise == Promise!Spec
=============================================================================
