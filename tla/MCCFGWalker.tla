---------------------------- MODULE MCCFGWalker -----------------------------
(***************************************************************************)
(* Instances of CFGWalker.  The graphs are those whose blocks end in a     *)
(* Return, a Goto, an If with two targets or, at the entry, a Switch with  *)
(* three cases; nothing leads to the entry block, as in every graph the    *)
(* builder makes.                                                          *)
(***************************************************************************)
EXTENDS CFGWalker, FiniteSets

CONSTANT N

MCBlock == 1 .. N
Distinct(T) == {t \in T : Cardinality(Elems(t)) = Len(t)}
Targets(n) ==
  {<< >>} \cup {<< a >> : a \in 2 .. n} \cup Distinct((2 .. n) \X (2 .. n))
Triples(n) == Distinct((2 .. n) \X (2 .. n) \X (2 .. n))

\* Graphs of n blocks; the others are never reached.
GraphsOf(n) ==
  { g \in [MCBlock -> Targets(n) \cup Triples(n)] :
      /\ \A b \in 2 .. N : g[b] \in Targets(n)
      /\ \A b \in n + 1 .. N : g[b] = << >> }

\* Every graph of N blocks once, in reverse postorder; smaller ones after one another
\* by each walker,
\* with declarations in between.
MCUses ==
  { [kind |-> "revpost", funcs |-> << g >>] : g \in GraphsOf(N) }
  \cup
  { [kind |-> k, funcs |-> fs] :
      k \in Orders,
      fs \in UNION { {<< f, NoBody, h >>, << NoBody, h, f >>} :
                       f \in GraphsOf(N - 1), h \in GraphsOf(N - 2) } }

(***************************************************************************)
(* The textbook recursive depth-first search, as a reference.              *)
(***************************************************************************)
RECURSIVE DFS(_, _), DFSAll(_, _, _)
DFS(b, st) ==
  IF b \in st.seen THEN st
  ELSE LET done == DFSAll(b, 1, [st EXCEPT !.seen = @ \cup {b}, !.pre = Append(@, b)])
       IN  [done EXCEPT !.post = Append(@, b)]
DFSAll(b, i, st) ==
  IF i > Len(succs[b]) THEN st ELSE DFSAll(b, i + 1, DFS(succs[b][i], st))

\* Following chains in a loop does not change the order: the walker delivers
\* exactly the preorder or postorder of the recursive search.
OrderIsDepthFirst ==
  Reached =>
    LET ref == DFS(Entry, [seen |-> {}, pre |-> << >>, post |-> << >>])
    IN  order = IF kind = "pre" THEN ref.pre ELSE ref.post
=============================================================================
