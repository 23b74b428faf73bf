----------------------------- MODULE BlockOrder -----------------------------
(***************************************************************************)
(* What a consumer of PostorderCFGWalker is promised about the order in    *)
(* which the blocks of one function arrive, with no word on how the walker *)
(* finds them: each block once, only blocks the entry reaches, and none    *)
(* before the blocks it leads to, unless they lead back to it.             *)
(***************************************************************************)
EXTENDS Naturals, Sequences

CONSTANTS Block, Entry

VARIABLES succs,        \* the successors of each block
          order         \* the blocks delivered so far

Delivered == {order[i] : i \in DOMAIN order}

Closed(S) == \A b \in S : \A i \in DOMAIN succs[b] : succs[b][i] \in S

\* Following successors, can "from" lead to "to"?  Every block leads to itself.
LeadsTo(from, to) ==
  \A S \in SUBSET Block : from \in S /\ Closed(S) => to \in S

Begin ==
  /\ order' = << >>
  /\ succs' \in [Block -> Seq(Block)]

Deliver(b) ==
  /\ b \notin Delivered
  /\ LeadsTo(Entry, b)
  /\ \A i \in DOMAIN succs[b] :
       LET s == succs[b][i] IN s \in Delivered \/ LeadsTo(s, b)
  /\ order' = Append(order, b)
  /\ UNCHANGED succs

Init == succs \in [Block -> Seq(Block)] /\ order = << >>

Next == Begin \/ \E b \in Block : Deliver(b)

Spec == Init /\ [][Next]_<< succs, order >>
=============================================================================
