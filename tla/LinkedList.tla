----------------------------- MODULE LinkedList -----------------------------
(***************************************************************************)
(* ds::LinkedList (include/ds/linkedlist.hpp): the intrusive doubly-linked *)
(* list that holds the blocks of a function, the instructions of a block   *)
(* and the steps of an accessor path.  The links are on the nodes, the     *)
(* list keeps its two ends and, apart from them, a map that owns the nodes.*)
(*                                                                         *)
(* A node is an address.  Nothing is kept of the memory of a node that is  *)
(* destroyed: its links and its value are Null.  An operation is one step, *)
(* but for the loops that copy nodes, which take a step for each.          *)
(***************************************************************************)
EXTENDS Naturals, Sequences, FiniteSets

CONSTANTS List,         \* the lists
          Node,         \* the addresses nodes may have: finitely many
          Val,          \* what a node may hold
          Null          \* nullptr

ASSUME NullAssumption == Null \notin Node \cup List \cup Val
ASSUME NodeAssumption == IsFiniteSet(Node)

VARIABLES nodes,        \* the nodes each list owns
          links,        \* first, last: the ends of each list; next, prev: of each node
          val,          \* what each node holds
          copying       \* a loop that copies: the list it adds to, the node it
                        \* adds before (Null: at the end), the node it copies next

vars == << nodes, links, val, copying >>

Idle == [to |-> Null, at |-> Null, from |-> Null]
Free == Node \ UNION {nodes[l] : l \in List}

Init ==
  /\ nodes = [l \in List |-> {}]
  /\ links = [ first |-> [l \in List |-> Null], last |-> [l \in List |-> Null],
               next  |-> [n \in Node |-> Null], prev |-> [n \in Node |-> Null] ]
  /\ val = [n \in Node |-> Null]
  /\ copying = Idle

-----------------------------------------------------------------------------
(* The links, and how the operations change them *)

\* if (x) x->field = y
Set(field, x, y) == IF x = Null THEN field ELSE [field EXCEPT ![x] = y]

\* The end of the list moves to y if the node x it would else follow is none.
SetEnd(end, l, x, y) == IF x = Null THEN [end EXCEPT ![l] = y] ELSE end

LinkBack(k, l, n) ==
  [ k EXCEPT !.prev  = [@ EXCEPT ![n] = k.last[l]],
             !.next  = Set([@ EXCEPT ![n] = Null], k.last[l], n),
             !.first = SetEnd(@, l, k.last[l], n),
             !.last  = [@ EXCEPT ![l] = n] ]

LinkFront(k, l, n) ==
  [ k EXCEPT !.next  = [@ EXCEPT ![n] = k.first[l]],
             !.prev  = Set([@ EXCEPT ![n] = Null], k.first[l], n),
             !.last  = SetEnd(@, l, k.first[l], n),
             !.first = [@ EXCEPT ![l] = n] ]

LinkBefore(k, l, n, pos) ==
  LET before == k.prev[pos]
  IN  [ k EXCEPT !.next  = Set([@ EXCEPT ![n] = pos], before, n),
                 !.prev  = [@ EXCEPT ![n] = before, ![pos] = n],
                 !.first = SetEnd(@, l, before, n) ]

LinkAfter(k, l, n, pos) ==
  LET after == k.next[pos]
  IN  [ k EXCEPT !.prev = Set([@ EXCEPT ![n] = pos], after, n),
                 !.next = [@ EXCEPT ![n] = after, ![pos] = n],
                 !.last = SetEnd(@, l, after, n) ]

Unlink(k, l, n) ==
  LET before == k.prev[n]
      after  == k.next[n]
  IN  [ k EXCEPT !.next  = Set(@, before, after),
                 !.prev  = Set(@, after, before),
                 !.first = SetEnd(@, l, before, after),
                 !.last  = SetEnd(@, l, after, before) ]

\* "a" stands directly before "b": turn the two around.
SwapAdjacent(k, l, a, b) ==
  LET before == k.prev[a]
      after  == k.next[b]
  IN  [ k EXCEPT !.next  = Set([@ EXCEPT ![b] = a, ![a] = after], before, b),
                 !.prev  = Set([@ EXCEPT ![b] = before, ![a] = b], after, a),
                 !.first = SetEnd(@, l, before, b),
                 !.last  = SetEnd(@, l, after, a) ]

\* Neither is next to the other: exchange the four links.
SwapApart(k, l, a, b) ==
  [ k EXCEPT !.prev  = Set(Set([@ EXCEPT ![a] = k.prev[b], ![b] = k.prev[a]],
                               k.next[b], a), k.next[a], b),
             !.next  = Set(Set([@ EXCEPT ![a] = k.next[b], ![b] = k.next[a]],
                               k.prev[b], a), k.prev[a], b),
             !.first = SetEnd(SetEnd(@, l, k.prev[b], a), l, k.prev[a], b),
             !.last  = SetEnd(SetEnd(@, l, k.next[b], a), l, k.next[a], b) ]

\* Mutant of SwapNodes: neighbours are not told apart from other nodes.
SwapNodesBlindly(k, l, a, b) == IF a = b THEN k ELSE SwapApart(k, l, a, b)

SwapNodes(k, l, a, b) ==
  CASE a = b              -> k
    [] a # b /\ k.next[a] = b -> SwapAdjacent(k, l, a, b)
    [] a # b /\ k.next[a] # b /\ k.next[b] = a -> SwapAdjacent(k, l, b, a)
    [] OTHER              -> SwapApart(k, l, a, b)

\* The nodes met from n on, following one of the two links; cut off when
\* it goes on for longer than there are nodes.
Follow(link, n) ==
  LET from[fuel \in 0 .. Cardinality(Node) + 1] ==
        [m \in Node \cup {Null} |->
           IF m = Null \/ fuel = 0 THEN << >> ELSE << m >> \o from[fuel - 1][link[m]]]
  IN  from[Cardinality(Node) + 1][n]

Forward(l) == Follow(links.next, links.first[l])       \* begin() to end()

Size(l) == Cardinality(nodes[l])
IsAt(l, idx, n) == LET s == Forward(l) IN idx < Len(s) /\ s[idx + 1] = n
Index(n) == Len(Follow(links.prev, links.prev[n]))
-----------------------------------------------------------------------------
(* The operations *)

\* A node comes to be, linked into the list by "linked".
Adopt(l, n, v, linked) ==
  /\ n \in Free
  /\ nodes' = [nodes EXCEPT ![l] = @ \cup {n}]
  /\ val' = [val EXCEPT ![n] = v]
  /\ links' = linked

\* The memory of the nodes in N is gone.
Forget(k, N) ==
  [ k EXCEPT !.next = [n \in Node |-> IF n \in N THEN Null ELSE @[n]],
             !.prev = [n \in Node |-> IF n \in N THEN Null ELSE @[n]] ]

\* Nodes of l are destroyed; "unlinked" is what the links are but for theirs.
Destroy(l, N, unlinked) ==
  /\ nodes' = [nodes EXCEPT ![l] = @ \ N]
  /\ val' = [n \in Node |-> IF n \in N THEN Null ELSE val[n]]
  /\ links' = Forget(unlinked, N)

EmplaceBack(l, n, v) ==
  /\ copying = Idle
  /\ Adopt(l, n, v, LinkBack(links, l, n))
  /\ UNCHANGED copying

EmplaceFront(l, n, v) ==
  /\ copying = Idle
  /\ Adopt(l, n, v, LinkFront(links, l, n))
  /\ UNCHANGED copying

EmplaceBefore(l, n, v, pos) ==
  /\ copying = Idle
  /\ Adopt(l, n, v, LinkBefore(links, l, n, pos))
  /\ UNCHANGED copying

EmplaceAfter(l, n, v, pos) ==
  /\ copying = Idle
  /\ Adopt(l, n, v, LinkAfter(links, l, n, pos))
  /\ UNCHANGED copying

\* An index past the end throws, and changes nothing.
InsertIdx(l, n, v, idx) ==
  /\ copying = Idle
  /\ idx <= Size(l)
  /\ \/ idx = Size(l) /\ Adopt(l, n, v, LinkBack(links, l, n))
     \/ idx < Size(l) /\ idx = 0 /\ Adopt(l, n, v, LinkFront(links, l, n))
     \/ /\ idx < Size(l) /\ idx > 0
        /\ \E pos \in nodes[l] :
             IsAt(l, idx, pos) /\ Adopt(l, n, v, LinkBefore(links, l, n, pos))
  /\ UNCHANGED copying

Remove(l, n) ==
  /\ copying = Idle
  /\ Destroy(l, {n}, Unlink(links, l, n))
  /\ UNCHANGED copying

RemoveIdx(l, idx) == \E n \in nodes[l] : IsAt(l, idx, n) /\ Remove(l, n)

\* On an empty list they throw.
PopBack(l)  == links.last[l] # Null /\ Remove(l, links.last[l])
PopFront(l) == links.first[l] # Null /\ Remove(l, links.first[l])

Swap(l, a, b) ==
  /\ copying = Idle
  /\ links' = SwapNodes(links, l, a, b)
  /\ UNCHANGED << nodes, val, copying >>

MoveBefore(l, n, pos) ==
  /\ copying = Idle
  /\ n # pos
  /\ links' = LinkBefore(Unlink(links, l, n), l, n, pos)
  /\ UNCHANGED << nodes, val, copying >>

MoveAfter(l, n, pos) ==
  /\ copying = Idle
  /\ n # pos
  /\ links' = LinkAfter(Unlink(links, l, n), l, n, pos)
  /\ UNCHANGED << nodes, val, copying >>

\* The loops that copy "start" and what comes after it to one end of a list.
\* "start" may be a node of the list itself for prepend; with extend the loop
\* would meet its own copies and not end.
Prepend(l, start) ==
  /\ copying = Idle
  /\ copying' = [to |-> l, at |-> links.first[l], from |-> start]
  /\ UNCHANGED << nodes, links, val >>

Extend(l, start) ==
  /\ copying = Idle
  /\ start \notin nodes[l]
  /\ copying' = [to |-> l, at |-> Null, from |-> start]
  /\ UNCHANGED << nodes, links, val >>

\* Mutant of CopyAssign: no test for self-assignment, and the loop's start is
\* taken before the list is cleared.
CopyAssignSelf(l, other) ==
  /\ copying = Idle
  /\ Destroy(l, nodes[l], [links EXCEPT !.first[l] = Null, !.last[l] = Null])
  /\ copying' = IF links.first[other] = Null THEN Idle
                ELSE [to |-> l, at |-> Null, from |-> links.first[other]]

\* Copy assignment, and copy construction where the list is empty.
CopyAssign(l, other) ==
  /\ copying = Idle
  /\ l # other
  /\ Destroy(l, nodes[l], [links EXCEPT !.first[l] = Null, !.last[l] = Null])
  /\ copying' = IF links.first[other] = Null THEN Idle
                ELSE [to |-> l, at |-> Null, from |-> links.first[other]]

\* Mutant of CopyNode: the place of the next copy is the front of the list,
\* not the node that was there when the loop began.
CopyNodeAtFront(n) ==
  /\ copying # Idle
  /\ Adopt(copying.to, n, val[copying.from],
           IF copying.at = Null THEN LinkBack(links, copying.to, n)
           ELSE LinkFront(links, copying.to, n))
  /\ copying' = IF links'.next[copying.from] = Null THEN Idle
                ELSE [copying EXCEPT !.from = links'.next[copying.from]]

CopyNode(n) ==
  /\ copying # Idle
  /\ Adopt(copying.to, n, val[copying.from],
           IF copying.at = Null THEN LinkBack(links, copying.to, n)
           ELSE LinkBefore(links, copying.to, n, copying.at))
  /\ copying' = IF links'.next[copying.from] = Null THEN Idle
                ELSE [copying EXCEPT !.from = links'.next[copying.from]]

\* make_owned_node throws: the loop is left half way.
OutOfMemory ==
  /\ copying # Idle
  /\ copying' = Idle
  /\ UNCHANGED << nodes, links, val >>

\* Move assignment, and move construction where the list is empty.  (Nothing
\* guards against other being the list itself: it would forget its ends.)
MoveAssign(l, other) ==
  /\ copying = Idle
  /\ l # other
  /\ nodes' = [nodes EXCEPT ![l] = nodes[other], ![other] = {}]
  /\ val' = [n \in Node |-> IF n \in nodes[l] THEN Null ELSE val[n]]
  /\ links' = Forget([links EXCEPT !.first = [@ EXCEPT ![l] = links.first[other], ![other] = Null],
                                  !.last  = [@ EXCEPT ![l] = links.last[other], ![other] = Null]],
                     nodes[l])
  /\ UNCHANGED copying

Next ==
  \/ \E l \in List, n \in Node, v \in Val :
       \/ EmplaceBack(l, n, v)
       \/ EmplaceFront(l, n, v)
       \/ \E pos \in nodes[l] : EmplaceBefore(l, n, v, pos) \/ EmplaceAfter(l, n, v, pos)
       \/ \E idx \in 0 .. Size(l) : InsertIdx(l, n, v, idx)
  \/ \E l \in List :
       \/ \E n \in nodes[l] : Remove(l, n)
       \/ \E idx \in 0 .. Size(l) : RemoveIdx(l, idx)
       \/ PopBack(l)
       \/ PopFront(l)
       \/ \E a, b \in nodes[l] : Swap(l, a, b) \/ MoveBefore(l, a, b) \/ MoveAfter(l, a, b)
  \/ \E l, other \in List :
       \/ \E start \in nodes[other] : Prepend(l, start) \/ Extend(l, start)
       \/ CopyAssign(l, other)
       \/ MoveAssign(l, other)
  \/ \E n \in Node : CopyNode(n)
  \/ OutOfMemory

Spec == Init /\ [][Next]_vars

-----------------------------------------------------------------------------
(* Properties *)

Links == [ first : [List -> Node \cup {Null}], last : [List -> Node \cup {Null}],
           next  : [Node -> Node \cup {Null}], prev : [Node -> Node \cup {Null}] ]

\* The four variables have their types; a loop that copies has a list to add
\* to and a node to copy.
TypeOK ==
  /\ nodes \in [List -> SUBSET Node]
  /\ links \in Links
  /\ val \in [Node -> Val \cup {Null}]
  /\ copying \in {Idle} \cup [to : List, at : Node \cup {Null}, from : Node]

\* The ends of list l and the links in k spell out the nodes s[1] .. s[len],
\* both ways; they are the nodes in N and no others.
Represents(N, k, l, s, len) ==
  /\ N = {s[i] : i \in 1 .. len}
  /\ \A i, j \in 1 .. len : s[i] = s[j] => i = j
  /\ k.first[l] = IF len = 0 THEN Null ELSE s[1]
  /\ k.last[l]  = IF len = 0 THEN Null ELSE s[len]
  /\ \A i \in 1 .. len :
       /\ k.next[s[i]] = IF i = len THEN Null ELSE s[i + 1]
       /\ k.prev[s[i]] = IF i = 1 THEN Null ELSE s[i - 1]

\* "Ownership is tracked separately": after any operations, what a loop from
\* begin() visits is what the map owns, each node once, and the way back
\* from the last node is the same way.
LinksAgree ==
  \A l \in List : Represents(nodes[l], links, l, Forward(l), Len(Forward(l)))

\* A node's index(), which walks back from it, is where at(), which walks
\* forward from the first node, finds it.
IndexFindsNode == \A l \in List : \A n \in nodes[l] : IsAt(l, Index(n), n)

\* The links, the ownership map and the indexes describe one sequence.
ListsAgree == TypeOK /\ LinksAgree /\ IndexFindsNode

\* The copy a loop makes next is of a node that still exists, and the node it
\* goes before is still in the list.
LoopStaysOnLists ==
  copying # Idle =>
    /\ copying.from \in UNION {nodes[l] : l \in List}
    /\ copying.at # Null => copying.at \in nodes[copying.to]

\* The list does what ListOrder says of sequences.
Order == INSTANCE ListOrder
  WITH order   <- [l \in List |-> Forward(l)],
       pending <- [ to |-> copying.to, at |-> copying.at,
                    rest |-> LET s == Follow(links.next, copying.from)
                             IN  [i \in DOMAIN s |-> val[s[i]]] ]

KeepsOrder == Order!Spec
=============================================================================
