----------------------------- MODULE ListOrder ------------------------------
(***************************************************************************)
(* What ds::LinkedList promises: a list is a sequence of nodes, each node  *)
(* is in at most one list, and every operation has the effect its comment  *)
(* states on that sequence.  No links, no ends, no ownership map.  A copy  *)
(* between lists goes on one node at a time.                               *)
(***************************************************************************)
EXTENDS Naturals, Sequences, SequencesExt

CONSTANTS List, Node, Val,
          Null          \* nullptr

VARIABLES order,        \* the nodes of each list, first to last
          val,          \* what each node holds, Null for one that does not exist
          pending       \* the copy going on: the list it goes to, the node it
                        \* goes before (Null: at the end), the values left

vars == << order, val, pending >>

Idle == [to |-> Null, at |-> Null, rest |-> << >>]

Range0(s) == {s[i] : i \in DOMAIN s}
Members(l) == Range0(order[l])
Free == Node \ UNION {Members(l) : l \in List}
Position(l, n) == CHOOSE i \in DOMAIN order[l] : order[l][i] = n

Init ==
  /\ order = [l \in List |-> << >>]
  /\ val = [n \in Node |-> Null]
  /\ pending = Idle

\* A new node that holds v becomes the i-th of the list.
Place(l, i, n, v) ==
  /\ n \in Free
  /\ order' = [order EXCEPT ![l] = InsertAt(@, i, n)]
  /\ val' = [val EXCEPT ![n] = v]

Insert(l, i, n, v) ==
  /\ pending = Idle
  /\ Place(l, i, n, v)
  /\ UNCHANGED pending

Delete(l, i) ==
  /\ pending = Idle
  /\ order' = [order EXCEPT ![l] = RemoveAt(@, i)]
  /\ val' = [val EXCEPT ![order[l][i]] = Null]
  /\ UNCHANGED pending

Swap(l, i, j) ==
  /\ pending = Idle
  /\ order' = [order EXCEPT ![l][i] = order[l][j], ![l][j] = order[l][i]]
  /\ UNCHANGED << val, pending >>

\* The i-th node comes to stand directly before (d = 0) or after (d = 1) pos.
Move(l, i, pos, d) ==
  /\ pending = Idle
  /\ order[l][i] # pos
  /\ LET others == RemoveAt(order[l], i)
         at == CHOOSE j \in DOMAIN others : others[j] = pos
     IN  order' = [order EXCEPT ![l] = InsertAt(others, at + d, order[l][i])]
  /\ UNCHANGED << val, pending >>

Values(s) == [i \in DOMAIN s |-> val[s[i]]]

\* Copies of the i-th node of "from" and of those after it are to go to the front
\* or to the end of a list.
Prepend(l, from, i) ==
  /\ pending = Idle
  /\ pending' = [ to |-> l, at |-> IF order[l] = << >> THEN Null ELSE order[l][1],
                  rest |-> Values(SubSeq(order[from], i, Len(order[from]))) ]
  /\ UNCHANGED << order, val >>

Extend(l, from, i) ==
  /\ pending = Idle
  /\ l # from
  /\ pending' = [ to |-> l, at |-> Null,
                  rest |-> Values(SubSeq(order[from], i, Len(order[from]))) ]
  /\ UNCHANGED << order, val >>

\* The list loses what it had, and receives copies of all of the other's nodes.
Assign(l, from) ==
  /\ pending = Idle
  /\ l # from
  /\ order' = [order EXCEPT ![l] = << >>]
  /\ val' = [n \in Node |-> IF n \in Members(l) THEN Null ELSE val[n]]
  /\ pending' = IF order[from] = << >> THEN Idle
                ELSE [to |-> l, at |-> Null, rest |-> Values(order[from])]

CopyNext(n) ==
  /\ pending # Idle
  /\ LET l == pending.to
         i == IF pending.at = Null THEN Len(order[l]) + 1 ELSE Position(l, pending.at)
     IN  Place(l, i, n, Head(pending.rest))
  /\ pending' = IF Len(pending.rest) = 1 THEN Idle ELSE [pending EXCEPT !.rest = Tail(@)]

\* Memory for the next copy cannot be had: the copies made so far stay.
GiveUp ==
  /\ pending # Idle
  /\ pending' = Idle
  /\ UNCHANGED << order, val >>

\* The list takes over the other's nodes and loses its own.
MoveAssign(l, from) ==
  /\ pending = Idle
  /\ l # from
  /\ order' = [order EXCEPT ![l] = order[from], ![from] = << >>]
  /\ val' = [n \in Node |-> IF n \in Members(l) THEN Null ELSE val[n]]
  /\ UNCHANGED pending

Next ==
  \/ \E l \in List, n \in Node, v \in Val : \E i \in 1 .. Len(order[l]) + 1 : Insert(l, i, n, v)
  \/ \E l \in List : \E i \in DOMAIN order[l] :
       \/ Delete(l, i)
       \/ \E j \in DOMAIN order[l] : Swap(l, i, j)
       \/ \E pos \in Members(l), d \in {0, 1} : Move(l, i, pos, d)
  \/ \E l, from \in List :
       \/ \E i \in DOMAIN order[from] : Prepend(l, from, i) \/ Extend(l, from, i)
       \/ Assign(l, from)
       \/ MoveAssign(l, from)
  \/ \E n \in Node : CopyNext(n)
  \/ GiveUp

Spec == Init /\ [][Next]_vars
=============================================================================
