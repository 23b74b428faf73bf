------------------------- MODULE SymbolTableProofs -------------------------
(***************************************************************************)
(* Proofs about SymbolTable, for any names and function types, any number   *)
(* of scopes and symbols, and any sequence of moves and insertions: symbols *)
(* stay owned, builder and reader walk the same scopes, and names resolve   *)
(* lexically.                                                               *)
(***************************************************************************)
EXTENDS SymbolTable, SequenceTheorems, WellFoundedInduction, TLAPS

(***************************************************************************)
(* Induction up to n, with a set for the predicate                         *)
(***************************************************************************)

LEMMA Least ==
  ASSUME NEW T, T \subseteq Nat, T # {}
  PROVE  \E x \in T : \A y \in T : x <= y
<1>1. PICK x \in T : \A y \in T : ~ (<< y, x >> \in OpToRel(<, Nat))
  BY WFMin, NatLessThanWellFounded
<1>2. ASSUME NEW y \in T PROVE x <= y
  <2>1. x \in Nat /\ y \in Nat
    OBVIOUS
  <2>2. ~ (<< y, x >> \in OpToRel(<, Nat))
    BY <1>1
  <2>3. ~ (y < x)
    BY <2>1, <2>2 DEF OpToRel
  <2> QED
    BY <2>1, <2>3
<1> QED
  BY <1>2

LEMMA Induction ==
  ASSUME NEW n \in Nat, NEW S, 0 \in S,
         \A k \in 0 .. n : k < n /\ k \in S => k + 1 \in S
  PROVE  \A k \in 0 .. n : k \in S
<1> DEFINE T == {k \in 0 .. n : k \notin S}
<1> SUFFICES ASSUME T # {} PROVE FALSE
  OBVIOUS
<1>1. PICK x \in T : \A y \in T : x <= y
  <2>1. T \subseteq Nat
    OBVIOUS
  <2> HIDE DEF T
  <2> QED
    BY <2>1, Least
<1>2. x - 1 \in 0 .. n /\ x - 1 < n /\ x - 1 \notin T
  BY <1>1
<1>3. x - 1 \in S /\ (x - 1) + 1 = x
  BY <1>2
<1> QED
  BY <1>2, <1>3

(***************************************************************************)
(* The tree                                                                *)
(***************************************************************************)

Trees == [n : Scope, outer : [Scope -> Scope \cup {None}],
          nested : [Scope -> Seq(Scope)], assoc : [Scope -> Sym \cup {None}]]

\* Scopes are numbered from the outside inwards, and nested holds those of a
\* scope in that order.
IsTree(t) ==
  /\ t.outer[Global] = None
  /\ \A s \in 2 .. t.n : t.outer[s] \in 1 .. s - 1
  /\ \A s \in Scope : s > t.n => t.outer[s] = None /\ t.nested[s] = << >> /\ t.assoc[s] = None
  /\ \A s \in 1 .. t.n :
       /\ Len(t.nested[s]) < t.n
       /\ \A i \in 1 .. Len(t.nested[s]) :
            t.nested[s][i] \in 2 .. t.n /\ t.outer[t.nested[s][i]] = s
       /\ \A i, j \in 1 .. Len(t.nested[s]) : i < j => t.nested[s][i] < t.nested[s][j]
  /\ \A s \in 2 .. t.n : \E i \in 1 .. Len(t.nested[t.outer[s]]) : t.nested[t.outer[s]][i] = s

LEMMA Scopes ==
  /\ MaxScopes \in Nat \ {0} /\ MaxSyms \in Nat
  /\ \A s \in Scope : s \in Nat /\ s >= 1 /\ s <= MaxScopes
  /\ \A s \in Sym : s \in Nat /\ s >= 1 /\ s <= MaxSyms
  /\ 1 \in Scope /\ Global \in Scope
  BY SymbolTableAssumption DEF Scope, Sym, Global

LEMMA TreeIs ==
  ASSUME NEW t \in Trees, IsTree(t)
  PROVE  /\ t.n \in Scope /\ t.n \in Nat
         /\ \A s \in 1 .. t.n : s \in Scope /\ s \in Nat
         /\ t.outer \in [Scope -> Scope \cup {None}]
         /\ \A s \in Scope : t.outer[s] \in 0 .. s - 1
         /\ t.outer[1] = 0
         /\ \A s \in Scope : t.nested[s] \in Seq(Scope) /\ Len(t.nested[s]) \in Nat
<1>1. /\ t.n \in Scope /\ t.outer \in [Scope -> Scope \cup {None}]
      /\ t.nested \in [Scope -> Seq(Scope)]
  BY DEF Trees
<1>2. t.n \in Nat /\ \A s \in 1 .. t.n : s \in Scope /\ s \in Nat
  BY <1>1, Scopes DEF Scope
<1>3. t.outer[1] = 0
  BY DEF IsTree, Global, None
<1>4. ASSUME NEW s \in Scope PROVE t.outer[s] \in 0 .. s - 1
  <2>1. s \in Nat /\ s >= 1
    BY Scopes
  <2>2. CASE s = 1
    BY <1>3, <2>2
  <2>3. CASE s \in 2 .. t.n
    BY <2>1, <2>3 DEF IsTree
  <2>4. CASE s > t.n
    BY <2>1, <2>4 DEF IsTree, None
  <2> QED
    BY <1>2, <2>1, <2>2, <2>3, <2>4
<1>5. \A s \in Scope : t.nested[s] \in Seq(Scope)
  BY <1>1
<1>6. \A s \in Scope : Len(t.nested[s]) \in Nat
  BY <1>5
<1> QED
  BY <1>1, <1>2, <1>3, <1>4, <1>5, <1>6

\* One more scope: what PathsIn makes of the path p to the scope around it.
Longer(p, o, k) == IF o = None THEN << >> ELSE Append(p, k)

\* The recursive definition has a solution.
LEMMA PathsAre ==
  ASSUME NEW o, \A s \in Scope : o[s] \in 0 .. s - 1
  PROVE  PathsIn(o) = [k \in Scope |-> Longer(PathsIn(o)[o[k]], o[k], k)]
<1> DEFINE Solves(g, n) == g = [k \in 1 .. n |-> Longer(g[o[k]], o[k], k)]
<1> DEFINE S == {n \in 0 .. MaxScopes : \E g : Solves(g, n)}
<1>1. MaxScopes \in Nat /\ \A n \in 0 .. MaxScopes : n \in Nat
  BY Scopes
<1>2. 0 \in S
  <2>1. Solves([k \in 1 .. 0 |-> << >>], 0)
    OBVIOUS
  <2>2. \E g : Solves(g, 0)
    <3> HIDE DEF Solves
    <3> QED
      BY <2>1
  <2> HIDE DEF Solves
  <2> QED
    BY <1>1, <2>2
<1>3. ASSUME NEW n \in 0 .. MaxScopes, n < MaxScopes, n \in S PROVE n + 1 \in S
  <2>1. PICK g : Solves(g, n)
    BY <1>3
  <2> DEFINE h == [k \in 1 .. n + 1 |-> IF k = n + 1 THEN Longer(g[o[k]], o[k], k) ELSE g[k]]
  <2>2. \A k \in 1 .. n : h[k] = g[k]
    OBVIOUS
  <2>3. ASSUME NEW k \in 1 .. n + 1
        PROVE  h[k] = Longer(h[o[k]], o[k], k)
    <3>1. o[k] = 0 \/ o[k] \in 1 .. n
      <4>1. k \in Scope /\ k \in Nat /\ n \in Nat
        BY <1>1, <1>3 DEF Scope
      <4>2. o[k] \in 0 .. k - 1
        BY <4>1
      <4> QED
        BY <4>1, <4>2
    <3>2. Longer(h[o[k]], o[k], k) = Longer(g[o[k]], o[k], k)
      BY <2>2, <3>1 DEF Longer, None
    <3>3. CASE k = n + 1
      BY <3>2, <3>3
    <3>4. CASE k # n + 1
      <4>1. k \in 1 .. n
        BY <3>4
      <4>2. g[k] = Longer(g[o[k]], o[k], k)
        BY <2>1, <4>1
      <4> QED
        BY <2>2, <3>2, <4>1, <4>2
    <3> QED
      BY <3>3, <3>4
  <2>4. Solves(h, n + 1)
    BY <2>3
  <2>5. \E x : Solves(x, n + 1)
    <3> HIDE DEF Solves, h
    <3> QED
      BY <2>4
  <2> QED
    BY <1>1, <1>3, <2>5
<1>4. \A n \in 0 .. MaxScopes : n \in S
  <2> HIDE DEF S
  <2> QED
    BY <1>1, <1>2, <1>3, Induction
<1>5. \E g : Solves(g, MaxScopes)
  BY <1>1, <1>4
<1> QED
  BY <1>5 DEF PathsIn, Longer, Scope

LEMMA PathOf ==
  ASSUME NEW t \in Trees, IsTree(t)
  PROVE  LET p == PathsIn(t.outer)
         IN  /\ p[1] = << >>
             /\ \A s \in 2 .. t.n : p[s] = Append(p[t.outer[s]], s)
             /\ \A s \in Scope : s > t.n => p[s] = << >>
<1> DEFINE p == PathsIn(t.outer)
<1>1. p = [k \in Scope |-> Longer(p[t.outer[k]], t.outer[k], k)]
  BY TreeIs, PathsAre
<1> HIDE DEF p
<1>2. p[1] = << >>
  BY <1>1, TreeIs, Scopes DEF Longer, None
<1>3. ASSUME NEW s \in 2 .. t.n PROVE p[s] = Append(p[t.outer[s]], s)
  <2>1. s \in Scope
    BY TreeIs
  <2>2. t.outer[s] # None
    BY DEF IsTree, None
  <2> QED
    BY <1>1, <2>1, <2>2 DEF Longer
<1>4. ASSUME NEW s \in Scope, s > t.n PROVE p[s] = << >>
  BY <1>1, <1>4 DEF Longer, IsTree
<1> QED
  BY <1>2, <1>3, <1>4 DEF p

\* A path goes inwards, and ends with the scope it leads to.
LEMMA PathIs ==
  ASSUME NEW t \in Trees, IsTree(t), NEW s \in 1 .. t.n
  PROVE  /\ PathsIn(t.outer)[s] \in Seq(Scope)
         /\ Len(PathsIn(t.outer)[s]) \in Nat
         /\ \A k \in 1 .. Len(PathsIn(t.outer)[s]) : PathsIn(t.outer)[s][k] \in 2 .. s
<1> DEFINE p == PathsIn(t.outer)
           P(m) == /\ p[m] \in Seq(Scope)
                   /\ \A k \in 1 .. Len(p[m]) : p[m][k] \in 2 .. m
           S == {n \in 0 .. t.n : \A m \in 1 .. n : P(m)}
<1>1. t.n \in Nat
  BY TreeIs
<1>2. 0 \in S
  BY <1>1
<1>3. ASSUME NEW n \in 0 .. t.n, n < t.n, n \in S PROVE n + 1 \in S
  <2>1. P(n + 1)
    <3>1. CASE n = 0
      <4>1. p[n + 1] = << >>
        BY <3>1, PathOf
      <4> QED
        BY <4>1, EmptySeq
    <3>2. CASE n # 0
      <4>1. n + 1 \in 2 .. t.n /\ n + 1 \in Scope /\ (n + 1) - 1 = n
        BY <1>1, <1>3, <3>2, TreeIs
      <4>2. p[n + 1] = Append(p[t.outer[n + 1]], n + 1)
        BY <4>1, PathOf
      <4>3. t.outer[n + 1] \in 1 .. n
        BY <4>1 DEF IsTree
      <4>4. P(t.outer[n + 1])
        BY <1>3, <4>3
      <4> HIDE DEF p
      <4> DEFINE q == p[t.outer[n + 1]]
      <4>5. q \in Seq(Scope) /\ \A k \in 1 .. Len(q) : q[k] \in 2 .. n + 1
        BY <4>3, <4>4
      <4> HIDE DEF q
      <4>6. /\ Append(q, n + 1) \in Seq(Scope)
            /\ \A k \in 1 .. Len(Append(q, n + 1)) : Append(q, n + 1)[k] \in 2 .. n + 1
        BY <4>1, <4>5
      <4> QED
        BY <4>2, <4>6 DEF q
    <3> QED
      BY <3>1, <3>2
  <2>2. \A m \in 1 .. n + 1 : m \in 1 .. n \/ m = n + 1
    BY <1>1
  <2> HIDE DEF P
  <2> QED
    BY <1>1, <1>3, <2>1, <2>2
<1>4. \A n \in 0 .. t.n : n \in S
  <2> HIDE DEF S
  <2> QED
    BY <1>1, <1>2, <1>3, Induction
<1>5. P(s)
  BY <1>1, <1>4
<1> QED
  BY <1>5

\* More scopes do not move those that are there.
LEMMA PathKept ==
  ASSUME NEW t \in Trees, IsTree(t), NEW u \in Trees, IsTree(u), t.n <= u.n,
         \A s \in 1 .. t.n : u.outer[s] = t.outer[s]
  PROVE  \A s \in 1 .. t.n : PathsIn(u.outer)[s] = PathsIn(t.outer)[s]
<1> DEFINE p == PathsIn(t.outer)
           q == PathsIn(u.outer)
           S == {n \in 0 .. t.n : \A m \in 1 .. n : q[m] = p[m]}
<1>1. t.n \in Nat /\ u.n \in Nat
  BY TreeIs
<1>2. 0 \in S
  BY <1>1
<1>3. ASSUME NEW n \in 0 .. t.n, n < t.n, n \in S PROVE n + 1 \in S
  <2>1. q[n + 1] = p[n + 1]
    <3>1. CASE n = 0
      BY <3>1, PathOf
    <3>2. CASE n # 0
      <4>1. n + 1 \in 2 .. t.n /\ n + 1 \in 2 .. u.n /\ n + 1 \in 1 .. t.n /\ (n + 1) - 1 = n
        BY <1>1, <1>3, <3>2
      <4>2. p[n + 1] = Append(p[t.outer[n + 1]], n + 1)
        BY <4>1, PathOf
      <4>3. q[n + 1] = Append(q[u.outer[n + 1]], n + 1)
        BY <4>1, PathOf
      <4>4. t.outer[n + 1] \in 1 .. n /\ u.outer[n + 1] = t.outer[n + 1]
        BY <4>1 DEF IsTree
      <4>5. q[t.outer[n + 1]] = p[t.outer[n + 1]]
        BY <1>3, <4>4
      <4> QED
        BY <4>2, <4>3, <4>4, <4>5
    <3> QED
      BY <3>1, <3>2
  <2>2. \A m \in 1 .. n + 1 : m \in 1 .. n \/ m = n + 1
    BY <1>1
  <2> HIDE DEF p, q
  <2> QED
    BY <1>1, <1>3, <2>1, <2>2
<1>4. \A n \in 0 .. t.n : n \in S
  <2> HIDE DEF S
  <2> QED
    BY <1>1, <1>2, <1>3, Induction
<1> QED
  BY <1>1, <1>4

(***************************************************************************)
(* Moving in the tree                                                      *)
(***************************************************************************)

\* A walker knows its way back, prev_scope_idxs by prev_scope_idxs.
OnPath(t, w) ==
  LET path == PathsIn(t.outer)[w.current]
  IN  /\ Len(w.prevs) = Len(path)
      /\ \A k \in 1 .. Len(path) :
           /\ w.prevs[k] \in 1 .. Len(t.nested[t.outer[path[k]]])
           /\ t.nested[t.outer[path[k]]][w.prevs[k]] = path[k]

\* What remains of that after reset(), which forgets the way back and keeps
\* the indices: there are enough of them.
InTree(t, w) ==
  /\ w \in Walkers /\ w.current <= t.n
  /\ Len(PathsIn(t.outer)[w.current]) <= Len(w.prevs)

LEMMA WalkerIs ==
  ASSUME NEW w \in Walkers
  PROVE  /\ w.current \in Scope /\ w.current \in Nat /\ w.current >= 1
         /\ w.idx \in 0 .. MaxScopes /\ w.idx \in Nat
         /\ w.prevs \in Seq(1 .. MaxScopes) /\ Len(w.prevs) \in Nat
         /\ \A k \in 1 .. Len(w.prevs) : w.prevs[k] \in 1 .. MaxScopes
<1>1. w.current \in Scope /\ w.idx \in 0 .. MaxScopes /\ w.prevs \in Seq(1 .. MaxScopes)
  BY DEF Walkers
<1>2. w.current \in Nat /\ w.current >= 1 /\ w.idx \in Nat
  BY <1>1, Scopes
<1>3. Len(w.prevs) \in Nat /\ \A k \in 1 .. Len(w.prevs) : w.prevs[k] \in 1 .. MaxScopes
  BY <1>1, LenProperties, ElementOfSeq
<1> QED
  BY <1>1, <1>2, <1>3

LEMMA NewWalkerIs ==
  ASSUME NEW t \in Trees, IsTree(t)
  PROVE  InTree(t, NewWalker) /\ OnPath(t, NewWalker)
<1>1. /\ NewWalker.current = 1 /\ NewWalker.idx = 0 /\ NewWalker.prevs = << >>
      /\ Len(NewWalker.prevs) = 0
  BY DEF NewWalker, Global
<1>2. NewWalker \in Walkers
  <2>1. << >> \in Seq(1 .. MaxScopes) /\ 0 \in 0 .. MaxScopes
    BY Scopes, EmptySeq
  <2> QED
    BY <2>1, Scopes DEF NewWalker, Walkers
<1>3. PathsIn(t.outer)[1] = << >> /\ t.n \in Nat /\ 1 <= t.n
  BY PathOf, TreeIs, Scopes
<1> QED
  BY <1>1, <1>2, <1>3 DEF InTree, OnPath

LEMMA EnterIs ==
  ASSUME NEW t \in Trees, IsTree(t), NEW w, InTree(t, w), CanEnter(t, w)
  PROVE  LET v == Enter(t, w)
         IN  /\ w.idx + 1 \in 1 .. Len(t.nested[w.current])
             /\ v.current = t.nested[w.current][w.idx + 1]
             /\ v.current \in 2 .. t.n /\ t.outer[v.current] = w.current
             /\ v.idx = 0 /\ v.prevs = Append(w.prevs, w.idx + 1)
             /\ Len(v.prevs) = Len(w.prevs) + 1
             /\ \A k \in 1 .. Len(w.prevs) : v.prevs[k] = w.prevs[k]
             /\ v.prevs[Len(w.prevs) + 1] = w.idx + 1
             /\ PathsIn(t.outer)[v.current] = Append(PathsIn(t.outer)[w.current], v.current)
             /\ InTree(t, v)
<1> DEFINE v == Enter(t, w)
           c == t.nested[w.current][w.idx + 1]
<1>1. /\ v.current = c /\ v.idx = 0 /\ v.prevs = Append(w.prevs, w.idx + 1)
      /\ v = [current |-> c, idx |-> 0, prevs |-> Append(w.prevs, w.idx + 1)]
  BY DEF Enter
<1>2. w \in Walkers /\ w.current \in 1 .. t.n /\ t.n \in Nat /\ w.current \in Scope
  BY WalkerIs, TreeIs DEF InTree
<1>3. w.idx + 1 \in 1 .. Len(t.nested[w.current]) /\ w.idx \in Nat
  BY <1>2, WalkerIs, TreeIs DEF CanEnter
<1>4. c \in 2 .. t.n /\ t.outer[c] = w.current /\ Len(t.nested[w.current]) < t.n
  BY <1>2, <1>3 DEF IsTree
<1>5. w.idx + 1 \in 1 .. MaxScopes
  <2>1. t.n <= MaxScopes /\ Len(t.nested[w.current]) \in Nat
    BY <1>2, TreeIs, Scopes
  <2> QED
    BY <1>2, <1>3, <1>4, <2>1, Scopes
<1>6. /\ Len(v.prevs) = Len(w.prevs) + 1
      /\ \A k \in 1 .. Len(w.prevs) : v.prevs[k] = w.prevs[k]
      /\ v.prevs[Len(w.prevs) + 1] = w.idx + 1
      /\ v.prevs \in Seq(1 .. MaxScopes)
  <2>1. w.prevs \in Seq(1 .. MaxScopes)
    BY <1>2, WalkerIs
  <2> HIDE DEF v, c
  <2> QED
    BY <1>1, <1>5, <2>1, AppendProperties
<1> HIDE DEF v, c
<1>7. PathsIn(t.outer)[c] = Append(PathsIn(t.outer)[w.current], c)
  BY <1>4, PathOf
<1>8. c \in Scope /\ 0 \in 0 .. MaxScopes
  BY <1>4, TreeIs, Scopes
<1>9. v \in Walkers
  BY <1>1, <1>6, <1>8 DEF Walkers
<1>10. Len(PathsIn(t.outer)[c]) = Len(PathsIn(t.outer)[w.current]) + 1
  <2>1. PathsIn(t.outer)[w.current] \in Seq(Scope)
    BY <1>2, PathIs
  <2> QED
    BY <1>7, <1>8, <2>1, AppendProperties
<1>11. InTree(t, v)
  <2>1. /\ Len(PathsIn(t.outer)[w.current]) \in Nat /\ Len(w.prevs) \in Nat
        /\ Len(PathsIn(t.outer)[w.current]) <= Len(w.prevs)
    BY <1>2, PathIs, WalkerIs DEF InTree
  <2>2. v.current <= t.n
    BY <1>1, <1>4
  <2>3. Len(PathsIn(t.outer)[v.current]) <= Len(v.prevs)
    BY <1>1, <1>6, <1>10, <2>1
  <2> QED
    BY <1>9, <2>2, <2>3 DEF InTree
<1> QED
  BY <1>1, <1>3, <1>4, <1>6, <1>7, <1>11 DEF v, c

LEMMA EnterOnPath ==
  ASSUME NEW t \in Trees, IsTree(t), NEW w, InTree(t, w), CanEnter(t, w), OnPath(t, w)
  PROVE  OnPath(t, Enter(t, w))
<1> DEFINE v == Enter(t, w)
           p == PathsIn(t.outer)[w.current]
           q == PathsIn(t.outer)[v.current]
<1>1. /\ w.idx + 1 \in 1 .. Len(t.nested[w.current])
      /\ v.current = t.nested[w.current][w.idx + 1]
      /\ v.current \in 2 .. t.n /\ t.outer[v.current] = w.current
      /\ Len(v.prevs) = Len(w.prevs) + 1
      /\ \A k \in 1 .. Len(w.prevs) : v.prevs[k] = w.prevs[k]
      /\ v.prevs[Len(w.prevs) + 1] = w.idx + 1
      /\ q = Append(p, v.current)
  BY EnterIs
<1>2. /\ p \in Seq(Scope) /\ Len(p) \in Nat /\ Len(w.prevs) = Len(p)
      /\ \A k \in 1 .. Len(p) :
           /\ w.prevs[k] \in 1 .. Len(t.nested[t.outer[p[k]]])
           /\ t.nested[t.outer[p[k]]][w.prevs[k]] = p[k]
  <2>1. w.current \in 1 .. t.n
    BY WalkerIs, TreeIs DEF InTree
  <2> QED
    BY <2>1, PathIs DEF OnPath
<1> HIDE DEF v, p, q
<1>3. v.current \in Scope
  <2>1. \A s \in 2 .. t.n : s \in 1 .. t.n
    OBVIOUS
  <2> QED
    BY <1>1, <2>1, TreeIs
<1>4. /\ Len(q) = Len(p) + 1 /\ q[Len(p) + 1] = v.current
      /\ \A k \in 1 .. Len(p) : q[k] = p[k]
  <2>1. q = Append(p, v.current) /\ p \in Seq(Scope)
    BY <1>1, <1>2
  <2> QED
    BY <1>3, <2>1, AppendProperties
<1>5. ASSUME NEW k \in 1 .. Len(q)
      PROVE  /\ v.prevs[k] \in 1 .. Len(t.nested[t.outer[q[k]]])
             /\ t.nested[t.outer[q[k]]][v.prevs[k]] = q[k]
  <2>1. CASE k \in 1 .. Len(p)
    BY <1>1, <1>2, <1>4, <2>1
  <2>2. CASE k = Len(p) + 1
    BY <1>1, <1>2, <1>4, <2>2
  <2> QED
    BY <1>2, <1>4, <2>1, <2>2
<1>6. Len(v.prevs) = Len(q)
  BY <1>1, <1>2, <1>4
<1> QED
  BY <1>5, <1>6 DEF OnPath, v, q

LEMMA LeaveIs ==
  ASSUME NEW t \in Trees, IsTree(t), NEW w, InTree(t, w), w.current # Global
  PROVE  LET v == Leave(t, w)
         IN  /\ v.current = t.outer[w.current] /\ v.current \in 1 .. w.current - 1
             /\ Len(w.prevs) \in 1 .. Len(w.prevs)
             /\ v.idx = w.prevs[Len(w.prevs)]
             /\ Len(v.prevs) = Len(w.prevs) - 1
             /\ \A k \in 1 .. Len(w.prevs) - 1 : v.prevs[k] = w.prevs[k]
             /\ PathsIn(t.outer)[w.current] = Append(PathsIn(t.outer)[v.current], w.current)
             /\ InTree(t, v)
<1> DEFINE v == Leave(t, w)
           o == t.outer[w.current]
           l == Len(w.prevs)
<1>1. /\ v.current = o /\ v.idx = w.prevs[l] /\ v.prevs = SubSeq(w.prevs, 1, l - 1)
      /\ v = [current |-> o, idx |-> w.prevs[l], prevs |-> SubSeq(w.prevs, 1, l - 1)]
  BY DEF Leave, Last, Front
<1>2. /\ w \in Walkers /\ w.current \in 2 .. t.n /\ w.current \in 1 .. t.n
      /\ t.n \in Nat /\ w.current \in Scope /\ w.current \in Nat
  BY WalkerIs, TreeIs DEF InTree, Global
<1>3. o \in 1 .. w.current - 1 /\ o \in 1 .. t.n /\ o \in Scope
  <2>1. o \in 1 .. w.current - 1
    BY <1>2 DEF IsTree
  <2> HIDE DEF o
  <2> QED
    BY <1>2, <2>1, TreeIs
<1>4. PathsIn(t.outer)[w.current] = Append(PathsIn(t.outer)[o], w.current)
  BY <1>2, PathOf
<1>5. /\ Len(PathsIn(t.outer)[w.current]) = Len(PathsIn(t.outer)[o]) + 1
      /\ Len(PathsIn(t.outer)[o]) \in Nat
  <2>1. PathsIn(t.outer)[o] \in Seq(Scope)
    BY <1>3, PathIs
  <2> QED
    BY <1>2, <1>4, <2>1, AppendProperties
<1>6. l \in Nat /\ l >= 1 /\ l \in 1 .. l /\ Len(PathsIn(t.outer)[o]) <= l - 1
  <2>1. l \in Nat /\ Len(PathsIn(t.outer)[w.current]) <= l
    BY <1>2, WalkerIs DEF InTree
  <2> QED
    BY <1>5, <2>1
<1>7. \A k \in 1 .. l : w.prevs[k] \in 1 .. MaxScopes
  BY <1>2, WalkerIs
<1> HIDE DEF v, o, l
<1>8. /\ v.prevs \in Seq(1 .. MaxScopes) /\ Len(v.prevs) = l - 1
      /\ \A k \in 1 .. l - 1 : v.prevs[k] = w.prevs[k]
  <2>1. \A k \in 1 .. l - 1 : w.prevs[k] \in 1 .. MaxScopes
    BY <1>6, <1>7
  <2>2. l - 1 \in Int /\ 1 \in Int /\ (l - 1) - 1 + 1 = l - 1
    BY <1>6
  <2> DEFINE b == SubSeq(w.prevs, 1, l - 1)
  <2>3. /\ b \in Seq(1 .. MaxScopes)
        /\ Len(b) = IF 1 <= l - 1 THEN (l - 1) - 1 + 1 ELSE 0
        /\ \A k \in 1 .. (l - 1) - 1 + 1 : b[k] = w.prevs[1 + k - 1]
    BY <2>1, <2>2, SubSeqProperties
  <2> HIDE DEF b
  <2>4. Len(b) = l - 1 /\ \A k \in 1 .. l - 1 : b[k] = w.prevs[k]
    BY <1>6, <2>3
  <2> QED
    BY <1>1, <2>3, <2>4 DEF b
<1>9. v \in Walkers
  <2>1. w.prevs[l] \in 0 .. MaxScopes
    BY <1>6, <1>7
  <2> QED
    BY <1>1, <1>3, <1>8, <2>1 DEF Walkers
<1>10. InTree(t, v)
  BY <1>1, <1>2, <1>3, <1>6, <1>8, <1>9 DEF InTree
<1> QED
  BY <1>1, <1>3, <1>4, <1>6, <1>8, <1>10 DEF v, o, l

LEMMA LeaveOnPath ==
  ASSUME NEW t \in Trees, IsTree(t), NEW w, InTree(t, w), w.current # Global, OnPath(t, w)
  PROVE  OnPath(t, Leave(t, w))
<1> DEFINE v == Leave(t, w)
           p == PathsIn(t.outer)[w.current]
           q == PathsIn(t.outer)[v.current]
<1>1. /\ v.current \in 1 .. w.current - 1
      /\ Len(w.prevs) \in 1 .. Len(w.prevs)
      /\ Len(v.prevs) = Len(w.prevs) - 1
      /\ \A k \in 1 .. Len(w.prevs) - 1 : v.prevs[k] = w.prevs[k]
      /\ p = Append(q, w.current)
  BY LeaveIs
<1>2. /\ Len(w.prevs) = Len(p)
      /\ \A k \in 1 .. Len(p) :
           /\ w.prevs[k] \in 1 .. Len(t.nested[t.outer[p[k]]])
           /\ t.nested[t.outer[p[k]]][w.prevs[k]] = p[k]
  BY DEF OnPath
<1>3. w.current \in Scope /\ v.current \in 1 .. t.n /\ q \in Seq(Scope) /\ Len(q) \in Nat
  <2>1. w.current \in Scope /\ w.current \in Nat /\ w.current <= t.n /\ t.n \in Nat
    BY WalkerIs, TreeIs DEF InTree
  <2>2. v.current \in 1 .. t.n
    <3> HIDE DEF v
    <3> QED
      BY <1>1, <2>1
  <2> QED
    BY <2>1, <2>2, PathIs
<1> HIDE DEF v, p, q
<1>4. Len(p) = Len(q) + 1 /\ \A k \in 1 .. Len(q) : q[k] = p[k]
  BY <1>1, <1>3, AppendProperties
<1>5. Len(v.prevs) = Len(q) /\ \A k \in 1 .. Len(q) : v.prevs[k] = w.prevs[k] /\ k \in 1 .. Len(p)
  BY <1>1, <1>2, <1>3, <1>4
<1> QED
  BY <1>2, <1>4, <1>5 DEF OnPath, v, q

(***************************************************************************)
(* The tree grows                                                          *)
(***************************************************************************)

\* Scope c gets one more scope, its last.
Grown(t, c) == [t EXCEPT !.n = t.n + 1, !.outer[t.n + 1] = c,
                         !.nested[c] = Append(@, t.n + 1)]

LEMMA GrownHas ==
  ASSUME NEW t \in Trees, IsTree(t), NEW c \in 1 .. t.n, t.n < MaxScopes
  PROVE  LET u == Grown(t, c)
         IN  /\ u \in Trees /\ u.n = t.n + 1 /\ u.assoc = t.assoc
             /\ t.n + 1 \in Scope /\ c \in Scope
             /\ \A s \in 1 .. t.n : u.outer[s] = t.outer[s]
             /\ \A s \in Scope : s # t.n + 1 => u.outer[s] = t.outer[s]
             /\ u.outer[t.n + 1] = c
             /\ \A s \in Scope : s # c => u.nested[s] = t.nested[s]
             /\ Len(u.nested[c]) = Len(t.nested[c]) + 1
             /\ \A i \in 1 .. Len(t.nested[c]) : u.nested[c][i] = t.nested[c][i]
             /\ u.nested[c][Len(t.nested[c]) + 1] = t.n + 1
             /\ u.nested[t.n + 1] = << >>
<1> DEFINE u == Grown(t, c)
           m == t.n + 1
<1>1. /\ t.n \in Nat /\ m \in Scope /\ c \in Scope /\ c # m /\ m > t.n
      /\ t.nested[c] \in Seq(Scope)
      /\ \A s \in 1 .. t.n : s \in Scope /\ s # m
  <2>1. t.n \in Nat /\ m \in 1 .. MaxScopes
    BY TreeIs, Scopes
  <2>2. c \in Scope /\ t.nested[c] \in Seq(Scope) /\ \A s \in 1 .. t.n : s \in Scope
    BY TreeIs
  <2> QED
    BY <2>1, <2>2 DEF Scope
<1>2. /\ t.outer \in [Scope -> Scope \cup {None}] /\ t.nested \in [Scope -> Seq(Scope)]
      /\ t.assoc \in [Scope -> Sym \cup {None}]
      /\ t = [n |-> t.n, outer |-> t.outer, nested |-> t.nested, assoc |-> t.assoc]
  BY DEF Trees
<1> HIDE DEF m
<1>4. u.n = m /\ u.assoc = t.assoc /\ u.outer = [t.outer EXCEPT ![m] = c]
      /\ u.nested = [t.nested EXCEPT ![c] = Append(t.nested[c], m)]
  BY DEF Grown, Trees, m
<1> HIDE DEF u
<1>5. /\ Append(t.nested[c], m) \in Seq(Scope)
      /\ Len(Append(t.nested[c], m)) = Len(t.nested[c]) + 1
      /\ \A i \in 1 .. Len(t.nested[c]) : Append(t.nested[c], m)[i] = t.nested[c][i]
      /\ Append(t.nested[c], m)[Len(t.nested[c]) + 1] = m
  BY <1>1, AppendProperties
<1>6. u \in Trees
  <2>1. /\ [t.outer EXCEPT ![m] = c] \in [Scope -> Scope \cup {None}]
        /\ [t.nested EXCEPT ![c] = Append(t.nested[c], m)] \in [Scope -> Seq(Scope)]
    BY <1>1, <1>2, <1>5
  <2> QED
    BY <1>1, <1>2, <1>4, <2>1 DEF Grown, Trees, u, m
<1>7. \A s \in Scope : s # m => u.outer[s] = t.outer[s]
  BY <1>2, <1>4
<1>8. u.outer[m] = c
  BY <1>1, <1>2, <1>4
<1>9. \A s \in Scope : s # c => u.nested[s] = t.nested[s]
  BY <1>2, <1>4
<1>10. u.nested[c] = Append(t.nested[c], m)
  BY <1>1, <1>2, <1>4
<1>11. u.nested[m] = << >>
  BY <1>1, <1>9 DEF IsTree
<1> QED
  BY <1>1, <1>4, <1>5, <1>6, <1>7, <1>8, <1>9, <1>10, <1>11 DEF u, m

LEMMA GrownIsTree ==
  ASSUME NEW t \in Trees, IsTree(t), NEW c \in 1 .. t.n, t.n < MaxScopes
  PROVE  IsTree(Grown(t, c))
<1> DEFINE u == Grown(t, c)
           m == t.n + 1
           l == Len(t.nested[c])
<1>1. /\ u \in Trees /\ u.n = m /\ u.assoc = t.assoc /\ m \in Scope /\ c \in Scope
      /\ \A s \in 1 .. t.n : u.outer[s] = t.outer[s]
      /\ \A s \in Scope : s # m => u.outer[s] = t.outer[s]
      /\ u.outer[m] = c
      /\ \A s \in Scope : s # c => u.nested[s] = t.nested[s]
      /\ Len(u.nested[c]) = l + 1
      /\ \A i \in 1 .. l : u.nested[c][i] = t.nested[c][i]
      /\ u.nested[c][l + 1] = m
      /\ u.nested[m] = << >>
  BY SMTT(30), GrownHas
<1>2. /\ t.n \in Nat /\ t.n >= 1 /\ m = t.n + 1 /\ l \in Nat /\ l < t.n
      /\ \A s \in 1 .. t.n : s \in Scope /\ s \in Nat /\ Len(t.nested[s]) \in Nat
  <2>1. t.n \in Nat /\ l \in Nat /\ \A s \in 1 .. t.n : s \in Scope /\ s \in Nat
    BY <1>1, TreeIs
  <2>2. \A s \in 1 .. t.n : Len(t.nested[s]) \in Nat
    BY <2>1, TreeIs
  <2>3. l < t.n
    BY DEF IsTree
  <2> QED
    BY <2>1, <2>2, <2>3
<1>3. \A s \in 1 .. m : s \in 1 .. t.n \/ s = m
  BY <1>2
<1> HIDE DEF u, m, l
<1>4. u.outer[Global] = None
  BY <1>1, <1>2 DEF IsTree, Global
<1>5. \A s \in 2 .. m : u.outer[s] \in 1 .. s - 1
  <2>1. \A s \in 2 .. t.n : s \in 1 .. t.n /\ u.outer[s] \in 1 .. s - 1
    BY <1>1 DEF IsTree
  <2>2. u.outer[m] \in 1 .. m - 1
    BY <1>1, <1>2
  <2> QED
    BY <1>2, <2>1, <2>2
<1>6. \A s \in Scope : s > m => u.outer[s] = None /\ u.nested[s] = << >> /\ u.assoc[s] = None
  <2> SUFFICES ASSUME NEW s \in Scope, s > m
               PROVE  u.outer[s] = None /\ u.nested[s] = << >> /\ u.assoc[s] = None
    OBVIOUS
  <2>1. s > t.n /\ s # m /\ s # c
    BY <1>2, Scopes
  <2> QED
    BY <1>1, <2>1 DEF IsTree
<1>7. ASSUME NEW s \in 1 .. m
      PROVE  /\ Len(u.nested[s]) < m
             /\ \A i \in 1 .. Len(u.nested[s]) :
                  u.nested[s][i] \in 2 .. m /\ u.outer[u.nested[s][i]] = s
             /\ \A i, j \in 1 .. Len(u.nested[s]) : i < j => u.nested[s][i] < u.nested[s][j]
  <2>1. CASE s = m
    <3>1. u.nested[s] = << >> /\ Len(u.nested[s]) = 0
      BY <1>1, <2>1
    <3> QED
      BY <1>2, <3>1
  <2>2. CASE s \in 1 .. t.n /\ s # c
    <3>1. u.nested[s] = t.nested[s]
      BY <1>1, <1>2, <2>2
    <3>2. /\ Len(t.nested[s]) < t.n
          /\ \A i \in 1 .. Len(t.nested[s]) :
               t.nested[s][i] \in 2 .. t.n /\ t.outer[t.nested[s][i]] = s
          /\ \A i, j \in 1 .. Len(t.nested[s]) : i < j => t.nested[s][i] < t.nested[s][j]
      BY <2>2 DEF IsTree
    <3>3. \A k \in 2 .. t.n : k \in 2 .. m /\ u.outer[k] = t.outer[k]
      BY <1>1, <1>2
    <3>4. Len(t.nested[s]) < m
      BY <1>2, <2>2, <3>2
    <3> QED
      BY <3>1, <3>2, <3>3, <3>4
  <2>3. CASE s = c
    <3>1. /\ \A i \in 1 .. l : t.nested[c][i] \in 2 .. t.n /\ t.outer[t.nested[c][i]] = c
          /\ \A i, j \in 1 .. l : i < j => t.nested[c][i] < t.nested[c][j]
      BY DEF IsTree, l
    <3>2. \A k \in 2 .. t.n : k \in 2 .. m /\ u.outer[k] = t.outer[k] /\ k < m
      BY <1>1, <1>2
    <3>3. \A i \in 1 .. l + 1 : i \in 1 .. l \/ i = l + 1
      BY <1>2
    <3>4. ASSUME NEW i \in 1 .. l + 1 PROVE u.nested[c][i] \in 2 .. m /\ u.outer[u.nested[c][i]] = c
      <4>1. CASE i \in 1 .. l
        <5>1. /\ u.nested[c][i] = t.nested[c][i] /\ t.nested[c][i] \in 2 .. t.n
              /\ t.outer[t.nested[c][i]] = c
          BY <1>1, <3>1, <4>1
        <5> QED
          BY <3>2, <5>1
      <4>2. CASE i = l + 1
        BY <1>1, <1>2, <4>2
      <4> QED
        BY <3>3, <4>1, <4>2
    <3>5. ASSUME NEW i \in 1 .. l + 1, NEW j \in 1 .. l + 1, i < j
          PROVE  u.nested[c][i] < u.nested[c][j]
      <4>1. i \in 1 .. l
        BY <1>2, <3>5
      <4>2. CASE j \in 1 .. l
        BY <1>1, <3>1, <3>5, <4>1, <4>2
      <4>3. CASE j = l + 1
        BY <1>1, <3>1, <3>2, <4>1, <4>3
      <4> QED
        BY <3>3, <4>2, <4>3
    <3> QED
      BY <1>1, <1>2, <2>3, <3>4, <3>5
  <2> QED
    BY <1>3, <2>1, <2>2, <2>3
<1>8. ASSUME NEW s \in 2 .. m
      PROVE  \E i \in 1 .. Len(u.nested[u.outer[s]]) : u.nested[u.outer[s]][i] = s
  <2>1. CASE s = m
    <3>1. l + 1 \in 1 .. Len(u.nested[c]) /\ u.nested[c][l + 1] = m /\ u.outer[s] = c
      BY <1>1, <1>2, <2>1
    <3> QED
      BY <2>1, <3>1
  <2>2. CASE s \in 2 .. t.n
    <3>1. s \in 1 .. t.n /\ t.outer[s] \in 1 .. t.n /\ u.outer[s] = t.outer[s]
      <4>1. t.outer[s] \in 1 .. s - 1
        BY <2>2 DEF IsTree
      <4> QED
        BY <1>1, <1>2, <2>2, <4>1
    <3>2. PICK i \in 1 .. Len(t.nested[t.outer[s]]) : t.nested[t.outer[s]][i] = s
      BY <2>2 DEF IsTree
    <3>3. CASE t.outer[s] = c
      <4>1. i \in 1 .. l /\ t.nested[c][i] = s
        BY <3>2, <3>3 DEF l
      <4>2. i \in 1 .. Len(u.nested[c]) /\ u.nested[c][i] = s
        BY SMTT(30), <1>1, <1>2, <4>1
      <4> QED
        BY <3>1, <3>3, <4>2
    <3>4. CASE t.outer[s] # c
      <4>1. u.nested[t.outer[s]] = t.nested[t.outer[s]]
        BY <1>1, <1>2, <3>1, <3>4
      <4> QED
        BY <3>1, <3>2, <4>1
    <3> QED
      BY <3>3, <3>4
  <2> QED
    BY <1>2, <2>1, <2>2
<1> QED
  BY <1>1, <1>4, <1>5, <1>6, <1>7, <1>8 DEF IsTree, u

\* A walker of the tree stays one.
LEMMA GrownPaths ==
  ASSUME NEW t \in Trees, IsTree(t), NEW c \in 1 .. t.n, t.n < MaxScopes
  PROVE  \A s \in 1 .. t.n : PathsIn(Grown(t, c).outer)[s] = PathsIn(t.outer)[s]
<1>1. /\ Grown(t, c) \in Trees /\ Grown(t, c).n = t.n + 1
      /\ \A s \in 1 .. t.n : Grown(t, c).outer[s] = t.outer[s]
  BY GrownHas
<1>2. IsTree(Grown(t, c))
  BY GrownIsTree
<1>3. t.n <= Grown(t, c).n
  BY <1>1, TreeIs
<1> QED
  BY <1>1, <1>2, <1>3, PathKept

LEMMA GrownInTree ==
  ASSUME NEW t \in Trees, IsTree(t), NEW c \in 1 .. t.n, t.n < MaxScopes,
         NEW w, InTree(t, w)
  PROVE  InTree(Grown(t, c), w)
<1>1. w \in Walkers /\ w.current \in 1 .. t.n /\ t.n \in Nat
  BY WalkerIs, TreeIs DEF InTree
<1>2. Grown(t, c).n = t.n + 1
  BY GrownHas
<1>3. PathsIn(Grown(t, c).outer)[w.current] = PathsIn(t.outer)[w.current]
  BY <1>1, GrownPaths
<1> QED
  BY <1>1, <1>2, <1>3 DEF InTree

LEMMA GrownOnPath ==
  ASSUME NEW t \in Trees, IsTree(t), NEW c \in 1 .. t.n, t.n < MaxScopes,
         NEW w, InTree(t, w), OnPath(t, w)
  PROVE  OnPath(Grown(t, c), w)
<1> DEFINE u == Grown(t, c)
           p == PathsIn(t.outer)[w.current]
<1>1. w \in Walkers /\ w.current \in 1 .. t.n /\ t.n \in Nat
  BY WalkerIs, TreeIs DEF InTree
<1>2. PathsIn(u.outer)[w.current] = p
  BY <1>1, GrownPaths
<1>3. \A k \in 1 .. Len(p) : p[k] \in 2 .. w.current
  BY <1>1, PathIs
<1>4. \A s \in Scope : t.nested[s] \in Seq(Scope) /\ Len(t.nested[s]) \in Nat
  BY TreeIs
<1>5. /\ \A s \in 1 .. t.n : u.outer[s] = t.outer[s]
      /\ \A s \in Scope : s # c => u.nested[s] = t.nested[s]
      /\ Len(u.nested[c]) = Len(t.nested[c]) + 1
      /\ \A i \in 1 .. Len(t.nested[c]) : u.nested[c][i] = t.nested[c][i]
  BY GrownHas
<1>6. \A s \in 2 .. t.n : t.outer[s] \in Scope
  <2>1. \A s \in 2 .. t.n : t.outer[s] \in 1 .. s - 1
    BY DEF IsTree
  <2>2. \A s \in 2 .. t.n : t.outer[s] \in 1 .. t.n
    BY <1>1, <2>1
  <2> QED
    BY <2>2, TreeIs
<1> HIDE DEF u, p
<1>7. ASSUME NEW k \in 1 .. Len(p)
      PROVE  /\ w.prevs[k] \in 1 .. Len(u.nested[u.outer[p[k]]])
             /\ u.nested[u.outer[p[k]]][w.prevs[k]] = p[k]
  <2> DEFINE o == t.outer[p[k]]
  <2>1. p[k] \in 2 .. t.n /\ p[k] \in 1 .. t.n
    BY <1>1, <1>3
  <2>2. u.outer[p[k]] = o /\ o \in Scope
    BY <1>5, <1>6, <2>1
  <2>3. w.prevs[k] \in 1 .. Len(t.nested[o]) /\ t.nested[o][w.prevs[k]] = p[k]
    BY DEF OnPath, p
  <2> HIDE DEF o
  <2>4. CASE o = c
    <3>1. Len(t.nested[c]) \in Nat
      BY <1>4, <2>2, <2>4
    <3>2. w.prevs[k] \in 1 .. Len(t.nested[c]) /\ t.nested[c][w.prevs[k]] = p[k]
      BY <2>3, <2>4
    <3>3. w.prevs[k] \in 1 .. Len(u.nested[c]) /\ u.nested[c][w.prevs[k]] = p[k]
      <4>1. u.nested[c][w.prevs[k]] = p[k]
        BY <1>5, <3>2
      <4>2. \A i \in 1 .. Len(t.nested[c]) : i \in 1 .. Len(u.nested[c])
        BY <1>5, <3>1
      <4> QED
        BY <3>2, <4>1, <4>2
    <3> QED
      BY <2>2, <2>4, <3>3
  <2>5. CASE o # c
    BY <1>5, <2>2, <2>3, <2>5
  <2> QED
    BY <2>4, <2>5
<1>8. Len(w.prevs) = Len(p)
  BY DEF OnPath, p
<1> QED
  BY <1>2, <1>7, <1>8 DEF OnPath, u

(***************************************************************************)
(* The builder                                                             *)
(***************************************************************************)

\* The builder is behind all that is nested where it stands, and around it.
Stands(t, w) ==
  LET path == PathsIn(t.outer)[w.current]
  IN  /\ w.idx = Len(t.nested[w.current])
      /\ \A k \in 1 .. Len(path) : w.prevs[k] = Len(t.nested[t.outer[path[k]]])

LEMMA PushStands ==
  ASSUME NEW t \in Trees, IsTree(t), t.n < MaxScopes,
         NEW w, InTree(t, w), OnPath(t, w), Stands(t, w),
         CanEnter(Grown(t, w.current), w)
  PROVE  LET u == Grown(t, w.current)
             v == Enter(u, w)
         IN  v.current = t.n + 1 /\ OnPath(u, v) /\ Stands(u, v)
<1> DEFINE c == w.current
           u == Grown(t, c)
           v == Enter(u, w)
           p == PathsIn(t.outer)[c]
           q == PathsIn(u.outer)[v.current]
           l == Len(t.nested[c])
<1>1. w \in Walkers /\ c \in 1 .. t.n /\ c \in Nat /\ t.n \in Nat /\ c \in Scope /\ l \in Nat
  BY WalkerIs, TreeIs DEF InTree
<1>2. u \in Trees /\ IsTree(u) /\ InTree(u, w) /\ OnPath(u, w)
  BY <1>1, GrownHas, GrownIsTree, GrownInTree, GrownOnPath
<1>3. OnPath(u, v)
  BY <1>2, EnterOnPath
<1>4. w.idx = l /\ \A k \in 1 .. Len(p) : w.prevs[k] = Len(t.nested[t.outer[p[k]]])
  BY DEF Stands
<1>5. /\ \A s \in 1 .. t.n : u.outer[s] = t.outer[s]
      /\ u.outer[t.n + 1] = c
      /\ \A s \in Scope : s # c => u.nested[s] = t.nested[s]
      /\ Len(u.nested[c]) = l + 1
      /\ u.nested[c][l + 1] = t.n + 1
      /\ u.nested[t.n + 1] = << >>
      /\ t.n + 1 \in Scope
  BY SMTT(30), <1>1, GrownHas
<1>6. /\ v.current = u.nested[c][w.idx + 1]
      /\ v.idx = 0
      /\ \A k \in 1 .. Len(w.prevs) : v.prevs[k] = w.prevs[k]
      /\ v.prevs[Len(w.prevs) + 1] = w.idx + 1
      /\ q = Append(PathsIn(u.outer)[c], v.current)
  BY SMTT(30), <1>2, EnterIs
<1>7. PathsIn(u.outer)[c] = p
  BY <1>1, GrownPaths
<1>8. /\ p \in Seq(Scope) /\ Len(p) \in Nat /\ \A k \in 1 .. Len(p) : p[k] \in 2 .. c
      /\ Len(w.prevs) = Len(p)
  BY <1>1, PathIs DEF OnPath
<1>9. \A s \in 2 .. t.n : t.outer[s] \in 1 .. s - 1
  BY DEF IsTree
<1> HIDE DEF c, u, v, p, q, l
<1>10. v.current = t.n + 1
  BY <1>4, <1>5, <1>6
<1>11. Len(q) = Len(p) + 1 /\ q[Len(p) + 1] = t.n + 1 /\ \A k \in 1 .. Len(p) : q[k] = p[k]
  <2>1. q = Append(p, t.n + 1) /\ p \in Seq(Scope) /\ t.n + 1 \in Scope
    BY <1>5, <1>6, <1>7, <1>8, <1>10
  <2> QED
    BY <2>1, AppendProperties
<1>12. ASSUME NEW k \in 1 .. Len(q) PROVE v.prevs[k] = Len(u.nested[u.outer[q[k]]])
  <2>1. CASE k \in 1 .. Len(p)
    <3>1. q[k] = p[k] /\ p[k] \in 2 .. c /\ p[k] \in 2 .. t.n /\ p[k] \in 1 .. t.n
      BY <1>1, <1>8, <1>11, <2>1
    <3>2. u.outer[p[k]] = t.outer[p[k]] /\ t.outer[p[k]] \in 1 .. p[k] - 1
      BY <1>5, <1>9, <3>1
    <3>3. t.outer[p[k]] # c /\ t.outer[p[k]] \in 1 .. t.n
      BY <1>1, <3>1, <3>2
    <3>4. u.nested[t.outer[p[k]]] = t.nested[t.outer[p[k]]]
      BY <1>5, <3>3, TreeIs
    <3>5. v.prevs[k] = w.prevs[k] /\ w.prevs[k] = Len(t.nested[t.outer[p[k]]])
      BY <1>4, <1>6, <1>8, <2>1
    <3> QED
      BY <3>1, <3>2, <3>4, <3>5
  <2>2. CASE k = Len(p) + 1
    BY <1>4, <1>5, <1>6, <1>8, <1>11, <2>2
  <2> QED
    BY <1>8, <1>11, <2>1, <2>2
<1>13. v.idx = Len(u.nested[v.current])
  BY <1>5, <1>6, <1>10
<1>14. Stands(u, v)
  BY <1>12, <1>13 DEF Stands, q
<1> QED
  BY <1>3, <1>10, <1>14 DEF c, u, v

LEMMA PopStands ==
  ASSUME NEW t \in Trees, IsTree(t),
         NEW w, InTree(t, w), w.current # Global, OnPath(t, w), Stands(t, w)
  PROVE  Stands(t, Leave(t, w))
<1> DEFINE v == Leave(t, w)
           p == PathsIn(t.outer)[w.current]
           q == PathsIn(t.outer)[v.current]
<1>1. /\ v.current = t.outer[w.current] /\ v.current \in 1 .. w.current - 1
      /\ v.idx = w.prevs[Len(w.prevs)]
      /\ \A k \in 1 .. Len(w.prevs) - 1 : v.prevs[k] = w.prevs[k]
      /\ p = Append(q, w.current)
  BY LeaveIs
<1>2. Len(w.prevs) = Len(p) /\ \A k \in 1 .. Len(p) : w.prevs[k] = Len(t.nested[t.outer[p[k]]])
  BY DEF OnPath, Stands
<1>3. w.current \in Scope /\ q \in Seq(Scope) /\ Len(q) \in Nat
  <2>1. w.current \in Scope /\ w.current \in Nat /\ w.current <= t.n /\ t.n \in Nat
    BY WalkerIs, TreeIs DEF InTree
  <2>2. v.current \in 1 .. t.n
    <3> HIDE DEF v
    <3> QED
      BY <1>1, <2>1
  <2> QED
    BY <2>1, <2>2, PathIs
<1> HIDE DEF v, p, q
<1>4. Len(p) = Len(q) + 1 /\ p[Len(q) + 1] = w.current /\ \A k \in 1 .. Len(q) : q[k] = p[k]
  BY <1>1, <1>3, AppendProperties
<1>5. v.idx = Len(t.nested[v.current])
  BY <1>1, <1>2, <1>3, <1>4
<1>6. \A k \in 1 .. Len(q) : v.prevs[k] = Len(t.nested[t.outer[q[k]]])
  BY <1>1, <1>2, <1>3, <1>4
<1> QED
  BY <1>5, <1>6 DEF Stands, v, q

(***************************************************************************)
(* What the builder did, and the reader that does it again                 *)
(***************************************************************************)

\* Where the builder was after p visits, and the scopes it had been in.
At(vs, p) == IF p = 0 THEN Global ELSE vs[p]
Seen(vs, p) == {vs[q] : q \in 1 .. p}

\* Visit p entered the scope made then, or left one.
Step(t, vs, p) ==
  IF vs[p] > At(vs, p - 1)
  THEN /\ t.outer[vs[p]] = At(vs, p - 1)
       /\ \A x \in Seen(vs, p - 1) : x < vs[p]
       /\ 2 .. vs[p] - 1 \subseteq Seen(vs, p - 1)
  ELSE vs[p] = t.outer[At(vs, p - 1)]

Followed(t, vs) == \A p \in 1 .. Len(vs) : vs[p] <= t.n /\ Step(t, vs, p)

LEMMA SeenNext ==
  ASSUME NEW vs \in Seq(Scope), NEW p \in 0 .. Len(vs), p < Len(vs)
  PROVE  Seen(vs, p + 1) = Seen(vs, p) \cup {vs[p + 1]}
<1>1. \A q \in 1 .. p + 1 : q \in 1 .. p \/ q = p + 1
  OBVIOUS
<1>2. \A q \in 1 .. p : q \in 1 .. p + 1
  OBVIOUS
<1>3. p + 1 \in 1 .. p + 1
  OBVIOUS
<1> QED
  BY <1>1, <1>2, <1>3 DEF Seen

LEMMA AtIs ==
  ASSUME NEW t \in Trees, IsTree(t), NEW vs \in Seq(Scope), Followed(t, vs)
  PROVE  /\ Len(vs) \in Nat
         /\ \A p \in 0 .. Len(vs) : At(vs, p) \in 1 .. t.n
         /\ \A p \in 1 .. Len(vs) : vs[p] \in 1 .. t.n
         /\ \A p \in 0 .. Len(vs) : \A x \in Seen(vs, p) : x \in 1 .. t.n
<1>1. Len(vs) \in Nat /\ t.n \in Nat /\ t.n >= 1
  BY TreeIs, Scopes
<1>2. \A p \in 1 .. Len(vs) : vs[p] \in 1 .. t.n
  <2>1. \A p \in 1 .. Len(vs) : vs[p] \in Scope
    BY ElementOfSeq
  <2> QED
    BY <1>1, <2>1, Scopes DEF Followed
<1>3. ASSUME NEW p \in 0 .. Len(vs) PROVE At(vs, p) \in 1 .. t.n
  BY <1>1, <1>2 DEF At, Global
<1>4. ASSUME NEW p \in 0 .. Len(vs), NEW x \in Seen(vs, p) PROVE x \in 1 .. t.n
  <2>1. \A q \in 1 .. p : q \in 1 .. Len(vs)
    BY <1>1
  <2> QED
    BY <1>2, <2>1 DEF Seen
<1> QED
  BY <1>1, <1>2, <1>3, <1>4

LEMMA GrownFollowed ==
  ASSUME NEW t \in Trees, IsTree(t), NEW c \in 1 .. t.n, t.n < MaxScopes,
         NEW vs \in Seq(Scope), Followed(t, vs)
  PROVE  Followed(Grown(t, c), vs)
<1> DEFINE u == Grown(t, c)
<1>1. u.n = t.n + 1 /\ t.n \in Nat /\ \A s \in 1 .. t.n : u.outer[s] = t.outer[s]
  BY SMTT(30), GrownHas, TreeIs
<1> HIDE DEF u
<1>2. ASSUME NEW p \in 1 .. Len(vs) PROVE vs[p] <= u.n /\ Step(u, vs, p)
  <2>1. vs[p] \in 1 .. t.n /\ At(vs, p - 1) \in 1 .. t.n
    <3>1. p - 1 \in 0 .. Len(vs)
      BY AtIs
    <3> QED
      BY <3>1, AtIs
  <2>2. u.outer[vs[p]] = t.outer[vs[p]] /\ u.outer[At(vs, p - 1)] = t.outer[At(vs, p - 1)]
    BY <1>1, <2>1
  <2>3. vs[p] <= u.n
    BY <1>1, <2>1
  <2>4. Step(t, vs, p)
    BY DEF Followed
  <2> QED
    BY <2>2, <2>3, <2>4 DEF Step
<1> QED
  BY <1>2 DEF Followed, u

LEMMA MoreFollowed ==
  ASSUME NEW t \in Trees, IsTree(t), NEW vs \in Seq(Scope), Followed(t, vs),
         NEW x \in 1 .. t.n,
         LET b == At(vs, Len(vs))
         IN  IF x > b
             THEN /\ t.outer[x] = b
                  /\ \A y \in Seen(vs, Len(vs)) : y < x
                  /\ 2 .. x - 1 \subseteq Seen(vs, Len(vs))
             ELSE x = t.outer[b]
  PROVE  /\ Append(vs, x) \in Seq(Scope) /\ Len(Append(vs, x)) = Len(vs) + 1
         /\ At(Append(vs, x), Len(vs) + 1) = x
         /\ Seen(Append(vs, x), Len(vs) + 1) = Seen(vs, Len(vs)) \cup {x}
         /\ Followed(t, Append(vs, x))
<1> DEFINE ws == Append(vs, x)
           l == Len(vs)
<1>1. x \in Scope /\ l \in Nat
  BY TreeIs
<1>2. /\ ws \in Seq(Scope) /\ Len(ws) = l + 1 /\ ws[l + 1] = x
      /\ \A p \in 1 .. l : ws[p] = vs[p]
  BY <1>1, AppendProperties
<1> HIDE DEF ws, l
<1>3. \A p \in 0 .. l : At(ws, p) = At(vs, p)
  BY <1>1, <1>2 DEF At
<1>4. \A p \in 0 .. l : Seen(ws, p) = Seen(vs, p)
  <2> SUFFICES ASSUME NEW p \in 0 .. l PROVE Seen(ws, p) = Seen(vs, p)
    OBVIOUS
  <2>1. \A q \in 1 .. p : ws[q] = vs[q]
    BY <1>1, <1>2
  <2> QED
    BY <2>1 DEF Seen
<1>5. ASSUME NEW p \in 1 .. l + 1 PROVE ws[p] <= t.n /\ Step(t, ws, p)
  <2>1. CASE p \in 1 .. l
    <3>1. p - 1 \in 0 .. l /\ ws[p] = vs[p] /\ vs[p] <= t.n /\ Step(t, vs, p)
      BY <1>1, <1>2, <2>1 DEF Followed, l
    <3>2. At(ws, p - 1) = At(vs, p - 1) /\ Seen(ws, p - 1) = Seen(vs, p - 1)
      BY <1>3, <1>4, <3>1
    <3> QED
      BY <3>1, <3>2 DEF Step
  <2>2. CASE p = l + 1
    <3>1. p - 1 = l /\ l \in 0 .. l /\ ws[p] = x
      BY <1>1, <1>2, <2>2
    <3>2. At(ws, p - 1) = At(vs, l) /\ Seen(ws, p - 1) = Seen(vs, l)
      BY <1>3, <1>4, <3>1
    <3> QED
      BY <3>1, <3>2 DEF Step, l
  <2> QED
    BY <1>1, <2>1, <2>2
<1>6. Seen(ws, l + 1) = Seen(vs, l) \cup {x}
  <2>1. l \in 0 .. Len(ws) /\ l < Len(ws) /\ l \in 0 .. l
    BY <1>1, <1>2
  <2> QED
    BY <1>2, <1>4, <2>1, SeenNext
<1>7. At(ws, l + 1) = x
  BY <1>1, <1>2 DEF At
<1> QED
  BY <1>2, <1>5, <1>6, <1>7 DEF Followed, ws, l

\* After p visits a reader is where the builder was, and behind the scopes
\* the builder had been in.
Behind(t, vs, p, s, idx) ==
  \A i \in 1 .. Len(t.nested[s]) : i <= idx <=> t.nested[s][i] \in Seen(vs, p)

ReadAt(t, vs, w, p) ==
  /\ InTree(t, w) /\ OnPath(t, w)
  /\ w.current = At(vs, p)
  /\ w.idx <= Len(t.nested[w.current])
  /\ Behind(t, vs, p, w.current, w.idx)
  /\ \A k \in 1 .. Len(PathsIn(t.outer)[w.current]) :
       Behind(t, vs, p, t.outer[PathsIn(t.outer)[w.current][k]], w.prevs[k])

LEMMA ReadNone ==
  ASSUME NEW t \in Trees, IsTree(t), NEW vs
  PROVE  ReadAt(t, vs, NewWalker, 0)
<1>1. InTree(t, NewWalker) /\ OnPath(t, NewWalker)
  BY NewWalkerIs
<1>2. NewWalker.current = 1 /\ NewWalker.idx = 0 /\ At(vs, 0) = 1
  BY DEF NewWalker, At, Global
<1>3. PathsIn(t.outer)[1] = << >> /\ Len(PathsIn(t.outer)[1]) = 0
  BY PathOf
<1>4. Len(t.nested[1]) \in Nat
  BY TreeIs, Scopes
<1>5. Seen(vs, 0) = {}
  BY DEF Seen
<1>6. Behind(t, vs, 0, 1, 0)
  BY <1>4, <1>5 DEF Behind
<1> QED
  BY <1>1, <1>2, <1>3, <1>4, <1>6 DEF ReadAt

LEMMA ReadDown ==
  ASSUME NEW t \in Trees, IsTree(t), NEW vs \in Seq(Scope), Followed(t, vs),
         NEW p \in 0 .. Len(vs), p < Len(vs), vs[p + 1] > At(vs, p),
         NEW w, ReadAt(t, vs, w, p)
  PROVE  CanEnter(t, w) /\ ReadAt(t, vs, Enter(t, w), p + 1)
<1> DEFINE c == w.current
           x == vs[p + 1]
           v == Enter(t, w)
           l == Len(t.nested[c])
           pc == PathsIn(t.outer)[c]
           px == PathsIn(t.outer)[x]
<1>1. /\ p \in Nat /\ p + 1 \in 1 .. Len(vs) /\ (p + 1) - 1 = p /\ t.n \in Nat
      /\ c \in 1 .. t.n /\ c \in Nat /\ x \in 2 .. t.n /\ x \in 1 .. t.n /\ x > c
      /\ c = At(vs, p) /\ w \in Walkers /\ w.idx \in Nat /\ InTree(t, w) /\ OnPath(t, w)
      /\ x \in Nat
  <2>1. p \in Nat /\ p + 1 \in 1 .. Len(vs) /\ (p + 1) - 1 = p /\ t.n \in Nat
    BY AtIs, TreeIs
  <2>2. c = At(vs, p) /\ InTree(t, w) /\ OnPath(t, w)
    BY DEF ReadAt
  <2>3. c \in 1 .. t.n /\ x \in 1 .. t.n /\ x > c
    BY <2>1, <2>2, AtIs
  <2>4. w \in Walkers /\ w.idx \in Nat
    BY <2>2, WalkerIs DEF InTree
  <2> HIDE DEF c, x
  <2> QED
    BY <2>1, <2>2, <2>3, <2>4
<1>2. /\ t.outer[x] = c
      /\ \A y \in Seen(vs, p) : y < x
      /\ 2 .. x - 1 \subseteq Seen(vs, p)
  <2>1. Step(t, vs, p + 1)
    BY <1>1 DEF Followed
  <2> QED
    BY <1>1, <2>1 DEF Step
<1>3. /\ l \in Nat /\ w.idx <= l
      /\ \A i \in 1 .. l : t.nested[c][i] \in 2 .. t.n /\ t.outer[t.nested[c][i]] = c
      /\ \A i, j \in 1 .. l : i < j => t.nested[c][i] < t.nested[c][j]
      /\ \A i \in 1 .. l : i <= w.idx <=> t.nested[c][i] \in Seen(vs, p)
  BY <1>1, TreeIs DEF IsTree, ReadAt, Behind
<1> HIDE DEF c, x, v, pc, px
<1>4. PICK j \in 1 .. l : t.nested[c][j] = x
  <2>1. \E j \in 1 .. Len(t.nested[t.outer[x]]) : t.nested[t.outer[x]][j] = x
    BY <1>1 DEF IsTree
  <2> QED
    BY <1>2, <2>1
<1> HIDE DEF l
<1>5. j = w.idx + 1
  <2>1. ~ (j <= w.idx)
    <3>1. ~ (x < x)
      BY <1>1
    <3> QED
      BY <1>2, <1>3, <1>4, <3>1
  <2>2. CASE j = 1
    BY <1>1, <2>1, <2>2
  <2>3. CASE j # 1
    <3>1. j - 1 \in 1 .. l /\ j - 1 < j
      BY <1>3, <2>3
    <3>2. t.nested[c][j - 1] \in 2 .. x - 1
      <4>1. t.nested[c][j - 1] < x /\ t.nested[c][j - 1] \in 2 .. t.n
        BY <1>3, <1>4, <3>1
      <4> HIDE DEF x
      <4> QED
        BY <1>1, <4>1
    <3>3. j - 1 <= w.idx
      BY <1>2, <1>3, <3>1, <3>2
    <3> QED
      BY <1>1, <1>3, <2>1, <3>3
  <2> QED
    BY <2>2, <2>3
<1>6. CanEnter(t, w)
  <2>1. w.idx < l
    BY <1>1, <1>3, <1>5
  <2> QED
    BY <2>1 DEF CanEnter, l, c
<1>7. /\ v.current = x /\ v.idx = 0
      /\ \A k \in 1 .. Len(w.prevs) : v.prevs[k] = w.prevs[k]
      /\ v.prevs[Len(w.prevs) + 1] = j
      /\ px = Append(pc, x)
      /\ InTree(t, v) /\ OnPath(t, v)
  <2>1. /\ v.current = t.nested[c][w.idx + 1] /\ v.idx = 0
        /\ \A k \in 1 .. Len(w.prevs) : v.prevs[k] = w.prevs[k]
        /\ v.prevs[Len(w.prevs) + 1] = w.idx + 1
        /\ PathsIn(t.outer)[v.current] = Append(pc, v.current)
        /\ InTree(t, v)
    BY <1>1, <1>6, EnterIs DEF v, c, pc
  <2>2. OnPath(t, v)
    BY <1>1, <1>6, EnterOnPath DEF v
  <2> QED
    BY <1>4, <1>5, <2>1, <2>2 DEF px
<1>8. Seen(vs, p + 1) = Seen(vs, p) \cup {x}
  BY SeenNext DEF x
<1>9. \A s \in 2 .. t.n : t.outer[s] \in 1 .. s - 1
  BY DEF IsTree
<1>10. Behind(t, vs, p + 1, x, 0)
  <2> SUFFICES ASSUME NEW i \in 1 .. Len(t.nested[x])
               PROVE  ~ (i <= 0) /\ t.nested[x][i] \notin Seen(vs, p + 1)
    BY DEF Behind
  <2> DEFINE y == t.nested[x][i]
  <2>1. y \in 2 .. t.n /\ t.outer[y] = x
    BY <1>1 DEF IsTree
  <2> HIDE DEF y
  <2>2. y > x
    BY <1>1, <1>9, <2>1
  <2>3. y \notin Seen(vs, p)
    BY <1>1, <1>2, <2>1, <2>2
  <2> QED
    BY <1>1, <1>8, <2>2, <2>3 DEF y
<1>11. /\ pc \in Seq(Scope) /\ Len(pc) \in Nat /\ Len(w.prevs) = Len(pc)
       /\ \A k \in 1 .. Len(pc) : pc[k] \in 2 .. c
       /\ \A k \in 1 .. Len(pc) : Behind(t, vs, p, t.outer[pc[k]], w.prevs[k])
  BY <1>1, PathIs DEF OnPath, ReadAt, pc, c
<1>12. Len(px) = Len(pc) + 1 /\ px[Len(pc) + 1] = x /\ \A k \in 1 .. Len(pc) : px[k] = pc[k]
  <2>1. pc \in Seq(Scope) /\ x \in Scope /\ px = Append(pc, x)
    BY <1>1, <1>7, <1>11, TreeIs
  <2> QED
    BY <2>1, AppendProperties
<1>13. ASSUME NEW k \in 1 .. Len(px) PROVE Behind(t, vs, p + 1, t.outer[px[k]], v.prevs[k])
  <2>1. CASE k \in 1 .. Len(pc)
    <3> DEFINE o == t.outer[pc[k]]
    <3>1. pc[k] \in 2 .. c /\ px[k] = pc[k] /\ v.prevs[k] = w.prevs[k]
      BY <1>7, <1>11, <1>12, <2>1
    <3>2. o \in 1 .. t.n /\ o # c
      <4>1. \A s \in 2 .. c : s \in 2 .. t.n
        BY <1>1
      <4>2. \A s \in 2 .. c : \A d \in 1 .. s - 1 : d \in 1 .. t.n /\ d # c
        BY <1>1
      <4> QED
        BY <1>9, <3>1, <4>1, <4>2
    <3>3. \A i \in 1 .. Len(t.nested[o]) : t.nested[o][i] # x
      BY SMTT(30), <1>2, <3>2 DEF IsTree
    <3>4. Behind(t, vs, p, o, w.prevs[k])
      BY <1>11, <2>1
    <3> QED
      BY <1>8, <3>1, <3>3, <3>4 DEF Behind
  <2>2. CASE k = Len(pc) + 1
    <3>1. px[k] = x /\ t.outer[px[k]] = c /\ v.prevs[k] = j
      BY <1>2, <1>7, <1>11, <1>12, <2>2
    <3>2. ASSUME NEW i \in 1 .. l PROVE i <= j <=> t.nested[c][i] \in Seen(vs, p + 1)
      <4>1. CASE i < j
        BY SMTT(30), <1>1, <1>3, <1>5, <1>8, <4>1
      <4>2. CASE i = j
        BY <1>4, <1>8, <4>2
      <4>3. CASE i > j
        <5>1. t.nested[c][i] > x /\ ~ (i <= w.idx)
          BY SMTT(30), <1>1, <1>3, <1>4, <1>5, <4>3
        <5>2. t.nested[c][i] # x /\ t.nested[c][i] \notin Seen(vs, p)
          BY SMTT(30), <1>1, <1>3, <5>1
        <5> QED
          BY <1>3, <1>8, <4>3, <5>2
      <4> QED
        BY <1>3, <4>1, <4>2, <4>3
    <3> QED
      BY <3>1, <3>2 DEF Behind, l
  <2> QED
    BY <1>11, <1>12, <2>1, <2>2
<1>14. v.current = At(vs, p + 1)
  BY <1>1, <1>7 DEF At, x
<1>15. v.idx <= Len(t.nested[v.current])
  BY <1>1, <1>7, TreeIs
<1> QED
  BY <1>6, <1>7, <1>10, <1>13, <1>14, <1>15 DEF ReadAt, v, px

LEMMA ReadUp ==
  ASSUME NEW t \in Trees, IsTree(t), NEW vs \in Seq(Scope), Followed(t, vs),
         NEW p \in 0 .. Len(vs), p < Len(vs), ~ (vs[p + 1] > At(vs, p)),
         NEW w, ReadAt(t, vs, w, p)
  PROVE  p # 0 /\ w.current # Global /\ ReadAt(t, vs, Leave(t, w), p + 1)
<1> DEFINE c == w.current
           x == vs[p + 1]
           v == Leave(t, w)
           pc == PathsIn(t.outer)[c]
           px == PathsIn(t.outer)[x]
<1>1. /\ p \in Nat /\ p + 1 \in 1 .. Len(vs) /\ (p + 1) - 1 = p /\ t.n \in Nat
      /\ c \in 1 .. t.n /\ c \in Nat /\ x \in 1 .. t.n
      /\ c = At(vs, p) /\ InTree(t, w) /\ OnPath(t, w)
  <2>1. p \in Nat /\ p + 1 \in 1 .. Len(vs) /\ (p + 1) - 1 = p /\ t.n \in Nat
    BY AtIs, TreeIs
  <2>2. c = At(vs, p) /\ InTree(t, w) /\ OnPath(t, w)
    BY DEF ReadAt
  <2>3. c \in 1 .. t.n /\ x \in 1 .. t.n
    BY <2>1, <2>2, AtIs
  <2> HIDE DEF c, x
  <2> QED
    BY <2>1, <2>2, <2>3
<1>2. x = t.outer[c]
  <2>1. Step(t, vs, p + 1)
    BY <1>1 DEF Followed
  <2> QED
    BY <1>1, <2>1 DEF Step
<1>3. c # Global
  BY <1>1, <1>2, TreeIs DEF Global
<1>4. p # 0
  BY <1>1, <1>3 DEF At
<1>5. /\ v.current = x
      /\ v.idx = w.prevs[Len(w.prevs)]
      /\ \A k \in 1 .. Len(w.prevs) - 1 : v.prevs[k] = w.prevs[k]
      /\ pc = Append(px, c)
      /\ InTree(t, v) /\ OnPath(t, v)
  <2>1. /\ v.current = t.outer[c] /\ v.idx = w.prevs[Len(w.prevs)]
        /\ \A k \in 1 .. Len(w.prevs) - 1 : v.prevs[k] = w.prevs[k]
        /\ pc = Append(PathsIn(t.outer)[v.current], c)
        /\ InTree(t, v)
    BY <1>1, <1>3, LeaveIs
  <2>2. OnPath(t, v)
    BY <1>1, <1>3, LeaveOnPath
  <2> HIDE DEF v, c, x
  <2> QED
    BY <1>2, <2>1, <2>2
<1> HIDE DEF c, x, v, pc, px
<1>6. px \in Seq(Scope) /\ Len(px) \in Nat /\ c \in Scope
  BY <1>1, PathIs, TreeIs DEF px
<1>7. Len(pc) = Len(px) + 1 /\ pc[Len(px) + 1] = c /\ \A k \in 1 .. Len(px) : px[k] = pc[k]
  BY <1>5, <1>6, AppendProperties
<1>8. /\ Len(w.prevs) = Len(pc)
      /\ \A k \in 1 .. Len(pc) :
           /\ w.prevs[k] \in 1 .. Len(t.nested[t.outer[pc[k]]])
           /\ t.nested[t.outer[pc[k]]][w.prevs[k]] = pc[k]
  BY <1>1 DEF OnPath, pc, c
<1>9. \A k \in 1 .. Len(pc) : Behind(t, vs, p, t.outer[pc[k]], w.prevs[k])
  BY DEF ReadAt, pc, c
<1>10. ASSUME NEW k \in 1 .. Len(pc) PROVE pc[k] \in Seen(vs, p)
  <2> DEFINE o == t.outer[pc[k]]
             i == w.prevs[k]
  <2>1. Behind(t, vs, p, o, i) /\ i \in 1 .. Len(t.nested[o]) /\ t.nested[o][i] = pc[k]
    BY <1>8, <1>9
  <2> HIDE DEF o, i
  <2>2. i <= i
    BY <2>1
  <2> QED
    BY <2>1, <2>2 DEF Behind
<1>11. x = 1 \/ x \in Seen(vs, p)
  <2>1. CASE x # 1
    <3>1. x \in 2 .. t.n /\ px = Append(PathsIn(t.outer)[t.outer[x]], x)
      <4>1. x \in 2 .. t.n
        BY <1>1, <2>1
      <4> QED
        BY <4>1, PathOf DEF px
    <3>2. PathsIn(t.outer)[t.outer[x]] \in Seq(Scope) /\ x \in Scope
      <4>1. t.outer[x] \in 1 .. x - 1
        BY <3>1 DEF IsTree
      <4>2. t.outer[x] \in 1 .. t.n
        BY <1>1, <3>1, <4>1
      <4> QED
        BY <1>1, <4>2, PathIs, TreeIs
    <3>3. px[Len(px)] = x /\ Len(px) \in 1 .. Len(px)
      BY <3>1, <3>2, AppendProperties
    <3>4. Len(px) \in 1 .. Len(pc) /\ pc[Len(px)] = x
      BY <1>6, <1>7, <3>3
    <3> QED
      BY <1>10, <3>4
  <2> QED
    BY <2>1
<1>12. Seen(vs, p + 1) = Seen(vs, p) \cup {x}
  BY SeenNext DEF x
<1>13. ASSUME NEW s \in 1 .. t.n, NEW idx, Behind(t, vs, p, s, idx)
       PROVE  Behind(t, vs, p + 1, s, idx)
  <2>1. \A i \in 1 .. Len(t.nested[s]) : t.nested[s][i] # 1
    BY DEF IsTree
  <2>2. \A i \in 1 .. Len(t.nested[s]) :
          t.nested[s][i] \in Seen(vs, p + 1) <=> t.nested[s][i] \in Seen(vs, p)
    BY <1>11, <1>12, <2>1
  <2> QED
    BY <1>13, <2>2 DEF Behind
<1>14. ASSUME NEW k \in 1 .. Len(pc) PROVE t.outer[pc[k]] \in 1 .. t.n
  <2>1. \A s \in 2 .. t.n : t.outer[s] \in 1 .. s - 1
    BY DEF IsTree
  <2>2. \A s \in 2 .. c : s \in 2 .. t.n
    BY <1>1
  <2>3. \A s \in 2 .. c : \A d \in 1 .. s - 1 : d \in 1 .. t.n
    BY <1>1
  <2>4. pc[k] \in 2 .. c
    BY <1>1, PathIs DEF pc
  <2> QED
    BY <2>1, <2>2, <2>3, <2>4
<1>15. v.idx <= Len(t.nested[x]) /\ Behind(t, vs, p + 1, x, v.idx)
  <2> DEFINE l == Len(px) + 1
  <2>1. l \in 1 .. Len(pc) /\ pc[l] = c /\ l = Len(pc)
    BY <1>6, <1>7
  <2> HIDE DEF l
  <2>2. v.idx = w.prevs[l]
    BY <1>5, <1>8, <2>1
  <2>3. v.idx \in 1 .. Len(t.nested[x]) /\ Behind(t, vs, p, x, v.idx)
    BY <1>2, <1>8, <1>9, <2>1, <2>2
  <2>4. Len(t.nested[x]) \in Nat
    BY <1>1, TreeIs
  <2> QED
    BY <1>1, <1>13, <2>3, <2>4
<1>16. ASSUME NEW k \in 1 .. Len(px) PROVE Behind(t, vs, p + 1, t.outer[px[k]], v.prevs[k])
  <2>1. k \in 1 .. Len(pc) /\ px[k] = pc[k] /\ k \in 1 .. Len(w.prevs) - 1
    BY <1>6, <1>7, <1>8
  <2>2. v.prevs[k] = w.prevs[k]
    BY <1>5, <2>1
  <2> QED
    BY <1>9, <1>13, <1>14, <2>1, <2>2
<1>17. v.current = At(vs, p + 1)
  BY <1>1, <1>5 DEF At, x
<1> QED
  BY <1>3, <1>4, <1>5, <1>15, <1>16, <1>17 DEF ReadAt, v, c, px

(***************************************************************************)
(* The scopes: the inductive invariant                                     *)
(***************************************************************************)

\* The visits noted are all there were.
Noted(t, w, vs) ==
  /\ Followed(t, vs)
  /\ At(vs, Len(vs)) = w.current
  /\ 2 .. t.n \subseteq Seen(vs, Len(vs))

ScopeInv ==
  /\ bound \in Bounds /\ resets \in Nat /\ pos \in Nat /\ visits \in Seq(Scope)
  /\ tree \in Trees /\ IsTree(tree)
  /\ InTree(tree, walker)
  /\ resets = 0 => OnPath(tree, walker) /\ Stands(tree, walker)
  /\ ~bound.replays => visits = << >>
  /\ resets = 0 /\ bound.replays => Noted(tree, walker, visits)
  /\ pos <= Len(visits)
  /\ pos = 0 => reader = NewWalker
  /\ pos > 0 => resets = 0 /\ bound.replays
  /\ ReadAt(tree, visits, reader, pos)

LEMMA BoundIs ==
  ASSUME NEW b \in Bounds
  PROVE  /\ b.scopes \in 1 .. MaxScopes /\ b.syms \in 0 .. MaxSyms
         /\ b.replays \in BOOLEAN
  BY SymbolTableAssumption

\* Nothing is built once there is a reader.
LEMMA BuildingKept ==
  ASSUME Building, pos' = pos, reader' = reader, ScopeInv,
         bound' = bound, resets' \in Nat, visits' \in Seq(Scope),
         tree' \in Trees, IsTree(tree'), InTree(tree', walker'),
         resets' = 0 => OnPath(tree', walker') /\ Stands(tree', walker'),
         ~bound.replays => visits' = << >>,
         resets' = 0 /\ bound.replays => Noted(tree', walker', visits')
  PROVE  ScopeInv'
<1>1. pos' = 0 /\ reader' = NewWalker
  BY DEF Building, ScopeInv
<1>2. ReadAt(tree', visits', reader', pos')
  BY <1>1, ReadNone
<1>3. pos' <= Len(visits')
  BY <1>1
<1> QED
  BY <1>1, <1>2, <1>3 DEF ScopeInv

LEMMA PushScopes ==
  ASSUME ScopeInv, PushScope
  PROVE  ScopeInv'
<1> DEFINE c == walker.current
           u == Grown(tree, c)
<1>1. /\ Building /\ tree.n < bound.scopes /\ CanEnter(u, walker)
      /\ tree' = u /\ walker' = Enter(tree', walker)
      /\ visits' = IF bound.replays THEN Append(visits, walker'.current) ELSE visits
      /\ bound' = bound /\ resets' = resets /\ reader' = reader /\ pos' = pos
  BY DEF PushScope, Record, Grown
<1>2. /\ tree \in Trees /\ IsTree(tree) /\ InTree(tree, walker) /\ tree.n \in Nat
      /\ walker \in Walkers /\ c \in 1 .. tree.n /\ tree.n < MaxScopes
  <2>1. tree \in Trees /\ IsTree(tree) /\ InTree(tree, walker)
    BY DEF ScopeInv
  <2>2. tree.n \in Nat /\ bound.scopes \in 1 .. MaxScopes
    BY <2>1, TreeIs, BoundIs DEF ScopeInv
  <2>3. walker \in Walkers /\ c \in 1 .. tree.n
    BY <2>1, <2>2, WalkerIs DEF InTree
  <2>4. tree.n < MaxScopes
    BY <1>1, <2>2, Scopes
  <2> QED
    BY <2>1, <2>2, <2>3, <2>4
<1>3. u \in Trees /\ IsTree(u) /\ u.n = tree.n + 1 /\ u.outer[tree.n + 1] = c /\ InTree(u, walker)
  BY <1>2, GrownHas, GrownIsTree, GrownInTree
<1>4. InTree(u, walker') /\ walker'.current \in 2 .. u.n
  BY <1>1, <1>3, EnterIs
<1>5. resets = 0 => /\ walker'.current = tree.n + 1
                    /\ OnPath(u, walker') /\ Stands(u, walker')
  BY <1>1, <1>2, PushStands DEF ScopeInv
<1>6. walker'.current \in Scope /\ visits \in Seq(Scope) /\ visits' \in Seq(Scope)
  <2>1. \A s \in 2 .. u.n : s \in 1 .. u.n
    OBVIOUS
  <2>2. walker'.current \in Scope
    BY <1>3, <1>4, <2>1, TreeIs
  <2> QED
    BY <1>1, <2>2 DEF ScopeInv
<1>7. ~bound.replays => visits' = << >>
  BY <1>1 DEF ScopeInv
<1>8. ASSUME resets = 0, bound.replays PROVE Noted(u, walker', visits')
  <2> DEFINE x == tree.n + 1
  <2>1. /\ Followed(tree, visits) /\ At(visits, Len(visits)) = c
        /\ 2 .. tree.n \subseteq Seen(visits, Len(visits))
    BY <1>8 DEF ScopeInv, Noted
  <2>2. Followed(u, visits)
    BY <1>2, <1>6, <2>1, GrownFollowed
  <2>3. walker'.current = x /\ visits' = Append(visits, x)
    BY <1>1, <1>5, <1>8
  <2>4. x \in 1 .. u.n /\ x > c /\ x - 1 = tree.n /\ u.outer[x] = c /\ u.n = x
    BY <1>2, <1>3
  <2>5. \A y \in Seen(visits, Len(visits)) : y < x
    <3>1. Len(visits) \in 0 .. Len(visits)
      BY <1>6
    <3>2. \A y \in Seen(visits, Len(visits)) : y \in 1 .. tree.n
      BY <1>2, <1>6, <2>1, <3>1, AtIs
    <3> QED
      BY <1>2, <3>2
  <2> HIDE DEF x, u, c
  <2>6. /\ Len(Append(visits, x)) = Len(visits) + 1
        /\ At(Append(visits, x), Len(visits) + 1) = x
        /\ Seen(Append(visits, x), Len(visits) + 1) = Seen(visits, Len(visits)) \cup {x}
        /\ Followed(u, Append(visits, x))
    BY <1>3, <1>6, <2>1, <2>2, <2>4, <2>5, MoreFollowed
  <2>7. \A s \in 2 .. x : s \in 2 .. tree.n \/ s = x
    BY <1>2, <2>4
  <2> QED
    BY <2>1, <2>3, <2>4, <2>6, <2>7 DEF Noted
<1> QED
  BY <1>1, <1>3, <1>4, <1>5, <1>6, <1>7, <1>8, BuildingKept DEF ScopeInv

LEMMA PopScopes ==
  ASSUME ScopeInv, PopScope
  PROVE  ScopeInv'
<1> DEFINE c == walker.current
<1>1. /\ Building /\ c # Global
      /\ tree' = tree /\ walker' = Leave(tree, walker)
      /\ visits' = IF bound.replays THEN Append(visits, walker'.current) ELSE visits
      /\ bound' = bound /\ resets' = resets /\ reader' = reader /\ pos' = pos
  BY DEF PopScope, Record
<1>2. /\ tree \in Trees /\ IsTree(tree) /\ InTree(tree, walker) /\ visits \in Seq(Scope)
      /\ tree.n \in Nat /\ c \in 1 .. tree.n
  BY TreeIs, WalkerIs DEF ScopeInv, InTree
<1>3. /\ walker'.current = tree.outer[c] /\ walker'.current \in 1 .. c - 1
      /\ InTree(tree, walker')
  BY <1>1, <1>2, LeaveIs
<1>4. walker'.current \in 1 .. tree.n /\ ~ (walker'.current > c)
  <2> HIDE DEF c
  <2> QED
    BY <1>2, <1>3
<1>5. walker'.current \in Scope /\ visits' \in Seq(Scope)
  BY <1>1, <1>2, <1>4, TreeIs
<1>6. resets = 0 => OnPath(tree, walker') /\ Stands(tree, walker')
  BY <1>1, <1>2, LeaveOnPath, PopStands DEF ScopeInv
<1>7. ~bound.replays => visits' = << >>
  BY <1>1 DEF ScopeInv
<1>8. ASSUME resets = 0, bound.replays PROVE Noted(tree, walker', visits')
  <2> DEFINE x == walker'.current
  <2>1. /\ Followed(tree, visits) /\ At(visits, Len(visits)) = c
        /\ 2 .. tree.n \subseteq Seen(visits, Len(visits))
    BY <1>8 DEF ScopeInv, Noted
  <2>2. visits' = Append(visits, x) /\ x = tree.outer[c] /\ x \in 1 .. tree.n /\ ~ (x > c)
    BY <1>1, <1>3, <1>4, <1>8
  <2> HIDE DEF x, c
  <2>3. /\ Len(Append(visits, x)) = Len(visits) + 1
        /\ At(Append(visits, x), Len(visits) + 1) = x
        /\ Seen(Append(visits, x), Len(visits) + 1) = Seen(visits, Len(visits)) \cup {x}
        /\ Followed(tree, Append(visits, x))
    BY <1>2, <2>1, <2>2, MoreFollowed
  <2> QED
    BY <2>1, <2>2, <2>3 DEF Noted, x
<1> QED
  BY <1>1, <1>2, <1>3, <1>5, <1>6, <1>7, <1>8, BuildingKept DEF ScopeInv

LEMMA ResetScopes ==
  ASSUME ScopeInv, Reset
  PROVE  ScopeInv'
<1>1. /\ Building /\ tree' = tree /\ walker' = [walker EXCEPT !.current = Global]
      /\ visits' = << >> /\ resets' = resets + 1
      /\ bound' = bound /\ reader' = reader /\ pos' = pos
  BY DEF Reset, Rewind
<1>2. tree \in Trees /\ IsTree(tree) /\ walker \in Walkers /\ resets \in Nat
  BY DEF ScopeInv, InTree
<1>3. walker' \in Walkers /\ walker'.current = 1 /\ walker'.prevs = walker.prevs
  BY <1>1, <1>2, Scopes DEF Walkers, Global
<1>4. InTree(tree, walker')
  <2>1. PathsIn(tree.outer)[1] = << >> /\ Len(walker.prevs) \in Nat /\ tree.n \in Scope
    BY <1>2, PathOf, WalkerIs, TreeIs
  <2> QED
    BY <1>3, <2>1, Scopes DEF InTree
<1>5. resets' \in Nat /\ resets' # 0
  BY <1>1, <1>2
<1>6. visits' \in Seq(Scope)
  BY <1>1, EmptySeq
<1> QED
  BY <1>1, <1>2, <1>4, <1>5, <1>6, BuildingKept

\* What is said of scopes and walkers does not depend on functions.
LEMMA AssocScopes ==
  ASSUME ScopeInv, NEW s \in Scope, NEW f \in Sym, SetAssoc(s, f)
  PROVE  ScopeInv'
<1>1. /\ Building /\ s \in 2 .. tree.n /\ tree' = [tree EXCEPT !.assoc[s] = f]
      /\ walker' = walker /\ visits' = visits /\ resets' = resets
      /\ bound' = bound /\ reader' = reader /\ pos' = pos
  BY DEF SetAssoc
<1>2. tree \in Trees /\ IsTree(tree) /\ InTree(tree, walker) /\ tree.n \in Nat
  BY TreeIs DEF ScopeInv
<1>3. /\ tree'.n = tree.n /\ tree'.outer = tree.outer /\ tree'.nested = tree.nested
      /\ tree'.assoc = [tree.assoc EXCEPT ![s] = f]
      /\ tree.assoc \in [Scope -> Sym \cup {None}]
  BY <1>1, <1>2 DEF Trees
<1>4. tree' \in Trees
  <2>1. [tree.assoc EXCEPT ![s] = f] \in [Scope -> Sym \cup {None}]
    BY <1>3
  <2> QED
    BY <1>1, <1>2, <2>1 DEF Trees
<1>5. IsTree(tree')
  <2>1. \A k \in Scope : k > tree.n => tree'.assoc[k] = tree.assoc[k]
    <3>1. \A k \in Scope : k > tree.n => k # s
      BY <1>1, <1>2
    <3> QED
      BY <1>3, <3>1
  <2> QED
    BY <1>2, <1>3, <2>1 DEF IsTree
<1>6. InTree(tree', walker)
  BY <1>2, <1>3 DEF InTree
<1>7. resets = 0 => OnPath(tree', walker) /\ Stands(tree', walker)
  <2>1. resets = 0 => OnPath(tree, walker) /\ Stands(tree, walker)
    BY DEF ScopeInv
  <2>2. OnPath(tree', walker) <=> OnPath(tree, walker)
    BY <1>3 DEF OnPath
  <2>3. Stands(tree', walker) <=> Stands(tree, walker)
    BY <1>3 DEF Stands
  <2> QED
    BY <2>1, <2>2, <2>3
<1>8. resets = 0 /\ bound.replays => Noted(tree', walker, visits)
  BY <1>3 DEF ScopeInv, Noted, Followed, Step
<1> QED
  BY <1>1, <1>4, <1>5, <1>6, <1>7, <1>8, BuildingKept DEF ScopeInv

LEMMA ReplayScopes ==
  ASSUME ScopeInv, Replay
  PROVE  ScopeInv'
<1>1. /\ resets = 0 /\ pos < Len(visits) /\ pos' = pos + 1
      /\ UNCHANGED building
      /\ IF pos = 0 \/ visits[pos + 1] > visits[pos]
         THEN reader' = Enter(tree, reader)
         ELSE reader' = Leave(tree, reader)
  BY DEF Replay
<1>2. /\ tree \in Trees /\ IsTree(tree) /\ visits \in Seq(Scope) /\ Len(visits) \in Nat
      /\ pos \in Nat /\ pos \in 0 .. Len(visits) /\ bound \in Bounds
      /\ ReadAt(tree, visits, reader, pos)
  BY <1>1 DEF ScopeInv
<1>3. bound.replays
  <2>1. visits # << >>
    BY <1>1, <1>2
  <2> QED
    BY <1>2, <2>1 DEF ScopeInv
<1>4. Followed(tree, visits)
  BY <1>1, <1>3 DEF ScopeInv, Noted
<1>5. ReadAt(tree, visits, reader', pos + 1)
  <2>1. CASE visits[pos + 1] > At(visits, pos)
    <3>1. ReadAt(tree, visits, Enter(tree, reader), pos + 1)
      BY <1>1, <1>2, <1>4, <2>1, ReadDown
    <3>2. pos = 0 \/ visits[pos + 1] > visits[pos]
      BY <2>1 DEF At
    <3> QED
      BY <1>1, <3>1, <3>2
  <2>2. CASE ~ (visits[pos + 1] > At(visits, pos))
    <3>1. pos # 0 /\ ReadAt(tree, visits, Leave(tree, reader), pos + 1)
      BY <1>1, <1>2, <1>4, <2>2, ReadUp
    <3>2. ~ (pos = 0 \/ visits[pos + 1] > visits[pos])
      BY <2>2, <3>1 DEF At
    <3> QED
      BY <1>1, <3>1, <3>2
  <2> QED
    BY <2>1, <2>2
<1>6. pos' \in Nat /\ pos' <= Len(visits) /\ pos' # 0
  BY <1>1, <1>2
<1> QED
  BY <1>1, <1>2, <1>3, <1>5, <1>6 DEF ScopeInv, building

(***************************************************************************)
(* The names                                                               *)
(***************************************************************************)

NameMaps == [phys : Maps, implicits : Maps, types : Maps, labels : Maps,
             shadowed : [Scope -> SUBSET Sym]]

Entry == [kind : Kinds, name : Names, scope : Scope, implicit : BOOLEAN, defs : 0 .. 1,
          sig : Signatures \cup {None}, link : Linkages]

Physicals == {"var", "func", "alias"}

\* The symbols each map may hold.
PhysEntries == {e \in Entry : e.kind \in Physicals /\ e.implicit = FALSE}
ImplicitEntries == {e \in Entry : e.kind = "var" /\ e.implicit = TRUE}
TypeEntries == {e \in Entry : e.kind = "type"}
LabelEntries == {e \in Entry : e.kind = "label"}

\* What a map holds under a name of a scope is a symbol that says so.
FiledIn(map, hidden, sy, entries) ==
  \A s \in Scope, x \in Names :
    map[s][x] # None =>
      /\ map[s][x] \in 1 .. Len(sy)
      /\ sy[map[s][x]] \in entries
      /\ sy[map[s][x]].name = x /\ sy[map[s][x]].scope = s
      /\ map[s][x] \notin hidden[s]

\* The symbol the maps hold in the place of e.
Held(nm, e) ==
  IF e.kind = "type" THEN nm.types[e.scope][e.name]
  ELSE IF e.kind = "label" THEN nm.labels[e.scope][e.name]
  ELSE IF e.implicit THEN nm.implicits[e.scope][e.name]
  ELSE nm.phys[e.scope][e.name]

NamesOK(nm, sy) ==
  /\ nm \in NameMaps /\ sy \in Seq(Entry) /\ Len(sy) <= MaxSyms
  /\ FiledIn(nm.phys, nm.shadowed, sy, PhysEntries)
  /\ FiledIn(nm.implicits, nm.shadowed, sy, ImplicitEntries)
  /\ FiledIn(nm.types, nm.shadowed, sy, TypeEntries)
  /\ FiledIn(nm.labels, nm.shadowed, sy, LabelEntries)
  /\ \A s \in Scope : nm.shadowed[s] \subseteq 1 .. Len(sy)
  /\ \A i \in 1 .. Len(sy) : sy[i].implicit => sy[i].kind = "var"
  /\ \A i \in 1 .. Len(sy) : i \in nm.shadowed[sy[i].scope] \/ Held(nm, sy[i]) = i

LEMMA EntryIs ==
  ASSUME NEW e \in Entry
  PROVE  /\ e.kind \in Kinds /\ e.name \in Names /\ e.scope \in Scope
         /\ e.implicit \in BOOLEAN /\ e.defs \in 0 .. 1
  BY DEF Entry

LEMMA EntriesAre ==
  ASSUME NEW sy \in Seq(Entry)
  PROVE  /\ Len(sy) \in Nat
         /\ \A i \in 1 .. Len(sy) :
              /\ sy[i] \in Entry /\ sy[i].kind \in Kinds /\ sy[i].name \in Names
              /\ sy[i].scope \in Scope /\ sy[i].implicit \in BOOLEAN /\ sy[i].defs \in 0 .. 1
<1>1. Len(sy) \in Nat /\ \A i \in 1 .. Len(sy) : sy[i] \in Entry
  BY LenProperties, ElementOfSeq
<1> QED
  BY <1>1, EntryIs

Put(map, s, x, i) == [map EXCEPT ![s][x] = i]

LEMMA MapIs ==
  ASSUME NEW map \in Maps, NEW s \in Scope, NEW x \in Names, NEW i \in Sym
  PROVE  /\ Put(map, s, x, i) \in Maps
         /\ Put(map, s, x, i)[s][x] = i
         /\ \A r \in Scope, y \in Names :
              r # s \/ y # x => Put(map, s, x, i)[r][y] = map[r][y]
         /\ map[s][x] \in Sym \cup {None}
  BY DEF Maps, Put

\* A map that does not get the new symbol.
LEMMA FiledKept ==
  ASSUME NEW map, NEW hidden, NEW hidden2, NEW entries,
         NEW sy \in Seq(Entry), NEW e \in Entry,
         FiledIn(map, hidden, sy, entries),
         \A s \in Scope, x \in Names : map[s][x] # None => map[s][x] \notin hidden2[s]
  PROVE  FiledIn(map, hidden2, Append(sy, e), entries)
<1> DEFINE sz == Append(sy, e)
<1>1. Len(sy) \in Nat /\ Len(sz) = Len(sy) + 1 /\ \A i \in 1 .. Len(sy) : sz[i] = sy[i]
  BY AppendProperties
<1> HIDE DEF sz
<1>2. \A i \in 1 .. Len(sy) : i \in 1 .. Len(sz)
  BY <1>1
<1>3. FiledIn(map, hidden2, sz, entries)
  BY <1>1, <1>2 DEF FiledIn
<1> QED
  BY <1>3 DEF sz

\* The one that does.
LEMMA FiledNew ==
  ASSUME NEW map \in Maps, NEW hidden, NEW hidden2, NEW entries,
         NEW sy \in Seq(Entry), NEW e \in Entry, NEW s \in Scope, NEW x \in Names,
         Len(sy) + 1 \in Sym,
         FiledIn(map, hidden, sy, entries),
         e \in entries, e.name = x, e.scope = s,
         Len(sy) + 1 \notin hidden2[s],
         \A r \in Scope, y \in Names :
           (r # s \/ y # x) /\ map[r][y] # None => map[r][y] \notin hidden2[r]
  PROVE  FiledIn(Put(map, s, x, Len(sy) + 1), hidden2, Append(sy, e), entries)
<1> DEFINE sz == Append(sy, e)
           n == Len(sy) + 1
           m2 == Put(map, s, x, n)
<1>1. /\ Len(sy) \in Nat /\ Len(sz) = n /\ \A i \in 1 .. Len(sy) : sz[i] = sy[i]
      /\ sz[n] = e /\ n \in 1 .. n
  BY AppendProperties
<1>2. /\ m2[s][x] = n
      /\ \A r \in Scope, y \in Names : r # s \/ y # x => m2[r][y] = map[r][y]
  BY MapIs
<1>3. \A i \in 1 .. Len(sy) : i \in 1 .. n
  BY <1>1
<1> HIDE DEF sz, n, m2
<1>4. ASSUME NEW r \in Scope, NEW y \in Names, m2[r][y] # None
      PROVE  /\ m2[r][y] \in 1 .. Len(sz)
             /\ sz[m2[r][y]] \in entries
             /\ sz[m2[r][y]].name = y /\ sz[m2[r][y]].scope = r
             /\ m2[r][y] \notin hidden2[r]
  <2>1. CASE r = s /\ y = x
    <3>1. m2[r][y] = n /\ n \notin hidden2[s]
      BY <1>2, <2>1 DEF n
    <3> QED
      BY <1>1, <2>1, <3>1
  <2>2. CASE r # s \/ y # x
    <3>1. m2[r][y] = map[r][y]
      BY <1>2, <2>2
    <3>2. /\ map[r][y] \in 1 .. Len(sy)
          /\ sy[map[r][y]] \in entries
          /\ sy[map[r][y]].name = y /\ sy[map[r][y]].scope = r
          /\ map[r][y] \notin hidden2[r]
      BY <1>4, <2>2, <3>1 DEF FiledIn
    <3> QED
      BY <1>1, <1>3, <3>1, <3>2
  <2> QED
    BY <2>1, <2>2
<1>5. FiledIn(m2, hidden2, sz, entries)
  BY <1>4 DEF FiledIn
<1> QED
  BY <1>5 DEF sz, n, m2

LEMMA Added ==
  ASSUME NEW nm, NEW sy, NamesOK(nm, sy), Len(sy) < MaxSyms,
         NEW e \in Entry, e.implicit => e.kind = "var", NEW nm2 \in NameMaps,
         FiledIn(nm2.phys, nm2.shadowed, Append(sy, e), PhysEntries),
         FiledIn(nm2.implicits, nm2.shadowed, Append(sy, e), ImplicitEntries),
         FiledIn(nm2.types, nm2.shadowed, Append(sy, e), TypeEntries),
         FiledIn(nm2.labels, nm2.shadowed, Append(sy, e), LabelEntries),
         \A s \in Scope : nm2.shadowed[s] \subseteq 1 .. Len(sy),
         Held(nm2, e) = Len(sy) + 1,
         \A i \in 1 .. Len(sy) :
           i \in nm.shadowed[sy[i].scope] \/ Held(nm, sy[i]) = i
             => i \in nm2.shadowed[sy[i].scope] \/ Held(nm2, sy[i]) = i
  PROVE  NamesOK(nm2, Append(sy, e))
<1> DEFINE sz == Append(sy, e)
           n == Len(sy) + 1
<1>1. /\ Len(sy) \in Nat /\ sz \in Seq(Entry) /\ Len(sz) = n
      /\ \A i \in 1 .. Len(sy) : sz[i] = sy[i]
      /\ sz[n] = e
  BY AppendProperties DEF NamesOK
<1>2. Len(sz) <= MaxSyms
  BY <1>1, Scopes
<1> HIDE DEF sz
<1>3. \A i \in 1 .. n : i \in 1 .. Len(sy) \/ i = n
  BY <1>1
<1>4. \A s \in Scope : nm2.shadowed[s] \subseteq 1 .. n
  <2>1. 1 .. Len(sy) \subseteq 1 .. n
    BY <1>1
  <2> QED
    BY <2>1
<1> HIDE DEF n
<1>5. \A i \in 1 .. n : sz[i].implicit => sz[i].kind = "var"
  BY <1>1, <1>3 DEF NamesOK
<1>6. \A i \in 1 .. n : i \in nm2.shadowed[sz[i].scope] \/ Held(nm2, sz[i]) = i
  <2>1. \A i \in 1 .. Len(sy) : i \in nm2.shadowed[sy[i].scope] \/ Held(nm2, sy[i]) = i
    BY DEF NamesOK
  <2>2. Held(nm2, e) = n
    BY DEF n
  <2> QED
    BY <1>1, <1>3, <2>1, <2>2
<1>7. NamesOK(nm2, sz)
  BY <1>1, <1>2, <1>4, <1>5, <1>6 DEF NamesOK, sz
<1> QED
  BY <1>7 DEF sz

\* A new physical symbol, which may displace one.
LEMMA AddPhys ==
  ASSUME NEW nm, NEW sy, NamesOK(nm, sy), Len(sy) < MaxSyms,
         NEW s \in Scope, NEW x \in Names, NEW e \in Entry,
         e \in PhysEntries, e.name = x, e.scope = s,
         NEW nm2 \in NameMaps, nm2.phys = Put(nm.phys, s, x, Len(sy) + 1),
         nm2.implicits = nm.implicits, nm2.types = nm.types, nm2.labels = nm.labels,
         \A r \in Scope : r # s => nm2.shadowed[r] = nm.shadowed[r],
         nm2.shadowed[s] = nm.shadowed[s] \cup ({nm.phys[s][x]} \ {None})
  PROVE  NamesOK(nm2, Append(sy, e))
<1> DEFINE old == nm.phys[s][x]
           n == Len(sy) + 1
<1>1. /\ nm \in NameMaps /\ sy \in Seq(Entry) /\ Len(sy) \in Nat /\ n \in Sym
      /\ nm.phys \in Maps /\ nm.shadowed \in [Scope -> SUBSET Sym]
      /\ nm.implicits \in Maps /\ nm.types \in Maps /\ nm.labels \in Maps
  BY Scopes DEF NamesOK, NameMaps, Sym
<1>2. /\ nm2.phys = Put(nm.phys, s, x, n)
      /\ nm2.implicits = nm.implicits /\ nm2.types = nm.types /\ nm2.labels = nm.labels
  OBVIOUS
<1> HIDE DEF n
<1>3. /\ \A r \in Scope : r # s => nm2.shadowed[r] = nm.shadowed[r]
      /\ nm2.shadowed[s] = nm.shadowed[s] \cup ({old} \ {None})
  OBVIOUS
<1>4. old # None => /\ old \in 1 .. Len(sy) /\ sy[old] \in PhysEntries
                    /\ sy[old].name = x /\ sy[old].scope = s
  BY DEF NamesOK, FiledIn
<1> HIDE DEF old
<1>5. \A r \in Scope : nm2.shadowed[r] \subseteq 1 .. Len(sy)
  BY <1>3, <1>4 DEF NamesOK
<1>6. FiledIn(nm2.phys, nm2.shadowed, Append(sy, e), PhysEntries)
  <2>1. \A r \in Scope, y \in Names :
          (r # s \/ y # x) /\ nm.phys[r][y] # None => nm.phys[r][y] \notin nm2.shadowed[r]
    <3> SUFFICES ASSUME NEW r \in Scope, NEW y \in Names, r # s \/ y # x, nm.phys[r][y] # None
                 PROVE  nm.phys[r][y] \notin nm2.shadowed[r]
      OBVIOUS
    <3>1. nm.phys[r][y] \notin nm.shadowed[r] /\ sy[nm.phys[r][y]].name = y
      BY DEF NamesOK, FiledIn
    <3> QED
      BY <1>3, <1>4, <3>1
  <2>2. Len(sy) + 1 \notin nm2.shadowed[s] /\ Len(sy) + 1 \in Sym
    BY <1>1, <1>5 DEF n
  <2>3. FiledIn(nm.phys, nm.shadowed, sy, PhysEntries)
    BY DEF NamesOK
  <2>4. FiledIn(Put(nm.phys, s, x, Len(sy) + 1), nm2.shadowed,
                Append(sy, e), PhysEntries)
    BY <1>1, <2>1, <2>2, <2>3, FiledNew
  <2> QED
    BY <1>2, <2>4 DEF n
<1>7. ASSUME NEW map, NEW entries,
             FiledIn(map, nm.shadowed, sy, entries),
             entries \cap PhysEntries = {}
      PROVE  FiledIn(map, nm2.shadowed, Append(sy, e), entries)
  <2>1. \A r \in Scope, y \in Names : map[r][y] # None => map[r][y] \notin nm2.shadowed[r]
    <3> SUFFICES ASSUME NEW r \in Scope, NEW y \in Names, map[r][y] # None
                 PROVE  map[r][y] \notin nm2.shadowed[r]
      OBVIOUS
    <3>1. map[r][y] \notin nm.shadowed[r] /\ sy[map[r][y]] \in entries
      BY <1>7 DEF FiledIn
    <3>2. old # None => map[r][y] # old
      BY <1>4, <1>7, <3>1
    <3> QED
      BY <1>3, <3>1, <3>2
  <2> QED
    BY <1>1, <1>7, <2>1, FiledKept
<1>8. /\ FiledIn(nm2.implicits, nm2.shadowed, Append(sy, e), ImplicitEntries)
       /\ FiledIn(nm2.types, nm2.shadowed, Append(sy, e), TypeEntries)
       /\ FiledIn(nm2.labels, nm2.shadowed, Append(sy, e), LabelEntries)
  <2>1. /\ ImplicitEntries \cap PhysEntries = {} /\ TypeEntries \cap PhysEntries = {}
        /\ LabelEntries \cap PhysEntries = {}
    BY DEF Physicals, PhysEntries, ImplicitEntries, TypeEntries, LabelEntries
  <2>2. /\ FiledIn(nm.implicits, nm.shadowed, sy, ImplicitEntries)
        /\ FiledIn(nm.types, nm.shadowed, sy, TypeEntries)
        /\ FiledIn(nm.labels, nm.shadowed, sy, LabelEntries)
    BY DEF NamesOK
  <2> QED
    BY <1>2, <1>7, <2>1, <2>2
<1>9. /\ nm2.phys[s][x] = n
       /\ \A r \in Scope, y \in Names : r # s \/ y # x => nm2.phys[r][y] = nm.phys[r][y]
  <2>1. n \in Sym /\ nm.phys \in Maps
    BY <1>1
  <2>2. /\ Put(nm.phys, s, x, n)[s][x] = n
        /\ \A r \in Scope, y \in Names :
             r # s \/ y # x => Put(nm.phys, s, x, n)[r][y] = nm.phys[r][y]
    BY <2>1, MapIs
  <2> QED
    BY <1>2, <2>2
<1>10. Held(nm2, e) = n
  BY <1>9 DEF Held, Physicals, PhysEntries
<1>11. ASSUME NEW i \in 1 .. Len(sy),
              i \in nm.shadowed[sy[i].scope] \/ Held(nm, sy[i]) = i
       PROVE  i \in nm2.shadowed[sy[i].scope] \/ Held(nm2, sy[i]) = i
  <2>1. sy[i].scope \in Scope /\ sy[i].name \in Names /\ i # None
    BY <1>1, EntriesAre DEF None
  <2>2. nm.shadowed[sy[i].scope] \subseteq nm2.shadowed[sy[i].scope]
    BY <1>3, <2>1
  <2>3. CASE i = old
    BY <1>3, <1>4, <2>1, <2>3
  <2>4. CASE i # old /\ Held(nm, sy[i]) = i
    <3>1. CASE sy[i].scope = s /\ sy[i].name = x
      BY <1>2, <2>4, <3>1 DEF Held, old
    <3>2. CASE sy[i].scope # s \/ sy[i].name # x
      BY <1>2, <1>9, <2>1, <2>4, <3>2 DEF Held
    <3> QED
      BY <3>1, <3>2
  <2> QED
    BY <1>11, <2>2, <2>3, <2>4
<1>12. e.implicit => e.kind = "var"
  BY DEF PhysEntries
<1> QED
  BY <1>5, <1>6, <1>8, <1>10, <1>11, <1>12, Added DEF n

LEMMA FiledSame ==
  ASSUME NEW map, NEW hidden, NEW entries, NEW sy \in Seq(Entry), NEW e \in Entry,
         FiledIn(map, hidden, sy, entries)
  PROVE  FiledIn(map, hidden, Append(sy, e), entries)
<1>1. \A s \in Scope, x \in Names : map[s][x] # None => map[s][x] \notin hidden[s]
  BY DEF FiledIn
<1> QED
  BY <1>1, FiledKept

LEMMA FiledSlot ==
  ASSUME NEW map \in Maps, NEW hidden, NEW entries,
         NEW sy \in Seq(Entry), NEW e \in Entry, NEW s \in Scope, NEW x \in Names,
         Len(sy) + 1 \in Sym,
         FiledIn(map, hidden, sy, entries),
         e \in entries, e.name = x, e.scope = s,
         \A r \in Scope : hidden[r] \subseteq 1 .. Len(sy)
  PROVE  FiledIn(Put(map, s, x, Len(sy) + 1), hidden, Append(sy, e), entries)
<1>1. Len(sy) + 1 \notin hidden[s]
  <2>1. Len(sy) \in Nat
    OBVIOUS
  <2> QED
    BY <2>1
<1>2. \A r \in Scope, y \in Names : map[r][y] # None => map[r][y] \notin hidden[r]
  BY DEF FiledIn
<1> QED
  BY <1>1, <1>2, FiledNew

\* A new implicit symbol.
LEMMA AddImplicit ==
  ASSUME NEW nm, NEW sy, NamesOK(nm, sy), Len(sy) < MaxSyms,
         NEW s \in Scope, NEW x \in Names, NEW e \in Entry,
         e \in ImplicitEntries, e.name = x, e.scope = s, nm.implicits[s][x] = None,
         NEW nm2 \in NameMaps, nm2.implicits = Put(nm.implicits, s, x, Len(sy) + 1),
         nm2.phys = nm.phys, nm2.types = nm.types, nm2.labels = nm.labels,
         nm2.shadowed = nm.shadowed
  PROVE  NamesOK(nm2, Append(sy, e))
<1> DEFINE n == Len(sy) + 1
<1>1. /\ sy \in Seq(Entry) /\ Len(sy) \in Nat /\ n \in Sym /\ nm.implicits \in Maps
      /\ \A r \in Scope : nm.shadowed[r] \subseteq 1 .. Len(sy)
  BY Scopes DEF NamesOK, NameMaps, Sym
<1>2. e.kind = "var" /\ e.implicit = TRUE
  BY DEF ImplicitEntries
<1>3. /\ FiledIn(nm.phys, nm.shadowed, sy, PhysEntries)
      /\ FiledIn(nm.implicits, nm.shadowed, sy, ImplicitEntries)
      /\ FiledIn(nm.types, nm.shadowed, sy, TypeEntries)
      /\ FiledIn(nm.labels, nm.shadowed, sy, LabelEntries)
  BY DEF NamesOK
<1>4. FiledIn(nm2.implicits, nm2.shadowed, Append(sy, e), ImplicitEntries)
  BY <1>1, <1>2, <1>3, FiledSlot
<1>5. /\ FiledIn(nm2.phys, nm2.shadowed, Append(sy, e), PhysEntries)
      /\ FiledIn(nm2.types, nm2.shadowed, Append(sy, e), TypeEntries)
      /\ FiledIn(nm2.labels, nm2.shadowed, Append(sy, e), LabelEntries)
  BY <1>1, <1>3, FiledSame
<1> HIDE DEF n
<1>6. /\ nm2.implicits[s][x] = n
      /\ \A r \in Scope, y \in Names : r # s \/ y # x => nm2.implicits[r][y] = nm.implicits[r][y]
  <2>1. n \in Sym /\ nm.implicits \in Maps /\ nm2.implicits = Put(nm.implicits, s, x, n)
    BY <1>1 DEF n
  <2> QED
    BY <2>1, MapIs
<1>7. Held(nm2, e) = n
  BY <1>2, <1>6 DEF Held
<1>8. ASSUME NEW i \in 1 .. Len(sy),
             i \in nm.shadowed[sy[i].scope] \/ Held(nm, sy[i]) = i
      PROVE  i \in nm2.shadowed[sy[i].scope] \/ Held(nm2, sy[i]) = i
  <2>1. sy[i].scope \in Scope /\ sy[i].name \in Names /\ i # None
    BY <1>1, EntriesAre DEF None
  <2>2. CASE Held(nm, sy[i]) = i
    <3>1. CASE sy[i].scope = s /\ sy[i].name = x
      BY <2>1, <2>2, <3>1 DEF Held
    <3>2. CASE sy[i].scope # s \/ sy[i].name # x
      BY <1>6, <2>1, <2>2, <3>2 DEF Held
    <3> QED
      BY <3>1, <3>2
  <2> QED
    BY <1>8, <2>2
<1>9. /\ e.implicit => e.kind = "var"
      /\ \A r \in Scope : nm2.shadowed[r] \subseteq 1 .. Len(sy)
  BY <1>1, <1>2
<1> QED
  BY <1>4, <1>5, <1>7, <1>8, <1>9, Added DEF n

\* A new type.
LEMMA AddType ==
  ASSUME NEW nm, NEW sy, NamesOK(nm, sy), Len(sy) < MaxSyms,
         NEW s \in Scope, NEW x \in Names, NEW e \in Entry,
         e \in TypeEntries, ~e.implicit, e.name = x, e.scope = s, nm.types[s][x] = None,
         NEW nm2 \in NameMaps, nm2.types = Put(nm.types, s, x, Len(sy) + 1),
         nm2.phys = nm.phys, nm2.implicits = nm.implicits, nm2.labels = nm.labels,
         nm2.shadowed = nm.shadowed
  PROVE  NamesOK(nm2, Append(sy, e))
<1> DEFINE n == Len(sy) + 1
<1>1. /\ sy \in Seq(Entry) /\ Len(sy) \in Nat /\ n \in Sym /\ nm.types \in Maps
      /\ \A r \in Scope : nm.shadowed[r] \subseteq 1 .. Len(sy)
  BY Scopes DEF NamesOK, NameMaps, Sym
<1>2. e.kind = "type" /\ ~e.implicit
  BY DEF TypeEntries
<1>3. /\ FiledIn(nm.phys, nm.shadowed, sy, PhysEntries)
      /\ FiledIn(nm.implicits, nm.shadowed, sy, ImplicitEntries)
      /\ FiledIn(nm.types, nm.shadowed, sy, TypeEntries)
      /\ FiledIn(nm.labels, nm.shadowed, sy, LabelEntries)
  BY DEF NamesOK
<1>4. FiledIn(nm2.types, nm2.shadowed, Append(sy, e), TypeEntries)
  BY <1>1, <1>2, <1>3, FiledSlot
<1>5. /\ FiledIn(nm2.phys, nm2.shadowed, Append(sy, e), PhysEntries)
      /\ FiledIn(nm2.implicits, nm2.shadowed, Append(sy, e), ImplicitEntries)
      /\ FiledIn(nm2.labels, nm2.shadowed, Append(sy, e), LabelEntries)
  BY <1>1, <1>3, FiledSame
<1> HIDE DEF n
<1>6. /\ nm2.types[s][x] = n
      /\ \A r \in Scope, y \in Names : r # s \/ y # x => nm2.types[r][y] = nm.types[r][y]
  <2>1. n \in Sym /\ nm.types \in Maps /\ nm2.types = Put(nm.types, s, x, n)
    BY <1>1 DEF n
  <2> QED
    BY <2>1, MapIs
<1>7. Held(nm2, e) = n
  BY <1>2, <1>6 DEF Held
<1>8. ASSUME NEW i \in 1 .. Len(sy),
             i \in nm.shadowed[sy[i].scope] \/ Held(nm, sy[i]) = i
      PROVE  i \in nm2.shadowed[sy[i].scope] \/ Held(nm2, sy[i]) = i
  <2>1. sy[i].scope \in Scope /\ sy[i].name \in Names /\ i # None
    BY <1>1, EntriesAre DEF None
  <2>2. CASE Held(nm, sy[i]) = i
    <3>1. CASE sy[i].scope = s /\ sy[i].name = x
      BY <2>1, <2>2, <3>1 DEF Held
    <3>2. CASE sy[i].scope # s \/ sy[i].name # x
      BY <1>6, <2>1, <2>2, <3>2 DEF Held
    <3> QED
      BY <3>1, <3>2
  <2> QED
    BY <1>8, <2>2
<1>9. /\ e.implicit => e.kind = "var"
      /\ \A r \in Scope : nm2.shadowed[r] \subseteq 1 .. Len(sy)
  BY <1>1, <1>2
<1> QED
  BY <1>4, <1>5, <1>7, <1>8, <1>9, Added DEF n

\* A new label.
LEMMA AddLabel ==
  ASSUME NEW nm, NEW sy, NamesOK(nm, sy), Len(sy) < MaxSyms,
         NEW s \in Scope, NEW x \in Names, NEW e \in Entry,
         e \in LabelEntries, ~e.implicit, e.name = x, e.scope = s, nm.labels[s][x] = None,
         NEW nm2 \in NameMaps, nm2.labels = Put(nm.labels, s, x, Len(sy) + 1),
         nm2.phys = nm.phys, nm2.implicits = nm.implicits, nm2.types = nm.types,
         nm2.shadowed = nm.shadowed
  PROVE  NamesOK(nm2, Append(sy, e))
<1> DEFINE n == Len(sy) + 1
<1>1. /\ sy \in Seq(Entry) /\ Len(sy) \in Nat /\ n \in Sym /\ nm.labels \in Maps
      /\ \A r \in Scope : nm.shadowed[r] \subseteq 1 .. Len(sy)
  BY Scopes DEF NamesOK, NameMaps, Sym
<1>2. e.kind = "label" /\ ~e.implicit
  BY DEF LabelEntries
<1>3. /\ FiledIn(nm.phys, nm.shadowed, sy, PhysEntries)
      /\ FiledIn(nm.implicits, nm.shadowed, sy, ImplicitEntries)
      /\ FiledIn(nm.types, nm.shadowed, sy, TypeEntries)
      /\ FiledIn(nm.labels, nm.shadowed, sy, LabelEntries)
  BY DEF NamesOK
<1>4. FiledIn(nm2.labels, nm2.shadowed, Append(sy, e), LabelEntries)
  BY <1>1, <1>2, <1>3, FiledSlot
<1>5. /\ FiledIn(nm2.phys, nm2.shadowed, Append(sy, e), PhysEntries)
      /\ FiledIn(nm2.implicits, nm2.shadowed, Append(sy, e), ImplicitEntries)
      /\ FiledIn(nm2.types, nm2.shadowed, Append(sy, e), TypeEntries)
  BY <1>1, <1>3, FiledSame
<1> HIDE DEF n
<1>6. /\ nm2.labels[s][x] = n
      /\ \A r \in Scope, y \in Names : r # s \/ y # x => nm2.labels[r][y] = nm.labels[r][y]
  <2>1. n \in Sym /\ nm.labels \in Maps /\ nm2.labels = Put(nm.labels, s, x, n)
    BY <1>1 DEF n
  <2> QED
    BY <2>1, MapIs
<1>7. Held(nm2, e) = n
  BY <1>2, <1>6 DEF Held
<1>8. ASSUME NEW i \in 1 .. Len(sy),
             i \in nm.shadowed[sy[i].scope] \/ Held(nm, sy[i]) = i
      PROVE  i \in nm2.shadowed[sy[i].scope] \/ Held(nm2, sy[i]) = i
  <2>1. sy[i].scope \in Scope /\ sy[i].name \in Names /\ i # None
    BY <1>1, EntriesAre DEF None
  <2>2. CASE Held(nm, sy[i]) = i
    <3>1. CASE sy[i].scope = s /\ sy[i].name = x
      BY <2>1, <2>2, <3>1 DEF Held
    <3>2. CASE sy[i].scope # s \/ sy[i].name # x
      BY <1>6, <2>1, <2>2, <3>2 DEF Held
    <3> QED
      BY <3>1, <3>2
  <2> QED
    BY <1>8, <2>2
<1>9. /\ e.implicit => e.kind = "var"
      /\ \A r \in Scope : nm2.shadowed[r] \subseteq 1 .. Len(sy)
  BY <1>1, <1>2
<1> QED
  BY <1>4, <1>5, <1>7, <1>8, <1>9, Added DEF n

(***************************************************************************)
(* The names: the inductive invariant                                      *)
(***************************************************************************)

NameInv ==
  /\ NamesOK(names, syms)
  /\ \A i \in 1 .. Len(syms) : syms[i].scope <= tree.n

\* What an insertion leaves.
LEMMA Insertion ==
  ASSUME ScopeInv, NameInv, NEW e \in Entry, e.scope = walker.current,
         syms' = Append(syms, e), tree' = tree, NamesOK(names', syms')
  PROVE  NameInv'
<1>1. syms \in Seq(Entry) /\ Len(syms) \in Nat /\ walker.current <= tree.n
  BY DEF NameInv, NamesOK, ScopeInv, InTree
<1>2. /\ Len(syms') = Len(syms) + 1 /\ syms'[Len(syms) + 1] = e
      /\ \A i \in 1 .. Len(syms) : syms'[i] = syms[i]
  BY <1>1, AppendProperties
<1>3. \A i \in 1 .. Len(syms) + 1 : i \in 1 .. Len(syms) \/ i = Len(syms) + 1
  BY <1>1
<1>4. \A i \in 1 .. Len(syms') : syms'[i].scope <= tree.n
  BY <1>1, <1>2, <1>3 DEF NameInv
<1> QED
  BY <1>4 DEF NameInv

LEMMA InsertionIs ==
  ASSUME ScopeInv, NameInv, Len(syms) < bound.syms
  PROVE  /\ walker.current \in Scope /\ Len(syms) < MaxSyms /\ Len(syms) \in Nat
         /\ Len(syms) + 1 \in Sym
         /\ names \in NameMaps /\ names.phys \in Maps /\ names.implicits \in Maps
         /\ names.types \in Maps /\ names.labels \in Maps
         /\ names.shadowed \in [Scope -> SUBSET Sym]
<1>1. walker.current \in Scope
  BY WalkerIs DEF ScopeInv, InTree
<1>2. Len(syms) \in Nat /\ bound.syms \in 0 .. MaxSyms
  BY BoundIs DEF NameInv, NamesOK, ScopeInv
<1>3. Len(syms) < MaxSyms /\ Len(syms) + 1 \in Sym
  BY <1>2, Scopes DEF Sym
<1>4. names \in NameMaps
  BY DEF NameInv, NamesOK
<1> QED
  BY <1>1, <1>2, <1>3, <1>4 DEF NameMaps

LEMMA SymbolIs ==
  ASSUME NEW x \in Names, NEW s \in Scope, NEW kind \in Kinds,
         NEW e, e = Symbol(kind, x, s)
  PROVE  e \in Entry /\ e.kind = kind /\ ~e.implicit /\ e.name = x /\ e.scope = s
<1>1. "none" \in Linkages /\ 0 \in 0 .. 1 /\ None \in Signatures \cup {None}
  BY DEF Linkages
<1> QED
  BY <1>1 DEF Symbol, Entry

LEMMA PhysSymbolIs ==
  ASSUME NEW x \in Names, NEW s \in Scope, NEW kind \in Physicals,
         NEW e, e = Symbol(kind, x, s)
  PROVE  e \in PhysEntries /\ e.name = x /\ e.scope = s
<1>1. "none" \in Linkages /\ 0 \in 0 .. 1 /\ None \in Signatures \cup {None} /\ kind \in Kinds
  BY DEF Linkages, Kinds, Physicals
<1>2. e \in Entry /\ e.kind = kind /\ e.implicit = FALSE /\ e.name = x /\ e.scope = s
  BY <1>1 DEF Symbol, Entry
<1> QED
  BY <1>2 DEF PhysEntries

LEMMA PhysNames ==
  ASSUME ScopeInv, NameInv, NEW x \in Names, NEW e \in Entry,
         names.phys[walker.current][x] = None,
         AddSymbol("phys", x, walker.current, e),
         e \in PhysEntries, e.name = x, e.scope = walker.current
  PROVE  NameInv'
<1> DEFINE s == walker.current
<1>1. /\ Len(syms) < bound.syms /\ syms' = Append(syms, e) /\ tree' = tree
      /\ names' = [names EXCEPT !["phys"][s][x] = Len(syms) + 1]
  BY DEF AddSymbol
<1>2. /\ s \in Scope /\ Len(syms) < MaxSyms /\ Len(syms) + 1 \in Sym /\ names \in NameMaps
      /\ names.phys \in Maps /\ names.shadowed \in [Scope -> SUBSET Sym]
  BY <1>1, InsertionIs
<1>3. /\ names'.phys = Put(names.phys, s, x, Len(syms) + 1)
      /\ names'.implicits = names.implicits /\ names'.types = names.types
      /\ names'.labels = names.labels /\ names'.shadowed = names.shadowed
  BY <1>1, <1>2 DEF NameMaps, Put
<1>4. names' \in NameMaps
  <2>1. Put(names.phys, s, x, Len(syms) + 1) \in Maps
    BY <1>2, MapIs
  <2> QED
    BY <1>1, <1>2, <2>1 DEF NameMaps, Put
<1>5. names'.shadowed[s] = names.shadowed[s] \cup ({names.phys[s][x]} \ {None})
  BY <1>3
<1>6. NamesOK(names, syms)
  BY DEF NameInv
<1> HIDE DEF s
<1>7. NamesOK(names', Append(syms, e))
  BY <1>2, <1>3, <1>4, <1>5, <1>6, AddPhys DEF s
<1> QED
  BY <1>1, <1>7, Insertion

LEMMA AliasNames ==
  ASSUME ScopeInv, NameInv, NEW a \in Sym, InsertAlias(walker.current, a)
  PROVE  NameInv'
<1> DEFINE s == walker.current
           x == syms[a].name
           e == Symbol("alias", x, s)
           old == names.phys[s][x]
<1>1. /\ Len(syms) < bound.syms /\ syms' = Append(syms, e) /\ tree' = tree
      /\ names' = [names EXCEPT !.phys[s][x] = Len(syms) + 1,
                                !.shadowed[s] = @ \cup ({old} \ {None})]
      /\ a \in DOMAIN syms
  BY DEF InsertAlias
<1>2. /\ s \in Scope /\ Len(syms) < MaxSyms /\ Len(syms) + 1 \in Sym /\ names \in NameMaps
      /\ names.phys \in Maps /\ names.shadowed \in [Scope -> SUBSET Sym]
  BY <1>1, InsertionIs
<1>3. x \in Names
  <2>1. syms \in Seq(Entry) /\ a \in 1 .. Len(syms)
    BY <1>1 DEF NameInv, NamesOK
  <2> QED
    BY <2>1, EntriesAre
<1> HIDE DEF x, s
<1>4. e \in PhysEntries /\ e \in Entry /\ e.name = x /\ e.scope = s
  <2>1. "alias" \in Physicals
    BY DEF Physicals
  <2>2. e \in PhysEntries /\ e.name = x /\ e.scope = s
    BY <1>2, <1>3, <2>1, PhysSymbolIs
  <2> QED
    BY <2>2 DEF PhysEntries
<1> HIDE DEF e
<1>5. /\ names'.phys = Put(names.phys, s, x, Len(syms) + 1)
      /\ names'.implicits = names.implicits /\ names'.types = names.types
      /\ names'.labels = names.labels
      /\ names'.shadowed = [names.shadowed EXCEPT ![s] = @ \cup ({old} \ {None})]
  BY <1>1, <1>2 DEF NameMaps, Put
<1>6. names' \in NameMaps
  <2>1. Put(names.phys, s, x, Len(syms) + 1) \in Maps /\ old \in Sym \cup {None}
    BY <1>2, <1>3, MapIs
  <2> HIDE DEF old
  <2>2. [names.shadowed EXCEPT ![s] = @ \cup ({old} \ {None})] \in [Scope -> SUBSET Sym]
    BY <1>2, <2>1
  <2> QED
    BY <1>1, <1>2, <2>1, <2>2 DEF NameMaps, Put, old
<1>7. /\ names'.shadowed[s] = names.shadowed[s] \cup ({old} \ {None})
      /\ \A r \in Scope : r # s => names'.shadowed[r] = names.shadowed[r]
  BY <1>2, <1>5
<1>8. NamesOK(names, syms)
  BY DEF NameInv
<1>9. NamesOK(names', Append(syms, e))
  BY <1>2, <1>3, <1>4, <1>5, <1>6, <1>7, <1>8, AddPhys
<1> QED
  BY <1>1, <1>4, <1>9, Insertion DEF s

LEMMA ImplicitNames ==
  ASSUME ScopeInv, NameInv, NEW x \in Names, NEW e \in Entry,
         names.implicits[walker.current][x] = None,
         AddSymbol("implicits", x, walker.current, e),
         e \in ImplicitEntries, e.name = x, e.scope = walker.current
  PROVE  NameInv'
<1> DEFINE s == walker.current
<1>1. /\ Len(syms) < bound.syms /\ syms' = Append(syms, e) /\ tree' = tree
      /\ names' = [names EXCEPT !["implicits"][s][x] = Len(syms) + 1]
  BY DEF AddSymbol
<1>2. /\ s \in Scope /\ Len(syms) < MaxSyms /\ Len(syms) + 1 \in Sym /\ names \in NameMaps
      /\ names.implicits \in Maps
  BY <1>1, InsertionIs
<1>3. /\ names'.implicits = Put(names.implicits, s, x, Len(syms) + 1)
      /\ names'.phys = names.phys /\ names'.types = names.types
      /\ names'.labels = names.labels /\ names'.shadowed = names.shadowed
  BY <1>1, <1>2 DEF NameMaps, Put
<1>4. names' \in NameMaps
  <2>1. Put(names.implicits, s, x, Len(syms) + 1) \in Maps
    BY <1>2, MapIs
  <2> QED
    BY <1>1, <1>2, <2>1 DEF NameMaps, Put
<1>5. NamesOK(names, syms)
  BY DEF NameInv
<1> HIDE DEF s
<1>6. NamesOK(names', Append(syms, e))
  BY <1>2, <1>3, <1>4, <1>5, AddImplicit DEF s
<1> QED
  BY <1>1, <1>6, Insertion

LEMMA TypeNames ==
  ASSUME ScopeInv, NameInv, NEW x \in Names, NEW e \in Entry,
         names.types[walker.current][x] = None,
         AddSymbol("types", x, walker.current, e),
         e \in TypeEntries, ~e.implicit, e.name = x, e.scope = walker.current
  PROVE  NameInv'
<1> DEFINE s == walker.current
<1>1. /\ Len(syms) < bound.syms /\ syms' = Append(syms, e) /\ tree' = tree
      /\ names' = [names EXCEPT !["types"][s][x] = Len(syms) + 1]
  BY DEF AddSymbol
<1>2. /\ s \in Scope /\ Len(syms) < MaxSyms /\ Len(syms) + 1 \in Sym /\ names \in NameMaps
      /\ names.types \in Maps
  BY <1>1, InsertionIs
<1>3. /\ names'.types = Put(names.types, s, x, Len(syms) + 1)
      /\ names'.phys = names.phys /\ names'.implicits = names.implicits
      /\ names'.labels = names.labels /\ names'.shadowed = names.shadowed
  BY <1>1, <1>2 DEF NameMaps, Put
<1>4. names' \in NameMaps
  <2>1. Put(names.types, s, x, Len(syms) + 1) \in Maps
    BY <1>2, MapIs
  <2> QED
    BY <1>1, <1>2, <2>1 DEF NameMaps, Put
<1>5. NamesOK(names, syms)
  BY DEF NameInv
<1> HIDE DEF s
<1>6. NamesOK(names', Append(syms, e))
  BY <1>2, <1>3, <1>4, <1>5, AddType DEF s
<1> QED
  BY <1>1, <1>6, Insertion

LEMMA LabelNames ==
  ASSUME ScopeInv, NameInv, NEW x \in Names, NEW e \in Entry,
         names.labels[walker.current][x] = None,
         AddSymbol("labels", x, walker.current, e),
         e \in LabelEntries, ~e.implicit, e.name = x, e.scope = walker.current
  PROVE  NameInv'
<1> DEFINE s == walker.current
<1>1. /\ Len(syms) < bound.syms /\ syms' = Append(syms, e) /\ tree' = tree
      /\ names' = [names EXCEPT !["labels"][s][x] = Len(syms) + 1]
  BY DEF AddSymbol
<1>2. /\ s \in Scope /\ Len(syms) < MaxSyms /\ Len(syms) + 1 \in Sym /\ names \in NameMaps
      /\ names.labels \in Maps
  BY <1>1, InsertionIs
<1>3. /\ names'.labels = Put(names.labels, s, x, Len(syms) + 1)
      /\ names'.phys = names.phys /\ names'.implicits = names.implicits
      /\ names'.types = names.types /\ names'.shadowed = names.shadowed
  BY <1>1, <1>2 DEF NameMaps, Put
<1>4. names' \in NameMaps
  <2>1. Put(names.labels, s, x, Len(syms) + 1) \in Maps
    BY <1>2, MapIs
  <2> QED
    BY <1>1, <1>2, <2>1 DEF NameMaps, Put
<1>5. NamesOK(names, syms)
  BY DEF NameInv
<1> HIDE DEF s
<1>6. NamesOK(names', Append(syms, e))
  BY <1>2, <1>3, <1>4, <1>5, AddLabel DEF s
<1> QED
  BY <1>1, <1>6, Insertion

\* Every insertion keeps the names in order.
LEMMA InsertNames ==
  ASSUME ScopeInv, NameInv, Insert(walker.current)
  PROVE  NameInv'
<1> DEFINE s == walker.current
<1>1. s \in Scope
  BY WalkerIs DEF ScopeInv, InTree
<1>2. PICK x \in Names :
        \/ InsertVar(s, x)
        \/ InsertImplicit(s, x)
        \/ InsertType(s, x)
        \/ InsertLabel(s, x)
        \/ \E sig \in Signatures, link \in Linkages, body \in BOOLEAN :
             InsertNewFunc(s, x, sig, link, body)
  BY DEF Insert
<1> HIDE DEF s
<1>3. CASE InsertVar(s, x)
  <2> DEFINE e == Symbol("var", x, s)
  <2>1. names.phys[s][x] = None /\ AddSymbol("phys", x, s, e)
    BY <1>3 DEF InsertVar
  <2>2. e = Symbol("var", x, s) /\ "var" \in Physicals
    BY DEF Physicals
  <2> HIDE DEF e
  <2>3. e \in PhysEntries /\ e.name = x /\ e.scope = s
    BY <1>1, <2>2, PhysSymbolIs
  <2>4. e \in Entry
    BY <2>3 DEF PhysEntries
  <2> QED
    BY <2>1, <2>3, <2>4, PhysNames DEF s
<1>4. CASE InsertImplicit(s, x)
  <2> DEFINE e == [Symbol("var", x, s) EXCEPT !.implicit = TRUE]
  <2>1. names.implicits[s][x] = None /\ AddSymbol("implicits", x, s, e)
    BY <1>4 DEF InsertImplicit, LocallyContains
  <2>2. "none" \in Linkages /\ 0 \in 0 .. 1 /\ None \in Signatures \cup {None} /\ "var" \in Kinds
    BY DEF Linkages, Kinds
  <2>3. e \in Entry /\ e.kind = "var" /\ e.implicit = TRUE /\ e.name = x /\ e.scope = s
    BY <1>1, <2>2 DEF Symbol, Entry
  <2> HIDE DEF e
  <2>4. e \in ImplicitEntries
    BY <2>3 DEF ImplicitEntries
  <2> QED
    BY <2>1, <2>3, <2>4, ImplicitNames DEF s
<1>5. CASE InsertType(s, x)
  <2> DEFINE e == Symbol("type", x, s)
  <2>1. names.types[s][x] = None /\ AddSymbol("types", x, s, e)
    BY <1>5 DEF InsertType
  <2>2. e = Symbol("type", x, s) /\ "type" \in Kinds
    BY DEF Kinds
  <2> HIDE DEF e
  <2>3. e \in Entry /\ e.kind = "type" /\ ~e.implicit /\ e.name = x /\ e.scope = s
    BY <1>1, <2>2, SymbolIs
  <2>4. e \in TypeEntries
    BY <2>3 DEF TypeEntries
  <2> QED
    BY <2>1, <2>3, <2>4, TypeNames DEF s
<1>6. CASE InsertLabel(s, x)
  <2> DEFINE e == Symbol("label", x, s)
  <2>1. names.labels[s][x] = None /\ AddSymbol("labels", x, s, e)
    BY <1>6 DEF InsertLabel
  <2>2. e = Symbol("label", x, s) /\ "label" \in Kinds
    BY DEF Kinds
  <2> HIDE DEF e
  <2>3. e \in Entry /\ e.kind = "label" /\ ~e.implicit /\ e.name = x /\ e.scope = s
    BY <1>1, <2>2, SymbolIs
  <2>4. e \in LabelEntries
    BY <2>3 DEF LabelEntries
  <2> QED
    BY <2>1, <2>3, <2>4, LabelNames DEF s
<1>7. CASE \E sig \in Signatures, link \in Linkages, body \in BOOLEAN :
             InsertNewFunc(s, x, sig, link, body)
  <2>1. PICK sig \in Signatures, link \in Linkages, body \in BOOLEAN :
               InsertNewFunc(s, x, sig, link, body)
    BY <1>7
  <2> DEFINE n == IF body THEN 1 ELSE 0
             e == [Symbol("func", x, s) EXCEPT !.sig = sig, !.link = link, !.defs = n]
  <2>2. names.phys[s][x] = None /\ AddSymbol("phys", x, s, e)
    BY <2>1 DEF InsertNewFunc
  <2>3. n \in 0 .. 1
    OBVIOUS
  <2> HIDE DEF n
  <2>4. sig \in Signatures \cup {None} /\ "func" \in Kinds /\ "func" \in Physicals
    BY DEF Kinds, Physicals
  <2>5. e \in Entry /\ e.kind = "func" /\ e.implicit = FALSE /\ e.name = x /\ e.scope = s
    BY <1>1, <2>3, <2>4 DEF Symbol, Entry
  <2> HIDE DEF e
  <2>6. e \in PhysEntries
    BY <2>4, <2>5 DEF PhysEntries
  <2> QED
    BY <2>2, <2>5, <2>6, PhysNames DEF s
<1> QED
  BY <1>2, <1>3, <1>4, <1>5, <1>6, <1>7

\* A definition changes what is known of a function, and not where it is.
LEMMA DefineNames ==
  ASSUME NameInv, NEW f \in Sym, NEW sig, NEW link, Define(f, sig, link)
  PROVE  NameInv'
<1> DEFINE d == [syms[f] EXCEPT !.defs = @ + 1]
<1>1. /\ f \in DOMAIN syms /\ syms[f].kind = "func" /\ syms[f].defs = 0
      /\ syms' = [syms EXCEPT ![f] = d]
      /\ names' = names /\ tree' = tree
  BY DEF Define
<1>2. /\ NamesOK(names, syms) /\ syms \in Seq(Entry) /\ Len(syms) \in Nat
      /\ f \in 1 .. Len(syms) /\ syms[f] \in Entry
      /\ \A i \in 1 .. Len(syms) : syms[i] \in Entry
  BY <1>1, EntriesAre DEF NameInv, NamesOK
<1>3. /\ d \in Entry /\ d.kind = "func" /\ d.name = syms[f].name /\ d.scope = syms[f].scope
      /\ d.implicit = syms[f].implicit
  BY <1>1, <1>2 DEF Entry
<1> HIDE DEF d
<1>4. syms' \in Seq(Entry) /\ Len(syms') = Len(syms)
  BY <1>1, <1>2, <1>3, ExceptSeq
<1>5. \A i \in 1 .. Len(syms) : syms'[i] = IF i = f THEN d ELSE syms[i]
  BY <1>1, <1>2
<1>6. \A i \in 1 .. Len(syms) :
        /\ syms'[i].kind = syms[i].kind /\ syms'[i].name = syms[i].name
        /\ syms'[i].scope = syms[i].scope /\ syms'[i].implicit = syms[i].implicit
        /\ syms'[i] \in Entry
  BY <1>1, <1>2, <1>3, <1>5
<1>7. \A i \in 1 .. Len(syms) :
        /\ syms[i] \in PhysEntries => syms'[i] \in PhysEntries
        /\ syms[i] \in ImplicitEntries => syms'[i] \in ImplicitEntries
        /\ syms[i] \in TypeEntries => syms'[i] \in TypeEntries
        /\ syms[i] \in LabelEntries => syms'[i] \in LabelEntries
  BY <1>6 DEF PhysEntries, ImplicitEntries, TypeEntries, LabelEntries
<1>8. /\ FiledIn(names.phys, names.shadowed, syms', PhysEntries)
      /\ FiledIn(names.implicits, names.shadowed, syms', ImplicitEntries)
      /\ FiledIn(names.types, names.shadowed, syms', TypeEntries)
      /\ FiledIn(names.labels, names.shadowed, syms', LabelEntries)
  <2>1. ASSUME NEW map, NEW E, FiledIn(map, names.shadowed, syms, E),
               \A i \in 1 .. Len(syms) : syms[i] \in E => syms'[i] \in E
        PROVE  FiledIn(map, names.shadowed, syms', E)
    BY <1>4, <1>6, <2>1 DEF FiledIn
  <2>2. /\ FiledIn(names.phys, names.shadowed, syms, PhysEntries)
        /\ FiledIn(names.implicits, names.shadowed, syms, ImplicitEntries)
        /\ FiledIn(names.types, names.shadowed, syms, TypeEntries)
        /\ FiledIn(names.labels, names.shadowed, syms, LabelEntries)
    BY <1>2 DEF NamesOK
  <2> QED
    BY <1>7, <2>1, <2>2
<1>9. \A i \in 1 .. Len(syms) : Held(names, syms'[i]) = Held(names, syms[i])
  BY <1>6 DEF Held
<1>10. NamesOK(names, syms')
  BY <1>2, <1>4, <1>6, <1>8, <1>9 DEF NamesOK
<1> QED
  BY <1>1, <1>4, <1>6, <1>10 DEF NameInv

LEMMA NameNext ==
  ASSUME ScopeInv, NameInv, [Next]_vars
  PROVE  NameInv'
<1>1. CASE PushScope
  <2>1. names' = names /\ syms' = syms /\ tree'.n = tree.n + 1 /\ tree.n \in Nat
    BY <1>1, TreeIs, Scopes DEF PushScope, ScopeInv
  <2>2. \A i \in 1 .. Len(syms) : syms[i].scope \in Nat
    BY EntriesAre, Scopes DEF NameInv, NamesOK
  <2> QED
    BY <2>1, <2>2 DEF NameInv
<1>2. CASE \E s \in Scope, f \in Sym : SetAssoc(s, f)
  <2>1. names' = names /\ syms' = syms /\ tree'.n = tree.n
    BY <1>2, TreeIs DEF SetAssoc, ScopeInv
  <2> QED
    BY <2>1 DEF NameInv
<1>3. CASE PopScope \/ Reset \/ Replay \/ UNCHANGED vars
  BY <1>3 DEF PopScope, Reset, Replay, building, vars, NameInv
<1>4. CASE Insert(walker.current)
  BY <1>4, InsertNames
<1>5. CASE \E i \in Sym : InsertAlias(walker.current, i)
  BY <1>5, AliasNames
<1>6. CASE \E f \in Sym, sig \in Signatures, link \in Linkages : Define(f, sig, link)
  BY <1>6, DefineNames
<1> QED
  BY <1>1, <1>2, <1>3, <1>4, <1>5, <1>6 DEF Next

(***************************************************************************)
(* The theorems                                                            *)
(***************************************************************************)

LEMMA ScopeNext ==
  ASSUME ScopeInv, [Next]_vars
  PROVE  ScopeInv'
<1>1. CASE PushScope
  BY <1>1, PushScopes
<1>2. CASE PopScope
  BY <1>2, PopScopes
<1>3. CASE Reset
  BY <1>3, ResetScopes
<1>4. CASE \E s \in Scope, f \in Sym : SetAssoc(s, f)
  BY <1>4, AssocScopes
<1>5. CASE Replay
  BY <1>5, ReplayScopes
<1>6. CASE UNCHANGED << bound, tree, walker, resets, visits, reader, pos >>
  BY <1>6 DEF ScopeInv
<1>7. CASE Insert(walker.current)
  <2>1. ASSUME NEW map, NEW x, NEW s, NEW e, AddSymbol(map, x, s, e)
        PROVE  UNCHANGED << bound, tree, walker, resets, visits, reader, pos >>
    BY <2>1 DEF AddSymbol
  <2>2. \E map, x, e : AddSymbol(map, x, walker.current, e)
    <3>1. PICK x \in Names :
            \/ InsertVar(walker.current, x)
            \/ InsertImplicit(walker.current, x)
            \/ InsertType(walker.current, x)
            \/ InsertLabel(walker.current, x)
            \/ \E sig \in Signatures, link \in Linkages, body \in BOOLEAN :
                 InsertNewFunc(walker.current, x, sig, link, body)
      BY <1>7 DEF Insert
    <3>2. CASE InsertVar(walker.current, x)
      BY <3>2, Zenon DEF InsertVar
    <3>3. CASE InsertImplicit(walker.current, x)
      BY <3>3, Zenon DEF InsertImplicit
    <3>4. CASE InsertType(walker.current, x)
      BY <3>4, Zenon DEF InsertType
    <3>5. CASE InsertLabel(walker.current, x)
      BY <3>5, Zenon DEF InsertLabel
    <3>6. CASE \E sig \in Signatures, link \in Linkages, body \in BOOLEAN :
                 InsertNewFunc(walker.current, x, sig, link, body)
      BY <3>6, Zenon DEF InsertNewFunc
    <3> QED
      BY <3>1, <3>2, <3>3, <3>4, <3>5, <3>6
  <2>3. UNCHANGED << bound, tree, walker, resets, visits, reader, pos >>
    BY <2>1, <2>2
  <2> QED
    BY <1>6, <2>3
<1>8. CASE \E i \in Sym : InsertAlias(walker.current, i)
  BY <1>6, <1>8 DEF InsertAlias
<1>9. CASE \E f \in Sym, sig \in Signatures, link \in Linkages : Define(f, sig, link)
  BY <1>6, <1>9 DEF Define
<1>10. CASE UNCHANGED vars
  BY <1>6, <1>10 DEF vars
<1> QED
  BY <1>1, <1>2, <1>3, <1>4, <1>5, <1>7, <1>8, <1>9, <1>10 DEF Next

LEMMA InitScopes ==
  ASSUME Init
  PROVE  ScopeInv
<1>1. /\ bound \in Bounds /\ resets = 0 /\ pos = 0 /\ visits = << >>
      /\ reader = NewWalker /\ walker = NewWalker
      /\ tree = [n |-> 1, outer |-> [s \in Scope |-> None],
                 nested |-> [s \in Scope |-> << >>], assoc |-> [s \in Scope |-> None]]
  BY DEF Init
<1>2. /\ tree.n = 1 /\ tree.outer = [s \in Scope |-> None]
      /\ tree.nested = [s \in Scope |-> << >>] /\ tree.assoc = [s \in Scope |-> None]
  BY <1>1
<1>3. tree \in Trees
  <2>1. << >> \in Seq(Scope) /\ 1 \in Scope
    BY EmptySeq, Scopes
  <2> QED
    BY <1>1, <2>1 DEF Trees
<1>4. IsTree(tree)
  <2>1. tree.outer[1] = None /\ tree.nested[1] = << >> /\ Len(tree.nested[1]) = 0
    BY <1>2, Scopes
  <2>2. 2 .. tree.n = {} /\ \A s \in 1 .. tree.n : s = 1
    BY <1>2
  <2>3. \A s \in Scope : tree.outer[s] = None /\ tree.nested[s] = << >> /\ tree.assoc[s] = None
    BY <1>2
  <2>4. \A s \in 1 .. tree.n :
          /\ Len(tree.nested[s]) < tree.n
          /\ \A i \in 1 .. Len(tree.nested[s]) :
               tree.nested[s][i] \in 2 .. tree.n /\ tree.outer[tree.nested[s][i]] = s
          /\ \A i, j \in 1 .. Len(tree.nested[s]) : i < j => tree.nested[s][i] < tree.nested[s][j]
    BY <1>2, <2>1, <2>2
  <2> QED
    BY <2>1, <2>2, <2>3, <2>4 DEF IsTree, Global
<1>5. InTree(tree, NewWalker) /\ OnPath(tree, NewWalker)
  BY <1>3, <1>4, NewWalkerIs
<1>6. /\ NewWalker.current = 1 /\ NewWalker.idx = 0 /\ NewWalker.prevs = << >>
      /\ PathsIn(tree.outer)[1] = << >> /\ Len(tree.nested[1]) = 0
  BY <1>2, <1>3, <1>4, PathOf, Scopes DEF NewWalker, Global
<1>7. Stands(tree, walker)
  <2>1. Len(PathsIn(tree.outer)[1]) = 0
    BY <1>6
  <2> QED
    BY <1>1, <1>6, <2>1 DEF Stands
<1>8. Len(visits) = 0 /\ visits \in Seq(Scope)
  BY <1>1, EmptySeq
<1>9. Noted(tree, walker, visits)
  BY <1>1, <1>2, <1>6, <1>8 DEF Noted, Followed, At, Global
<1>10. ReadAt(tree, visits, reader, pos)
  BY <1>1, <1>3, <1>4, ReadNone
<1> QED
  BY <1>1, <1>3, <1>4, <1>5, <1>7, <1>8, <1>9, <1>10 DEF ScopeInv

LEMMA InitNames ==
  ASSUME Init
  PROVE  NameInv
<1>1. /\ syms = << >> /\ tree.n = 1
      /\ names = [phys |-> NoNames, implicits |-> NoNames, types |-> NoNames,
                  labels |-> NoNames, shadowed |-> [s \in Scope |-> {}]]
  BY DEF Init
<1>2. NoNames \in Maps /\ \A s \in Scope, x \in Names : NoNames[s][x] = None
  BY DEF NoNames, Maps
<1>3. /\ names.phys = NoNames /\ names.implicits = NoNames /\ names.types = NoNames
      /\ names.labels = NoNames /\ names.shadowed = [s \in Scope |-> {}]
  BY <1>1
<1>4. names \in NameMaps
  BY <1>1, <1>2 DEF NameMaps
<1>5. Len(syms) = 0 /\ syms \in Seq(Entry)
  BY <1>1, EmptySeq
<1> HIDE DEF NoNames
<1>6. NamesOK(names, syms)
  BY <1>2, <1>3, <1>4, <1>5, Scopes DEF NamesOK, FiledIn
<1> QED
  BY <1>5, <1>6 DEF NameInv

\* The scopes, the walkers and the visits stay as they should be: the tree is
\* one, the builder knows its way back and stands behind what it has made, and
\* the reader is where the builder was at that point.
THEOREM ScopesInOrder == Spec => []ScopeInv
<1>1. Init => ScopeInv
  BY InitScopes
<1>2. ScopeInv /\ [Next]_vars => ScopeInv'
  BY ScopeNext
<1> QED
  BY <1>1, <1>2, PTL DEF Spec

\* Every symbol is in the map its kind says, under its name, in its scope, or
\* among the symbols that scope has shadowed; and the maps hold nothing else.
THEOREM NamesInOrder == Spec => []NameInv
<1>1. Init => NameInv
  BY InitNames
<1>2. ScopeInv /\ NameInv /\ [Next]_vars => NameInv'
  BY NameNext
<1> QED
  BY <1>1, <1>2, ScopesInOrder, PTL DEF Spec

\* A symbol is in its map or among the shadowed, not both.
LEMMA HeldOrHidden ==
  ASSUME NameInv, NEW i \in 1 .. Len(syms)
  PROVE  /\ syms[i] \in Entry
         /\ (Held(names, syms[i]) = i) # (i \in names.shadowed[syms[i].scope])
<1>1. /\ NamesOK(names, syms) /\ syms \in Seq(Entry)
      /\ i \in Nat /\ i # None
  BY DEF NameInv, NamesOK, None
<1>2. syms[i] \in Entry /\ syms[i].scope \in Scope /\ syms[i].name \in Names
  BY <1>1, EntriesAre
<1>3. Held(names, syms[i]) = i => i \notin names.shadowed[syms[i].scope]
  BY <1>1, <1>2 DEF Held, NamesOK, FiledIn
<1>4. i \in names.shadowed[syms[i].scope] \/ Held(names, syms[i]) = i
  BY <1>1 DEF NamesOK
<1> QED
  BY <1>2, <1>3, <1>4

\* No symbol is ever dropped: each is owned by its scope, in the map of its
\* kind or among the shadowed, and not by both.
THEOREM Owned == Spec => []SymbolsOwned
<1>1. NameInv => SymbolsOwned
  <2> SUFFICES ASSUME NameInv, NEW i \in DOMAIN syms
               PROVE  LET s == syms[i].scope
                          x == syms[i].name
                          map == CASE syms[i].kind = "type"  -> "types"
                                   [] syms[i].kind = "label" -> "labels"
                                   [] syms[i].implicit       -> "implicits"
                                   [] OTHER                  -> "phys"
                      IN  (names[map][s][x] = i) # (i \in names.shadowed[s])
    BY DEF SymbolsOwned
  <2>1. /\ NamesOK(names, syms) /\ i \in 1 .. Len(syms)
    BY DEF NameInv, NamesOK
  <2>2. /\ syms[i] \in Entry
        /\ (Held(names, syms[i]) = i) # (i \in names.shadowed[syms[i].scope])
        /\ syms[i].implicit => syms[i].kind = "var"
    BY <2>1, HeldOrHidden DEF NamesOK
  <2>3. CASE syms[i].kind = "type"
    BY <2>2, <2>3 DEF Held
  <2>4. CASE syms[i].kind = "label"
    BY <2>2, <2>4 DEF Held
  <2>5. CASE syms[i].kind = "var" /\ syms[i].implicit
    BY <2>2, <2>5 DEF Held
  <2>6. CASE syms[i].kind # "type" /\ syms[i].kind # "label" /\ ~syms[i].implicit
    BY <2>2, <2>6 DEF Held
  <2> QED
    BY <2>2, <2>3, <2>4, <2>5, <2>6
<1> QED
  BY <1>1, NamesInOrder, PTL

\* Builder and reader go through the same scopes in the order of the source:
\* each knows its way back, the builder enters the scope it has made, and the
\* reader finds a nested scope whenever the builder had entered one.
THEOREM Follows == Spec => []WalkersFollow
<1>1. ScopeInv /\ NameInv => TypeOK
  <2> SUFFICES ASSUME ScopeInv, NameInv PROVE TypeOK
    OBVIOUS
  <2>1. /\ bound \in Bounds /\ tree \in Trees
        /\ walker \in Walkers /\ reader \in Walkers
        /\ resets \in Nat /\ pos \in Nat /\ visits \in Seq(Scope)
    BY DEF ScopeInv, InTree, ReadAt
  <2>2. /\ names \in NameMaps /\ syms \in Seq(Entry) /\ DOMAIN syms = 1 .. Len(syms)
    BY DEF NameInv, NamesOK
  <2>3. ASSUME NEW i \in 1 .. Len(syms)
        PROVE  syms[i].kind \in Kinds /\ syms[i].scope \in 1 .. tree.n
    <3>1. /\ syms[i].kind \in Kinds /\ syms[i].scope \in Nat /\ syms[i].scope >= 1
          /\ syms[i].scope <= tree.n
      BY <2>2, EntriesAre, Scopes DEF NameInv
    <3> QED
      BY <2>1, <3>1, TreeIs DEF ScopeInv
  <2> QED
    BY <2>1, <2>2, <2>3 DEF TypeOK, Trees, NameMaps
<1>2. ScopeInv => WalkersOnPath
  <2> SUFFICES ASSUME ScopeInv PROVE WalkersOnPath
    OBVIOUS
  <2>1. /\ tree \in Trees /\ IsTree(tree)
        /\ InTree(tree, walker) /\ InTree(tree, reader) /\ OnPath(tree, reader)
        /\ resets = 0 => OnPath(tree, walker) /\ Stands(tree, walker)
    BY DEF ScopeInv, ReadAt
  <2>2. ASSUME NEW w, InTree(tree, w)
        PROVE  /\ DOMAIN Path(w.current) = 1 .. Len(Path(w.current))
               /\ DOMAIN w.prevs = 1 .. Len(w.prevs)
    <3>1. w \in Walkers /\ w.current \in 1 .. tree.n
      BY <2>1, <2>2, WalkerIs, TreeIs DEF InTree
    <3>2. PathsIn(tree.outer)[w.current] \in Seq(Scope)
      BY <2>1, <3>1, PathIs
    <3>3. w.prevs \in Seq(1 .. MaxScopes)
      BY <3>1, WalkerIs
    <3> QED
      BY <3>2, <3>3 DEF Path
  <2>3. ASSUME NEW w \in {walker, reader}, resets = 0
        PROVE  /\ Len(w.prevs) = Len(Path(w.current))
               /\ \A k \in DOMAIN Path(w.current) :
                    tree.nested[tree.outer[Path(w.current)[k]]][w.prevs[k]] = Path(w.current)[k]
    <3>1. OnPath(tree, w) /\ InTree(tree, w)
      BY <2>1, <2>3
    <3> QED
      BY <2>2, <3>1 DEF OnPath, Path
  <2>4. ASSUME resets = 0
        PROVE  /\ walker.idx = Len(tree.nested[walker.current])
               /\ \A k \in DOMAIN walker.prevs :
                    walker.prevs[k] = Len(tree.nested[tree.outer[Path(walker.current)[k]]])
    <3>1. /\ OnPath(tree, walker) /\ Stands(tree, walker)
          /\ DOMAIN walker.prevs = 1 .. Len(walker.prevs)
      BY <2>1, <2>2, <2>4
    <3> QED
      BY <3>1 DEF OnPath, Stands, Path
  <2> QED
    BY <2>3, <2>4 DEF WalkersOnPath
<1>3. ScopeInv => ReplayFollows
  <2> SUFFICES ASSUME ScopeInv, pos > 0
               PROVE  /\ reader.current = visits[pos]
                      /\ pos < Len(visits) /\ visits[pos + 1] > visits[pos]
                           => CanEnter(tree, reader)
    BY DEF ReplayFollows
  <2>1. /\ tree \in Trees /\ IsTree(tree) /\ visits \in Seq(Scope) /\ pos \in Nat
        /\ ReadAt(tree, visits, reader, pos) /\ Followed(tree, visits)
        /\ pos \in 0 .. Len(visits) /\ At(visits, pos) = visits[pos]
    BY DEF ScopeInv, Noted, At
  <2>2. reader.current = visits[pos]
    BY <2>1 DEF ReadAt
  <2>3. pos < Len(visits) /\ visits[pos + 1] > visits[pos] => CanEnter(tree, reader)
    BY <2>1, ReadDown
  <2> QED
    BY <2>2, <2>3
<1> QED
  BY <1>1, <1>2, <1>3, ScopesInOrder, NamesInOrder, PTL DEF WalkersFollow

(***************************************************************************)
(* Looking outwards                                                        *)
(***************************************************************************)

\* The scopes around s, itself included.
Around(t, s) ==
  {PathsIn(t.outer)[s][i] : i \in 1 .. Len(PathsIn(t.outer)[s])} \cup {Global}

LEMMA AroundIs ==
  ASSUME NEW t \in Trees, IsTree(t)
  PROVE  /\ Around(t, 1) = {1}
         /\ \A s \in 2 .. t.n : Around(t, s) = Around(t, t.outer[s]) \cup {s}
         /\ \A s \in 1 .. t.n : \A a \in Around(t, s) : a \in 1 .. s
<1>1. Around(t, 1) = {1}
  <2>1. Len(PathsIn(t.outer)[1]) = 0
    BY PathOf
  <2> QED
    BY <2>1 DEF Around, Global
<1>2. ASSUME NEW s \in 2 .. t.n
      PROVE  Around(t, s) = Around(t, t.outer[s]) \cup {s}
  <2> DEFINE p == PathsIn(t.outer)[t.outer[s]]
             q == PathsIn(t.outer)[s]
  <2>1. q = Append(p, s)
    BY PathOf
  <2>2. p \in Seq(Scope) /\ Len(p) \in Nat /\ s \in Scope
    <3>1. t.outer[s] \in 1 .. t.n
      <4>1. t.outer[s] \in 1 .. s - 1 /\ t.n \in Nat
        BY TreeIs DEF IsTree
      <4> QED
        BY <4>1
    <3> QED
      BY <3>1, PathIs, TreeIs
  <2> HIDE DEF p, q
  <2>3. /\ Len(q) = Len(p) + 1 /\ q[Len(p) + 1] = s
        /\ \A i \in 1 .. Len(p) : q[i] = p[i]
    BY <2>1, <2>2, AppendProperties
  <2>4. \A i \in 1 .. Len(p) + 1 : i \in 1 .. Len(p) \/ i = Len(p) + 1
    BY <2>2
  <2>5. (1 .. Len(p)) \subseteq 1 .. Len(p) + 1 /\ Len(p) + 1 \in 1 .. Len(p) + 1
    BY <2>2
  <2>6. {q[i] : i \in 1 .. Len(q)} = {p[i] : i \in 1 .. Len(p)} \cup {s}
    BY <2>3, <2>4, <2>5
  <2> QED
    BY <2>6 DEF Around, p, q
<1>3. ASSUME NEW s \in 1 .. t.n, NEW a \in Around(t, s)
      PROVE  a \in 1 .. s
  <2>1. CASE a = Global
    BY <2>1, TreeIs DEF Global
  <2>2. CASE a # Global
    <3>1. PICK i \in 1 .. Len(PathsIn(t.outer)[s]) : a = PathsIn(t.outer)[s][i]
      BY <2>2 DEF Around
    <3>2. a \in 2 .. s
      BY <3>1, PathIs
    <3> QED
      BY <3>2
  <2> QED
    BY <2>1, <2>2
<1> QED
  BY <1>1, <1>2, <1>3

\* Induction from a scope to those nested in it.
LEMMA Inwards ==
  ASSUME NEW t \in Trees, IsTree(t), NEW S, 1 \in S,
         \A s \in 2 .. t.n : t.outer[s] \in S => s \in S
  PROVE  \A s \in 1 .. t.n : s \in S
<1> DEFINE T == {k \in 0 .. t.n : \A s \in 1 .. k : s \in S}
<1>1. t.n \in Nat
  BY TreeIs
<1>2. 0 \in T
  BY <1>1
<1>3. ASSUME NEW k \in 0 .. t.n, k < t.n, k \in T PROVE k + 1 \in T
  <2>1. k + 1 \in S
    <3>1. CASE k = 0
      BY <3>1
    <3>2. CASE k # 0
      <4>1. k + 1 \in 2 .. t.n /\ (k + 1) - 1 = k
        BY <1>1, <1>3, <3>2
      <4>2. t.outer[k + 1] \in 1 .. k
        BY <4>1 DEF IsTree
      <4> QED
        BY <1>3, <4>1, <4>2
    <3> QED
      BY <3>1, <3>2
  <2>2. \A s \in 1 .. k + 1 : s \in 1 .. k \/ s = k + 1
    BY <1>1
  <2> QED
    BY <1>1, <1>3, <2>1, <2>2
<1>4. \A k \in 0 .. t.n : k \in T
  <2> HIDE DEF T
  <2> QED
    BY <1>1, <1>2, <1>3, Induction
<1> QED
  BY <1>1, <1>4

\* Around a scope that is around s are the scopes around s, up to it.
LEMMA AroundNests ==
  ASSUME NEW t \in Trees, IsTree(t)
  PROVE  \A s \in 1 .. t.n : \A a \in Around(t, s) :
           Around(t, a) = {k \in Around(t, s) : k <= a}
<1> DEFINE S == {s \in 1 .. t.n : \A a \in Around(t, s) :
                   Around(t, a) = {k \in Around(t, s) : k <= a}}
<1>1. 1 \in S
  BY AroundIs, TreeIs, Scopes
<1>2. ASSUME NEW s \in 2 .. t.n, t.outer[s] \in S PROVE s \in S
  <2> DEFINE o == t.outer[s]
  <2>1. /\ Around(t, s) = Around(t, o) \cup {s}
        /\ o \in 1 .. s - 1 /\ s \in 1 .. t.n /\ t.n \in Nat
    <3>1. t.n \in Nat
      BY TreeIs
    <3>2. o \in 1 .. s - 1
      BY DEF IsTree
    <3> QED
      BY <3>1, <3>2, AroundIs
  <2>2. /\ \A k \in Around(t, s) : k \in 1 .. s
        /\ \A k \in Around(t, o) : k \in 1 .. o
    <3>1. o \in 1 .. t.n
      BY <2>1
    <3> QED
      BY <2>1, <3>1, AroundIs
  <2>3. \A a \in Around(t, o) : Around(t, a) = {k \in Around(t, o) : k <= a}
    BY <1>2
  <2> HIDE DEF o
  <2>4. ASSUME NEW a \in Around(t, s) PROVE Around(t, a) = {k \in Around(t, s) : k <= a}
    <3>1. CASE a = s
      <4>1. \A k \in Around(t, s) : k <= s
        BY <2>1, <2>2
      <4> QED
        BY <3>1, <4>1
    <3>2. CASE a \in Around(t, o)
      <4>1. ~ (s <= a)
        BY <2>1, <2>2, <3>2
      <4>2. Around(t, a) = {k \in Around(t, o) : k <= a}
        BY <2>3, <3>2
      <4> QED
        BY <2>1, <4>1, <4>2
    <3> QED
      BY <2>1, <3>1, <3>2
  <2> QED
    BY <2>1, <2>4
<1> HIDE DEF S
<1>3. \A s \in 1 .. t.n : s \in S
  BY <1>1, <1>2, Inwards
<1> QED
  BY <1>3 DEF S

\* The search of Outwards, one step of it.
Search(o, S, g, k) == IF k \in S \cup {None} THEN k ELSE g[o[k]]

OutwardsIn(o, S) ==
  LET from[k \in 0 .. MaxScopes] == IF k \in S \cup {None} THEN k ELSE from[o[k]]
  IN  from

LEMMA SearchesAre ==
  ASSUME NEW o, NEW S, \A s \in Scope : o[s] \in 0 .. s - 1
  PROVE  \A k \in 0 .. MaxScopes : OutwardsIn(o, S)[k] = Search(o, S, OutwardsIn(o, S), k)
<1> DEFINE Solves(g, n) == g = [k \in 0 .. n |-> Search(o, S, g, k)]
<1> DEFINE T == {n \in 0 .. MaxScopes : \E g : Solves(g, n)}
<1>1. MaxScopes \in Nat /\ \A n \in 0 .. MaxScopes : n \in Nat
  BY Scopes
<1>2. 0 \in T
  <2>1. Solves([k \in 0 .. 0 |-> 0], 0)
    <3>1. \A k \in 0 .. 0 : k = 0 /\ k \in S \cup {None}
      BY DEF None
    <3> QED
      BY <3>1 DEF Search
  <2>2. \E g : Solves(g, 0)
    <3> HIDE DEF Solves
    <3> QED
      BY <2>1
  <2> HIDE DEF Solves
  <2> QED
    BY <1>1, <2>2
<1>3. ASSUME NEW n \in 0 .. MaxScopes, n < MaxScopes, n \in T PROVE n + 1 \in T
  <2>1. PICK g : Solves(g, n)
    BY <1>3
  <2> DEFINE h == [k \in 0 .. n + 1 |-> IF k = n + 1 THEN Search(o, S, g, k) ELSE g[k]]
  <2>2. \A k \in 0 .. n : h[k] = g[k]
    OBVIOUS
  <2>3. ASSUME NEW k \in 0 .. n + 1
        PROVE  h[k] = Search(o, S, h, k)
    <3>1. k = 0 \/ o[k] \in 0 .. n
      <4>1. k = 0 \/ k \in Scope
        BY <1>1, <1>3 DEF Scope
      <4>2. k \in Nat /\ n \in Nat
        BY <1>1
      <4>3. k # 0 => o[k] \in 0 .. k - 1
        BY <4>1
      <4> QED
        BY <4>2, <4>3
    <3>2. Search(o, S, h, k) = Search(o, S, g, k)
      BY <2>2, <3>1 DEF Search, None
    <3>3. CASE k = n + 1
      BY <3>2, <3>3
    <3>4. CASE k # n + 1
      <4>1. k \in 0 .. n
        BY <3>4
      <4>2. g[k] = Search(o, S, g, k)
        BY <2>1, <4>1
      <4> QED
        BY <2>2, <3>2, <4>1, <4>2
    <3> QED
      BY <3>3, <3>4
  <2>4. Solves(h, n + 1)
    BY <2>3
  <2>5. \E x : Solves(x, n + 1)
    <3> HIDE DEF Solves, h
    <3> QED
      BY <2>4
  <2> QED
    BY <1>1, <1>3, <2>5
<1>4. \A n \in 0 .. MaxScopes : n \in T
  <2> HIDE DEF T
  <2> QED
    BY <1>1, <1>2, <1>3, Induction
<1>5. \E g : Solves(g, MaxScopes)
  BY <1>1, <1>4
<1>6. OutwardsIn(o, S) = [k \in 0 .. MaxScopes |-> Search(o, S, OutwardsIn(o, S), k)]
  BY <1>5 DEF OutwardsIn, Search
<1> QED
  BY <1>6

\* What the search finds: the innermost scope of S around s.
LEMMA Finds ==
  ASSUME NEW t \in Trees, IsTree(t), NEW S, NEW s \in 1 .. t.n
  PROVE  LET at == OutwardsIn(t.outer, S)[s]
         IN  \/ at = None /\ S \cap Around(t, s) = {}
             \/ /\ at \in S \cap Around(t, s)
                /\ \A k \in S \cap Around(t, s) : k <= at
<1> DEFINE f == OutwardsIn(t.outer, S)
           Found(r) == \/ f[r] = None /\ S \cap Around(t, r) = {}
                       \/ /\ f[r] \in S \cap Around(t, r)
                          /\ \A k \in S \cap Around(t, r) : k <= f[r]
           T == {r \in 1 .. t.n : Found(r)}
<1>1. \A k \in 0 .. MaxScopes : f[k] = Search(t.outer, S, f, k)
  <2>1. \A r \in Scope : t.outer[r] \in 0 .. r - 1
    BY TreeIs
  <2> QED
    BY <2>1, SearchesAre
<1>2. t.n \in Nat /\ t.n <= MaxScopes /\ MaxScopes \in Nat /\ t.n >= 1
  BY TreeIs, Scopes
<1> HIDE DEF f
<1>3. \A r \in 1 .. t.n : f[r] = IF r \in S THEN r ELSE f[t.outer[r]]
  BY <1>1, <1>2 DEF Search, None
<1>4. f[0] = 0
  BY <1>1, <1>2 DEF Search, None
<1>5. 1 \in T
  <2>1. Around(t, 1) = {1} /\ t.outer[1] = 0
    BY AroundIs, TreeIs
  <2>2. 1 \in 1 .. t.n
    BY <1>2
  <2>3. f[1] = IF 1 \in S THEN 1 ELSE 0
    BY <1>3, <1>4, <2>1, <2>2
  <2> QED
    BY <2>1, <2>2, <2>3 DEF None
<1>6. ASSUME NEW r \in 2 .. t.n, t.outer[r] \in T PROVE r \in T
  <2>1. r \in 1 .. t.n /\ Around(t, r) = Around(t, t.outer[r]) \cup {r}
    BY <1>2, AroundIs
  <2>2. \A k \in Around(t, r) : k \in 1 .. r
    BY <2>1, AroundIs
  <2>3. CASE r \in S
    <3>1. f[r] = r
      BY <1>3, <2>1, <2>3
    <3>2. \A k \in Around(t, r) : k <= r
      BY <2>2
    <3> QED
      BY <2>1, <2>3, <3>1, <3>2
  <2>4. CASE r \notin S
    <3>1. f[r] = f[t.outer[r]]
      BY <1>3, <2>1, <2>4
    <3>2. S \cap Around(t, r) = S \cap Around(t, t.outer[r])
      BY <2>1, <2>4
    <3>3. Found(t.outer[r])
      BY <1>6
    <3> QED
      BY <2>1, <3>1, <3>2, <3>3
  <2> QED
    BY <2>3, <2>4
<1> HIDE DEF T
<1>7. \A r \in 1 .. t.n : r \in T
  BY <1>5, <1>6, Inwards
<1> QED
  BY <1>7 DEF T, f

(***************************************************************************)
(* Names are resolved lexically                                            *)
(***************************************************************************)

LEMMA AncestorsAre ==
  ASSUME ScopeInv, NEW s \in 1 .. tree.n
  PROVE  /\ Ancestors(s) = Around(tree, s)
         /\ \A a \in Ancestors(s) : a \in 1 .. tree.n /\ a \in Scope /\ a \in Nat /\ a # None
<1>1. /\ tree \in Trees /\ IsTree(tree) /\ tree.n \in Nat
  BY TreeIs DEF ScopeInv
<1>2. DOMAIN PathsIn(tree.outer)[s] = 1 .. Len(PathsIn(tree.outer)[s])
  <2>1. PathsIn(tree.outer)[s] \in Seq(Scope)
    BY <1>1, PathIs
  <2> QED
    BY <2>1
<1>3. Ancestors(s) = Around(tree, s)
  BY <1>2 DEF Ancestors, Path, Around
<1>4. ASSUME NEW a \in Around(tree, s)
      PROVE  a \in 1 .. tree.n /\ a \in Scope /\ a \in Nat /\ a # None
  <2>1. a \in 1 .. s
    BY <1>1, AroundIs
  <2>2. a \in 1 .. tree.n
    BY <1>1, <2>1
  <2> QED
    BY <1>1, <2>2, TreeIs DEF None
<1> QED
  BY <1>3, <1>4

LEMMA OutwardsFinds ==
  ASSUME ScopeInv, NEW S, NEW s \in 1 .. tree.n
  PROVE  LET at == Outwards(s, S)
         IN  \/ at = None /\ S \cap Ancestors(s) = {}
             \/ /\ at \in S /\ at \in Ancestors(s) /\ at # None
                /\ \A k \in S \cap Ancestors(s) : k <= at
<1>1. tree \in Trees /\ IsTree(tree)
  BY DEF ScopeInv
<1>2. Outwards(s, S) = OutwardsIn(tree.outer, S)[s]
  BY DEF Outwards, OutwardsIn
<1>3. Ancestors(s) = Around(tree, s) /\ \A a \in Ancestors(s) : a # None
  BY AncestorsAre
<1> QED
  BY <1>1, <1>2, <1>3, Finds

\* What a scope holds under a name, and what can be found there.
LEMMA PhysicalIs ==
  ASSUME ScopeInv, NameInv, NEW s \in 1 .. tree.n, NEW x \in Names, NEW i
  PROVE  /\ i \in Physical(s, x) =>
              /\ i # None /\ i \in 1 .. Len(syms) /\ syms[i].scope \in Ancestors(s)
              /\ syms[i].implicit \in BOOLEAN
              /\ syms[i].implicit => syms[i].kind = "var"
              /\ i = IF syms[i].implicit THEN names.implicits[syms[i].scope][x]
                                         ELSE names.phys[syms[i].scope][x]
         /\ \A a \in Ancestors(s) :
              i # None /\ i = names.phys[a][x] =>
                i \in Physical(s, x) /\ syms[i].scope = a /\ ~syms[i].implicit
         /\ \A a \in Ancestors(s) :
              i # None /\ i = names.implicits[a][x] =>
                i \in Physical(s, x) /\ syms[i].scope = a /\ syms[i].implicit
<1>1. /\ NamesOK(names, syms) /\ syms \in Seq(Entry) /\ DOMAIN syms = 1 .. Len(syms)
  BY DEF NameInv, NamesOK
<1>2. \A a \in Ancestors(s) : a \in Scope
  BY AncestorsAre
<1>3. ASSUME i \in Physical(s, x)
      PROVE  /\ i # None /\ i \in 1 .. Len(syms) /\ syms[i].scope \in Ancestors(s)
             /\ syms[i].implicit \in BOOLEAN
             /\ syms[i].implicit => syms[i].kind = "var"
             /\ i = IF syms[i].implicit THEN names.implicits[syms[i].scope][x]
                                        ELSE names.phys[syms[i].scope][x]
  <2>1. /\ i \in 1 .. Len(syms) /\ syms[i].kind \in {"var", "func", "alias"}
        /\ syms[i].name = x /\ syms[i].scope \in Ancestors(s)
        /\ i \notin names.shadowed[syms[i].scope]
    BY <1>1, <1>3 DEF Physical
  <2>2. Held(names, syms[i]) = i /\ syms[i].implicit \in BOOLEAN
    BY <2>1, HeldOrHidden, EntryIs
  <2>3. syms[i].implicit => syms[i].kind = "var"
    BY <1>1, <2>1 DEF NamesOK
  <2>4. i = IF syms[i].implicit THEN names.implicits[syms[i].scope][x]
                                ELSE names.phys[syms[i].scope][x]
    BY <2>1, <2>2 DEF Held
  <2>5. i # None
    BY <2>1 DEF None
  <2> QED
    BY <2>1, <2>2, <2>3, <2>4, <2>5
<1>4. ASSUME NEW a \in Ancestors(s), i # None, i = names.phys[a][x]
      PROVE  i \in Physical(s, x) /\ syms[i].scope = a /\ ~syms[i].implicit
  <2>1. /\ i \in 1 .. Len(syms) /\ syms[i] \in PhysEntries
        /\ syms[i].name = x /\ syms[i].scope = a /\ i \notin names.shadowed[a]
    BY <1>1, <1>2, <1>4 DEF NamesOK, FiledIn
  <2>2. syms[i].kind \in {"var", "func", "alias"} /\ ~syms[i].implicit
    BY <2>1 DEF PhysEntries, Physicals
  <2> QED
    BY <1>1, <2>1, <2>2 DEF Physical
<1>5. ASSUME NEW a \in Ancestors(s), i # None, i = names.implicits[a][x]
      PROVE  i \in Physical(s, x) /\ syms[i].scope = a /\ syms[i].implicit
  <2>1. /\ i \in 1 .. Len(syms) /\ syms[i] \in ImplicitEntries
        /\ syms[i].name = x /\ syms[i].scope = a /\ i \notin names.shadowed[a]
    BY <1>1, <1>2, <1>5 DEF NamesOK, FiledIn
  <2>2. syms[i].kind \in {"var", "func", "alias"} /\ syms[i].implicit
    BY <2>1 DEF ImplicitEntries
  <2> QED
    BY <1>1, <2>1, <2>2 DEF Physical
<1> QED
  BY <1>3, <1>4, <1>5

\* Of the four lookups the first that finds something counts.
LEMMA LookupIs ==
  ASSUME NEW s, NEW x
  PROVE  /\ LookupVar(s, x) # None => Lookup(s, x) = LookupVar(s, x)
         /\ LookupVar(s, x) = None /\ LookupFunc(s, x) # None => Lookup(s, x) = LookupFunc(s, x)
<1> DEFINE f == << LookupVar(s, x), LookupFunc(s, x), LookupType(s, x), LookupLabel(s, x) >>
           hits == {i \in 1 .. 4 : f[i] # None}
           first == CHOOSE i \in hits : \A j \in hits : i <= j
<1>1. Lookup(s, x) = IF hits = {} THEN None ELSE f[first]
  BY DEF Lookup
<1>2. f[1] = LookupVar(s, x) /\ f[2] = LookupFunc(s, x)
  OBVIOUS
<1> HIDE DEF f
<1>3. ASSUME LookupVar(s, x) # None
      PROVE  Lookup(s, x) = LookupVar(s, x)
  <2>1. 1 \in hits /\ \A j \in hits : 1 <= j
    BY <1>2, <1>3
  <2>2. \A i \in hits : (\A j \in hits : i <= j) => i = 1
    BY <2>1
  <2> HIDE DEF hits
  <2>3. first = 1
    BY <2>1, <2>2
  <2> QED
    BY <1>1, <1>2, <2>1, <2>3
<1>4. ASSUME LookupVar(s, x) = None, LookupFunc(s, x) # None
      PROVE  Lookup(s, x) = LookupFunc(s, x)
  <2>1. 2 \in hits /\ \A j \in hits : 2 <= j
    BY <1>2, <1>4
  <2>2. \A i \in hits : (\A j \in hits : i <= j) => i = 2
    BY <2>1
  <2> HIDE DEF hits
  <2>3. first = 2
    BY <2>1, <2>2
  <2> QED
    BY <1>1, <1>2, <2>1, <2>3
<1> QED
  BY <1>3, <1>4

LEMMA Wins ==
  ASSUME ScopeInv, NameInv, NEW s \in 1 .. tree.n, NEW x \in Names
  PROVE  LET all  == Physical(s, x)
             near == {i \in all : \A j \in all : syms[j].scope <= syms[i].scope}
             wins == {i \in near : syms[i].implicit => near = {i}}
         IN  IF all = {} THEN LookupVar(s, x) = None /\ LookupFunc(s, x) = None
             ELSE \E i \in wins :
                    /\ wins = {i}
                    /\ LookupVar(s, x) = OfKind(i, "var")
                    /\ ~syms[i].implicit => LookupFunc(s, x) = OfKind(i, "func")
                    /\ syms[i].kind # "alias" => Lookup(s, x) = i
<1> DEFINE all  == Physical(s, x)
           near == {i \in all : \A j \in all : syms[j].scope <= syms[i].scope}
           wins == {i \in near : syms[i].implicit => near = {i}}
           V == {k \in 1 .. tree.n : LocallyContains(k, x)}
           F == {k \in 1 .. tree.n : names.phys[k][x] # None}
           at == Outwards(s, V)
           af == Outwards(s, F)
<1>1. /\ \/ at = None /\ V \cap Ancestors(s) = {}
         \/ /\ at \in V /\ at \in Ancestors(s) /\ at # None
            /\ \A k \in V \cap Ancestors(s) : k <= at
      /\ \/ af = None /\ F \cap Ancestors(s) = {}
         \/ /\ af \in F /\ af \in Ancestors(s) /\ af # None
            /\ \A k \in F \cap Ancestors(s) : k <= af
  BY OutwardsFinds
<1>2. /\ LookupVar(s, x) = IF at = None THEN None ELSE OfKind(Get(at, x), "var")
      /\ LookupFunc(s, x) = IF af = None THEN None ELSE OfKind(names.phys[af][x], "func")
  BY DEF LookupVar, LookupFunc
<1>3. \A a \in Ancestors(s) : a \in 1 .. tree.n /\ a \in Nat
  BY AncestorsAre
<1>4. /\ \A a \in Ancestors(s) :
           a \in V <=> names.phys[a][x] # None \/ names.implicits[a][x] # None
      /\ \A a \in Ancestors(s) : a \in F <=> names.phys[a][x] # None
  BY <1>3 DEF LocallyContains
<1> HIDE DEF V, F, at, af
<1>5. ASSUME NEW i \in all PROVE syms[i].scope \in V \cap Ancestors(s)
  <2>1. /\ i # None /\ syms[i].scope \in Ancestors(s) /\ syms[i].implicit \in BOOLEAN
        /\ i = IF syms[i].implicit THEN names.implicits[syms[i].scope][x]
                                   ELSE names.phys[syms[i].scope][x]
    BY PhysicalIs
  <2> QED
    BY <1>4, <2>1
<1>6. CASE all = {}
  <2>1. \A a \in Ancestors(s) : names.phys[a][x] = None /\ names.implicits[a][x] = None
    <3>1. ASSUME NEW a \in Ancestors(s), NEW i, i = names.phys[a][x], i # None PROVE FALSE
      <4>1. i \in all
        BY <3>1, PhysicalIs
      <4> QED
        BY <1>6, <4>1
    <3>2. ASSUME NEW a \in Ancestors(s), NEW i, i = names.implicits[a][x], i # None PROVE FALSE
      <4>1. i \in all
        BY <3>2, PhysicalIs
      <4> QED
        BY <1>6, <4>1
    <3> QED
      BY <3>1, <3>2
  <2>2. at = None /\ af = None
    BY <1>1, <1>4, <2>1
  <2>3. LookupVar(s, x) = None /\ LookupFunc(s, x) = None
    BY <1>2, <2>2
  <2> QED
    BY <1>6, <2>3
<1>7. CASE all # {}
  <2> DEFINE p == names.phys[at][x]
             q == names.implicits[at][x]
             i == Get(at, x)
  <2>1. at \in V /\ at \in Ancestors(s) /\ at # None /\ \A k \in V \cap Ancestors(s) : k <= at
    BY <1>1, <1>5, <1>7
  <2>2. /\ p # None \/ q # None
        /\ p # None => p \in all /\ syms[p].scope = at /\ ~syms[p].implicit
        /\ q # None => q \in all /\ syms[q].scope = at /\ syms[q].implicit
    BY <1>4, <2>1, PhysicalIs
  <2>3. i = IF p # None THEN p ELSE q
    BY DEF Get
  <2>4. \A j \in all : syms[j].scope <= at /\ syms[j].scope \in Nat /\ syms[j].scope \in Ancestors(s)
    BY <1>3, <1>5, <2>1
  <2>5. \A j \in all : syms[j].scope = at => j = p \/ j = q
    <3>1. ASSUME NEW j \in all, syms[j].scope = at PROVE j = p \/ j = q
      <4>1. j = IF syms[j].implicit THEN names.implicits[syms[j].scope][x]
                                    ELSE names.phys[syms[j].scope][x]
        BY PhysicalIs
      <4> QED
        BY <3>1, <4>1
    <3> QED
      BY <3>1
  <2>6. \A j \in all : j # None /\ (syms[j].implicit => syms[j].kind = "var")
                        /\ syms[j].implicit \in BOOLEAN
                        /\ syms[j].kind \in {"var", "func", "alias"}
    BY PhysicalIs DEF Physical
  <2>7. /\ i \in all /\ i # None /\ syms[i].scope = at /\ at \in Nat
        /\ ~syms[i].implicit => p # None /\ i = p
    BY <1>3, <2>1, <2>2, <2>3
  <2>8. ~syms[i].implicit => LookupFunc(s, x) = OfKind(i, "func")
    <3>1. ASSUME ~syms[i].implicit PROVE af = at
      <4>1. at \in F /\ i = p
        BY <1>4, <2>1, <2>7, <3>1
      <4>2. /\ af \in F /\ af \in Ancestors(s) /\ af # None
            /\ \A k \in F \cap Ancestors(s) : k <= af
        BY <1>1, <2>1, <4>1
      <4>3. af \in V
        BY <1>4, <4>2
      <4>4. at <= af /\ af <= at /\ at \in Nat /\ af \in Nat
        BY <1>3, <2>1, <4>1, <4>2, <4>3
      <4> QED
        BY <4>4
    <3> QED
      BY <1>2, <2>1, <2>7, <3>1
  <2>9. LookupVar(s, x) = OfKind(i, "var")
    BY <1>2, <2>1
  <2> HIDE DEF all, i, p, q
  <2>10. near = {j \in all : syms[j].scope = at}
    <3>1. ASSUME NEW j \in all, syms[j].scope = at
          PROVE  \A k \in all : syms[k].scope <= syms[j].scope
      BY <2>4, <3>1
    <3>2. ASSUME NEW j \in all, \A k \in all : syms[k].scope <= syms[j].scope
          PROVE  syms[j].scope = at
      <4>1. syms[i].scope <= syms[j].scope
        BY <2>7, <3>2
      <4>2. at <= syms[j].scope /\ syms[j].scope <= at /\ syms[j].scope \in Nat
        BY <2>4, <2>7, <4>1
      <4> QED
        BY <2>7, <4>2
    <3> QED
      BY <3>1, <3>2
  <2> HIDE DEF near
  <2>11. wins = {i}
    <3>1. CASE p # None
      <4>1. i = p /\ p \in near /\ ~syms[p].implicit
        BY <2>2, <2>3, <2>10, <3>1
      <4>2. ASSUME NEW j \in near, j # p PROVE syms[j].implicit /\ near # {j}
        <5>1. j = q /\ j \in all /\ j # None
          BY <2>5, <2>6, <2>10, <4>2
        <5> QED
          BY <2>2, <4>1, <4>2, <5>1
      <4> QED
        BY <4>1, <4>2
    <3>2. CASE p = None
      <4>1. i = q /\ q \in near
        BY <2>2, <2>3, <2>10, <3>2
      <4>2. near = {q}
        BY <2>5, <2>6, <2>10, <3>2, <4>1
      <4> QED
        BY <4>1, <4>2
    <3> QED
      BY <3>1, <3>2
  <2>12. syms[i].kind # "alias" => Lookup(s, x) = i
    <3>1. CASE syms[i].kind = "var"
      <4>1. LookupVar(s, x) = i
        BY <2>7, <2>9, <3>1 DEF OfKind
      <4> QED
        BY <2>7, <4>1, LookupIs
    <3>2. CASE syms[i].kind = "func"
      <4>1. LookupVar(s, x) = None
        BY <2>9, <3>2 DEF OfKind
      <4>2. LookupFunc(s, x) = i
        BY <2>6, <2>7, <2>8, <3>2 DEF OfKind
      <4> QED
        BY <2>7, <4>1, <4>2, LookupIs
    <3> QED
      BY <2>6, <2>7, <3>1, <3>2
  <2> HIDE DEF wins
  <2>13. /\ i \in wins /\ wins = {i}
         /\ LookupVar(s, x) = OfKind(i, "var")
         /\ ~syms[i].implicit => LookupFunc(s, x) = OfKind(i, "func")
         /\ syms[i].kind # "alias" => Lookup(s, x) = i
    BY <2>8, <2>9, <2>11, <2>12
  <2>14. \E j \in wins :
           /\ wins = {j}
           /\ LookupVar(s, x) = OfKind(j, "var")
           /\ ~syms[j].implicit => LookupFunc(s, x) = OfKind(j, "func")
           /\ syms[j].kind # "alias" => Lookup(s, x) = j
    BY <2>13
  <2> QED
    BY <1>7, <2>14 DEF all, near, wins
<1> QED
  BY <1>6, <1>7

\* The function of the innermost scope of T.
FunctionAmong(T) ==
  IF T = {} THEN None ELSE tree.assoc[CHOOSE k \in T : \A j \in T : j <= k]

LEMMA GotoStays ==
  ASSUME ScopeInv, NameInv, NEW s \in 1 .. tree.n, NEW x \in Names, LookupLabel(s, x) # None
  PROVE  LET l == LookupLabel(s, x)
         IN  /\ FunctionOf(syms[l].scope) = FunctionOf(s)
             /\ syms[l].scope \in Ancestors(s)
<1> DEFINE S == {k \in 1 .. tree.n : names.labels[k][x] # None \/ tree.assoc[k] # None}
           at == Outwards(s, S)
           l == LookupLabel(s, x)
<1>1. CASE s = Global
  <2>1. l = names.labels[1][x]
    BY <1>1 DEF LookupLabel, Global, None
  <2>2. Global \in Scope
    BY Scopes
  <2>3. syms[l].scope = Global
    BY <1>1, <2>1, <2>2 DEF NameInv, NamesOK, FiledIn, Global
  <2>4. Global \in Ancestors(s)
    BY DEF Ancestors
  <2> QED
    BY <1>1, <2>3, <2>4
<1>2. CASE s # Global
  <2>1. l = IF at = None THEN None ELSE names.labels[at][x]
    BY <1>2 DEF LookupLabel
  <2>2. \/ at = None /\ S \cap Ancestors(s) = {}
        \/ /\ at \in S /\ at \in Ancestors(s) /\ at # None
           /\ \A k \in S \cap Ancestors(s) : k <= at
    BY OutwardsFinds
  <2>3. /\ at \in Ancestors(s) /\ l = names.labels[at][x]
        /\ \A k \in S \cap Ancestors(s) : k <= at
    BY <2>1, <2>2
  <2>4. \A k \in Ancestors(s) : k \in 1 .. tree.n /\ k \in Scope
    BY AncestorsAre
  <2>5. \A k \in Ancestors(s) : tree.assoc[k] # None => k \in S
    BY <2>4
  <2> HIDE DEF S, at
  <2>6. syms[l].scope = at
    <3>1. l # None /\ names.labels[at][x] = l /\ at \in Scope
      BY <2>3, <2>4
    <3>2. FiledIn(names.labels, names.shadowed, syms, LabelEntries)
      BY DEF NameInv, NamesOK
    <3> HIDE DEF l
    <3> QED
      BY <3>1, <3>2 DEF FiledIn
  <2>7. Ancestors(at) = {k \in Ancestors(s) : k <= at}
    <3>1. Ancestors(s) = Around(tree, s) /\ Ancestors(at) = Around(tree, at)
      BY <2>3, <2>4, AncestorsAre
    <3>2. tree \in Trees /\ IsTree(tree)
      BY DEF ScopeInv
    <3> QED
      BY <2>3, <3>1, <3>2, AroundNests
  <2>8. {k \in Ancestors(at) : tree.assoc[k] # None} = {k \in Ancestors(s) : tree.assoc[k] # None}
    BY <2>3, <2>5, <2>7
  <2>9. FunctionOf(at) = FunctionOf(s)
    <3>1. \A r : FunctionOf(r) = FunctionAmong({k \in Ancestors(r) : tree.assoc[k] # None})
      BY DEF FunctionOf, FunctionAmong
    <3> QED
      BY <2>8, <3>1
  <2> QED
    BY <2>3, <2>6, <2>9
<1> QED
  BY <1>1, <1>2

\* Names are resolved in the scopes around their use, the innermost first and
\* an explicit symbol before an implicit one; a goto finds its label in a block
\* around it, and within its function.
THEOREM Lexical == Spec => []LookupsLexical
<1>1. ScopeInv /\ NameInv => InnermostWins
  BY Wins DEF InnermostWins
<1>2. ScopeInv /\ NameInv => GotoStaysInFunction
  BY GotoStays DEF GotoStaysInFunction
<1> QED
  BY <1>1, <1>2, ScopesInOrder, NamesInOrder, PTL DEF LookupsLexical

=============================================================================
