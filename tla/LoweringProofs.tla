--------------------------- MODULE LoweringProofs ---------------------------
(***************************************************************************)
(* Proofs about Lowering, for any functions and any programs, however their *)
(* functions, loops, branches, switches and labels nest: what is hoisted    *)
(* through the queues of LIRSynthesizer arrives where the source has it, in *)
(* the order of the source.                                                 *)
(***************************************************************************)
EXTENDS Lowering, Integers, SequenceTheorems, FiniteSetTheorems, WellFoundedInduction, TLAPS

(***************************************************************************)
(* Induction up to n, with a set for the predicate                         *)
(***************************************************************************)

LEMMA Least ==
  ASSUME NEW T, T \subseteq Nat, T # {}
  PROVE  \E x \in T : \A y \in T : x <= y
<1>1. PICK x \in T : \A y \in T : ~ (<< y, x >> \in OpToRel(<, Nat))
  BY WFMin, NatLessThanWellFounded
<1>2. ASSUME NEW y \in T PROVE x <= y
  <2>1. x \in Nat /\ y \in Nat
    OBVIOUS
  <2>2. ~ (<< y, x >> \in OpToRel(<, Nat))
    BY <1>1
  <2>3. ~ (y < x)
    BY <2>1, <2>2 DEF OpToRel
  <2> QED
    BY <2>1, <2>3
<1> QED
  BY <1>2

LEMMA Induction ==
  ASSUME NEW n \in Nat, NEW S, 0 \in S,
         \A k \in 0 .. n : k < n /\ k \in S => k + 1 \in S
  PROVE  \A k \in 0 .. n : k \in S
<1> DEFINE T == {k \in 0 .. n : k \notin S}
<1> SUFFICES ASSUME T # {} PROVE FALSE
  OBVIOUS
<1>1. PICK x \in T : \A y \in T : x <= y
  <2>1. T \subseteq Nat
    OBVIOUS
  <2> HIDE DEF T
  <2> QED
    BY <2>1, Least
<1>2. x - 1 \in 0 .. n /\ x - 1 < n /\ x - 1 \notin T
  BY <1>1
<1>3. x - 1 \in S /\ (x - 1) + 1 = x
  BY <1>2
<1> QED
  BY <1>2, <1>3

(***************************************************************************)
(* The items of one sort in a queue                                        *)
(***************************************************************************)

AddIf(t, item, sort) == IF Sort(item) = sort THEN Append(t, item) ELSE t

\* The recursive definition has a solution.
LEMMA TakenIs ==
  ASSUME NEW S, NEW q \in Seq(S), NEW sort
  PROVE  Taken(q, sort) = [i \in 0 .. Len(q) |->
           IF i = 0 THEN << >> ELSE AddIf(Taken(q, sort)[i - 1], q[i], sort)]
<1> DEFINE Solves(g, n) ==
      g = [i \in 0 .. n |-> IF i = 0 THEN << >> ELSE AddIf(g[i - 1], q[i], sort)]
<1> DEFINE T == {n \in 0 .. Len(q) : \E g : Solves(g, n)}
<1>1. Len(q) \in Nat
  OBVIOUS
<1>2. 0 \in T
  <2>1. Solves([i \in 0 .. 0 |-> << >>], 0)
    OBVIOUS
  <2>2. \E g : Solves(g, 0)
    <3> HIDE DEF Solves
    <3> QED
      BY <2>1
  <2> QED
    BY <1>1, <2>2
<1>3. ASSUME NEW n \in 0 .. Len(q), n < Len(q), n \in T PROVE n + 1 \in T
  <2>1. PICK g : Solves(g, n)
    BY <1>3
  <2> DEFINE h == [i \in 0 .. n + 1 |-> IF i = n + 1 THEN AddIf(g[n], q[i], sort) ELSE g[i]]
  <2>2. \A i \in 0 .. n : h[i] = g[i]
    OBVIOUS
  <2>3. ASSUME NEW i \in 0 .. n + 1
        PROVE  h[i] = IF i = 0 THEN << >> ELSE AddIf(h[i - 1], q[i], sort)
    <3>1. CASE i = n + 1
      BY <2>2, <3>1
    <3>2. CASE i # n + 1
      <4>1. i \in 0 .. n /\ (i = 0 \/ i - 1 \in 0 .. n)
        BY <3>2
      <4>2. g[i] = IF i = 0 THEN << >> ELSE AddIf(g[i - 1], q[i], sort)
        BY <2>1, <4>1
      <4> QED
        BY <2>2, <4>1, <4>2
    <3> QED
      BY <3>1, <3>2
  <2>4. Solves(h, n + 1)
    BY <2>3
  <2>5. \E k : Solves(k, n + 1)
    <3> HIDE DEF Solves, h
    <3> QED
      BY <2>4
  <2> QED
    BY <1>1, <1>3, <2>5
<1>4. \A n \in 0 .. Len(q) : n \in T
  <2> HIDE DEF T
  <2> QED
    BY <1>1, <1>2, <1>3, Induction
<1>5. \E g : Solves(g, Len(q))
  BY <1>1, <1>4
<1> QED
  BY <1>5 DEF Taken, AddIf

LEMMA TakenStep ==
  ASSUME NEW S, NEW q \in Seq(S), NEW sort
  PROVE  /\ Taken(q, sort)[0] = << >>
         /\ \A i \in 1 .. Len(q) :
              Taken(q, sort)[i] = AddIf(Taken(q, sort)[i - 1], q[i], sort)
<1> DEFINE f == Taken(q, sort)
<1>1. f = [i \in 0 .. Len(q) |-> IF i = 0 THEN << >> ELSE AddIf(f[i - 1], q[i], sort)]
  BY TakenIs
<1>2. Len(q) \in Nat
  OBVIOUS
<1> HIDE DEF f
<1>3. /\ f[0] = << >>
      /\ \A i \in 1 .. Len(q) : f[i] = AddIf(f[i - 1], q[i], sort)
  BY <1>1, <1>2
<1> QED
  BY <1>3 DEF f

Only(S, sort) == {item \in S : Sort(item) = sort}

LEMMA TakenType ==
  ASSUME NEW S, NEW q \in Seq(S), NEW sort
  PROVE  \A i \in 0 .. Len(q) : Taken(q, sort)[i] \in Seq(Only(S, sort))
<1> DEFINE R == Only(S, sort)
           T == {i \in 0 .. Len(q) : Taken(q, sort)[i] \in Seq(R)}
<1>1. Len(q) \in Nat /\ 0 \in T
  <2>1. Taken(q, sort)[0] \in Seq(R)
    BY TakenStep, EmptySeq
  <2> QED
    BY <2>1
<1>2. ASSUME NEW i \in 0 .. Len(q), i < Len(q), i \in T PROVE i + 1 \in T
  <2>1. i + 1 \in 1 .. Len(q) /\ (i + 1) - 1 = i /\ q[i + 1] \in S
    BY <1>1, <1>2
  <2>2. Taken(q, sort)[i + 1] = AddIf(Taken(q, sort)[i], q[i + 1], sort)
    BY <2>1, TakenStep
  <2>3. Taken(q, sort)[i] \in Seq(R) /\ (Sort(q[i + 1]) = sort => q[i + 1] \in R)
    BY <1>2, <2>1 DEF Only
  <2> HIDE DEF R
  <2>4. Taken(q, sort)[i + 1] \in Seq(R)
    BY <2>2, <2>3 DEF AddIf
  <2> QED
    BY <1>1, <2>1, <2>4
<1>3. \A i \in 0 .. Len(q) : i \in T
  <2> HIDE DEF T
  <2> QED
    BY <1>1, <1>2, Induction
<1> QED
  BY <1>3

LEMMA SortedType ==
  ASSUME NEW S, NEW q \in Seq(S), NEW sort
  PROVE  OfSort(q, sort) \in Seq(Only(S, sort)) /\ OfSort(q, sort) \in Seq(S)
<1>1. Len(q) \in 0 .. Len(q)
  OBVIOUS
<1>2. OfSort(q, sort) \in Seq(Only(S, sort))
  BY <1>1, TakenType DEF OfSort
<1>3. Only(S, sort) \subseteq S
  BY DEF Only
<1> QED
  BY <1>2, <1>3

\* What is taken from the front does not depend on what follows.
LEMMA TakenFront ==
  ASSUME NEW S, NEW p \in Seq(S), NEW q \in Seq(S), NEW sort
  PROVE  \A i \in 0 .. Len(p) : Taken(p \o q, sort)[i] = Taken(p, sort)[i]
<1> DEFINE T == {i \in 0 .. Len(p) : Taken(p \o q, sort)[i] = Taken(p, sort)[i]}
<1>1. /\ Len(p) \in Nat /\ Len(q) \in Nat /\ p \o q \in Seq(S) /\ Len(p \o q) = Len(p) + Len(q)
      /\ \A i \in 1 .. Len(p) : (p \o q)[i] = p[i]
  OBVIOUS
<1>2. 0 \in T
  <2>1. Taken(p \o q, sort)[0] = << >> /\ Taken(p, sort)[0] = << >>
    BY <1>1, TakenStep
  <2> QED
    BY <1>1, <2>1
<1>3. ASSUME NEW i \in 0 .. Len(p), i < Len(p), i \in T PROVE i + 1 \in T
  <2>1. /\ i + 1 \in 1 .. Len(p) /\ i + 1 \in 1 .. Len(p \o q) /\ (i + 1) - 1 = i
    BY <1>1, <1>3
  <2>2. /\ Taken(p \o q, sort)[i + 1] = AddIf(Taken(p \o q, sort)[i], (p \o q)[i + 1], sort)
        /\ Taken(p, sort)[i + 1] = AddIf(Taken(p, sort)[i], p[i + 1], sort)
    BY <1>1, <2>1, TakenStep
  <2> QED
    BY <1>1, <1>3, <2>1, <2>2, SMTT(30)
<1>4. \A i \in 0 .. Len(p) : i \in T
  <2> HIDE DEF T
  <2> QED
    BY <1>1, <1>2, <1>3, Induction
<1> QED
  BY <1>4

\* A queue is sorted piece by piece.
LEMMA SortedConcat ==
  ASSUME NEW S, NEW p \in Seq(S), NEW q \in Seq(S), NEW sort
  PROVE  OfSort(p \o q, sort) = OfSort(p, sort) \o OfSort(q, sort)
<1> DEFINE c == p \o q
           n == Len(p)
           o == OfSort(p, sort)
           T == {i \in 0 .. Len(q) : Taken(c, sort)[n + i] = o \o Taken(q, sort)[i]}
<1>1. /\ n \in Nat /\ Len(q) \in Nat /\ c \in Seq(S) /\ Len(c) = n + Len(q)
      /\ \A i \in 1 .. Len(q) : c[n + i] = q[i]
  OBVIOUS
<1>2. o \in Seq(Only(S, sort)) /\ \A i \in 0 .. Len(q) : Taken(q, sort)[i] \in Seq(Only(S, sort))
  BY SortedType, TakenType
<1>3. 0 \in T
  <2>1. n \in 0 .. n /\ n + 0 = n
    BY <1>1
  <2>2. Taken(c, sort)[n] = o
    BY <2>1, TakenFront DEF OfSort
  <2>3. o \o << >> = o
    BY <1>2, ConcatEmptySeq
  <2>4. Taken(q, sort)[0] = << >>
    BY TakenStep
  <2> HIDE DEF o, c, n
  <2>5. Taken(c, sort)[n + 0] = o \o Taken(q, sort)[0]
    BY <2>1, <2>2, <2>3, <2>4
  <2> QED
    BY <1>1, <2>5
<1>4. ASSUME NEW i \in 0 .. Len(q), i < Len(q), i \in T PROVE i + 1 \in T
  <2>1. /\ i + 1 \in 1 .. Len(q) /\ (i + 1) - 1 = i
        /\ n + (i + 1) \in 1 .. Len(c) /\ (n + (i + 1)) - 1 = n + i
    BY <1>1, <1>4
  <2>2. Taken(q, sort)[i + 1] = AddIf(Taken(q, sort)[i], q[i + 1], sort)
    BY <2>1, TakenStep
  <2>3. Taken(c, sort)[n + (i + 1)] = AddIf(Taken(c, sort)[n + i], c[n + (i + 1)], sort)
    <3>1. c \in Seq(S)
      BY <1>1
    <3> DEFINE k == n + (i + 1)
    <3>2. k \in 1 .. Len(c) /\ k - 1 = n + i
      BY <2>1
    <3> HIDE DEF c, k, n
    <3>3. Taken(c, sort)[k] = AddIf(Taken(c, sort)[k - 1], c[k], sort)
      BY ONLY <3>1, <3>2, TakenStep
    <3> QED
      BY <3>2, <3>3 DEF k
  <2>4. c[n + (i + 1)] = q[i + 1] /\ Taken(c, sort)[n + i] = o \o Taken(q, sort)[i]
    BY <1>1, <1>4, <2>1
  <2> DEFINE t == Taken(q, sort)[i]
             e == q[i + 1]
  <2>5. o \in Seq(S) /\ t \in Seq(S) /\ e \in S
    <3>1. Only(S, sort) \subseteq S
      BY DEF Only
    <3>2. i \in 0 .. Len(q) /\ q[i + 1] \in S
      BY <1>1, <2>1
    <3>3. o \in Seq(Only(S, sort)) /\ t \in Seq(Only(S, sort))
      BY <1>2, <3>2
    <3> HIDE DEF o, t
    <3> QED
      BY <3>1, <3>2, <3>3
  <2>6. Append(o \o t, e) = o \o Append(t, e)
    <3> HIDE DEF o, t, e
    <3>0. o \o t \in Seq(S)
      BY <2>5
    <3>1. Append(o \o t, e) = (o \o t) \o << e >> /\ Append(t, e) = t \o << e >>
      BY ONLY <2>5, <3>0, AppendIsConcat
    <3>2. << e >> \in Seq(S)
      BY <2>5
    <3>3. (o \o t) \o << e >> = o \o (t \o << e >>)
      BY ONLY <2>5, <3>2, ConcatAssociative, SMTT(30)
    <3> QED
      BY <3>1, <3>3
  <2>7. AddIf(o \o t, e, sort) = o \o AddIf(t, e, sort)
    BY <2>6 DEF AddIf
  <2>8. Taken(c, sort)[n + (i + 1)] = o \o Taken(q, sort)[i + 1]
    BY <2>2, <2>3, <2>4, <2>7
  <2> QED
    BY <1>1, <2>1, <2>8
<1>5. \A i \in 0 .. Len(q) : i \in T
  <2> HIDE DEF T
  <2> QED
    BY <1>1, <1>3, <1>4, Induction
<1>6. Len(q) \in T
  BY <1>1, <1>5
<1> QED
  BY <1>1, <1>6 DEF OfSort

LEMMA SortedEmpty ==
  ASSUME NEW sort
  PROVE  OfSort(<< >>, sort) = << >>
<1> DEFINE e == << >>
<1>1. e \in Seq({}) /\ Len(e) = 0
  OBVIOUS
<1> HIDE DEF e
<1>2. Taken(e, sort)[0] = << >>
  BY <1>1, TakenStep
<1> QED
  BY <1>1, <1>2 DEF OfSort, e

\* Items that are all of one sort.
LEMMA SortedOne ==
  ASSUME NEW S, NEW q \in Seq(S), NEW own, NEW sort, \A i \in 1 .. Len(q) : Sort(q[i]) = own
  PROVE  OfSort(q, sort) = IF own = sort THEN q ELSE << >>
<1> DEFINE T == {i \in 0 .. Len(q) :
                  Taken(q, sort)[i] = IF own = sort THEN SubSeq(q, 1, i) ELSE << >>}
<1>1. Len(q) \in Nat /\ SubSeq(q, 1, 0) = << >> /\ SubSeq(q, 1, Len(q)) = q
  OBVIOUS
<1>2. 0 \in T
  <2>1. Taken(q, sort)[0] = << >>
    BY TakenStep
  <2>2. Taken(q, sort)[0] = IF own = sort THEN SubSeq(q, 1, 0) ELSE << >>
    BY <1>1, <2>1
  <2> QED
    BY <1>1, <2>2
<1>3. ASSUME NEW i \in 0 .. Len(q), i < Len(q), i \in T PROVE i + 1 \in T
  <2>1. i + 1 \in 1 .. Len(q) /\ (i + 1) - 1 = i
    BY <1>1, <1>3
  <2>2. Taken(q, sort)[i + 1] = AddIf(Taken(q, sort)[i], q[i + 1], sort)
    BY <2>1, TakenStep
  <2>3. Append(SubSeq(q, 1, i), q[i + 1]) = SubSeq(q, 1, i + 1)
    BY <1>1, <1>3, <2>1
  <2>4. Taken(q, sort)[i] = IF own = sort THEN SubSeq(q, 1, i) ELSE << >>
    BY <1>3
  <2>5. Sort(q[i + 1]) = own
    BY <2>1
  <2>6. Taken(q, sort)[i + 1] = IF own = sort THEN SubSeq(q, 1, i + 1) ELSE << >>
    BY <2>2, <2>3, <2>4, <2>5 DEF AddIf
  <2> QED
    BY <1>1, <2>1, <2>6
<1>4. \A i \in 0 .. Len(q) : i \in T
  <2> HIDE DEF T
  <2> QED
    BY <1>1, <1>2, <1>3, Induction
<1>5. Len(q) \in T
  BY <1>1, <1>4
<1> QED
  BY <1>1, <1>5 DEF OfSort

(***************************************************************************)
(* What a visit holds: three queues                                        *)
(***************************************************************************)

Variables == Owners \X Int
Names == Funcs \cup Nat \cup CaseVals \cup Variables
ItemKinds == {"func", "decl", "return", "init", "stmt", "break", "continue", "case", "default",
              "if", "else", "end", "label", "switch", "loop", "step", "body", "next"}
Items == [k : ItemKinds, x : Names]

Parts == [funcs : Seq(Only(Items, "func")), decls : Seq(Only(Items, "decl")),
          own : Seq(Only(Items, "item"))]

Plus(a, b) == [funcs |-> a.funcs \o b.funcs, decls |-> a.decls \o b.decls, own |-> a.own \o b.own]
Starting(a, b) == [funcs |-> a.funcs \o b.funcs, decls |-> b.decls, own |-> b.own]
Sorted(q) == [funcs |-> FuncsOf(q), decls |-> DeclsOf(q), own |-> ItemsOf(q)]

LEMMA PlusType ==
  ASSUME NEW a \in Parts, NEW b \in Parts
  PROVE  Plus(a, b) \in Parts /\ Starting(a, b) \in Parts
BY DEF Parts, Plus, Starting

LEMMA PlusIs ==
  ASSUME NEW a \in Parts, NEW b \in Parts
  PROVE  /\ Plus(a, b).own = a.own \o b.own /\ Plus(a, b).decls = a.decls \o b.decls
         /\ Plus(a, b).funcs = a.funcs \o b.funcs
<1> DEFINE f == a.funcs \o b.funcs
           d == a.decls \o b.decls
           o == a.own \o b.own
<1>1. Plus(a, b) = [funcs |-> f, decls |-> d, own |-> o]
  BY DEF Plus
<1> HIDE DEF f, d, o
<1>2. Plus(a, b).funcs = f /\ Plus(a, b).decls = d /\ Plus(a, b).own = o
  BY <1>1
<1> QED
  BY <1>2 DEF f, d, o

LEMMA StartingIs ==
  ASSUME NEW a, NEW b
  PROVE  /\ Starting(a, b).own = b.own /\ Starting(a, b).decls = b.decls
         /\ Starting(a, b).funcs = a.funcs \o b.funcs
<1> DEFINE f == a.funcs \o b.funcs
           d == b.decls
           o == b.own
<1>1. Starting(a, b) = [funcs |-> f, decls |-> d, own |-> o]
  BY DEF Starting
<1> HIDE DEF f, d, o
<1>2. Starting(a, b).funcs = f /\ Starting(a, b).decls = d /\ Starting(a, b).own = o
  BY <1>1
<1> QED
  BY <1>2 DEF f, d, o

LEMMA PlusAssociative ==
  ASSUME NEW a \in Parts, NEW b \in Parts, NEW c \in Parts
  PROVE  /\ Plus(Plus(a, b), c) = Plus(a, Plus(b, c))
         /\ Plus(Starting(a, b), c) = Starting(a, Plus(b, c))
<1> DEFINE F == Only(Items, "func")
           D == Only(Items, "decl")
           O == Only(Items, "item")
<1>1. \A s \in {a, b, c} : s.funcs \in Seq(F) /\ s.decls \in Seq(D) /\ s.own \in Seq(O)
  BY DEF Parts
<1> HIDE DEF F, D, O
<1>0. ASSUME NEW S, NEW s \in Seq(S), NEW t \in Seq(S), NEW u \in Seq(S)
      PROVE  (s \o t) \o u = s \o (t \o u)
  BY ConcatAssociative
<1>2. (a.funcs \o b.funcs) \o c.funcs = a.funcs \o (b.funcs \o c.funcs)
  <2> DEFINE x == a.funcs
             y == b.funcs
             z == c.funcs
  <2>1. x \in Seq(F) /\ y \in Seq(F) /\ z \in Seq(F)
    BY <1>1
  <2> HIDE DEF x, y, z
  <2>2. (x \o y) \o z = x \o (y \o z)
    BY <1>0, <2>1
  <2> QED
    BY <2>2 DEF x, y, z
<1>3. (a.decls \o b.decls) \o c.decls = a.decls \o (b.decls \o c.decls)
  <2> DEFINE x == a.decls
             y == b.decls
             z == c.decls
  <2>1. x \in Seq(D) /\ y \in Seq(D) /\ z \in Seq(D)
    BY <1>1
  <2> HIDE DEF x, y, z
  <2>2. (x \o y) \o z = x \o (y \o z)
    BY <1>0, <2>1
  <2> QED
    BY <2>2 DEF x, y, z
<1>4. (a.own \o b.own) \o c.own = a.own \o (b.own \o c.own)
  <2> DEFINE x == a.own
             y == b.own
             z == c.own
  <2>1. x \in Seq(O) /\ y \in Seq(O) /\ z \in Seq(O)
    BY <1>1
  <2> HIDE DEF x, y, z
  <2>2. (x \o y) \o z = x \o (y \o z)
    BY <1>0, <2>1
  <2> QED
    BY <2>2 DEF x, y, z
<1> QED
  BY <1>2, <1>3, <1>4 DEF Plus, Starting

LEMMA PlusNothing ==
  ASSUME NEW a \in Parts
  PROVE  Plus(a, NewVisit(<< >>)) = a /\ Plus(NewVisit(<< >>), a) = a
<1>1. a = [funcs |-> a.funcs, decls |-> a.decls, own |-> a.own]
  BY DEF Parts
<1>2. /\ a.funcs \in Seq(Only(Items, "func")) /\ a.decls \in Seq(Only(Items, "decl"))
      /\ a.own \in Seq(Only(Items, "item"))
  BY DEF Parts
<1>3. \A s \in {a.funcs, a.decls, a.own} : s \o << >> = s /\ << >> \o s = s
  BY <1>2, ConcatEmptySeq
<1> QED
  BY <1>1, <1>3 DEF Plus, NewVisit

LEMMA NewVisitType ==
  ASSUME NEW s \in Seq(Only(Items, "item"))
  PROVE  NewVisit(s) \in Parts
BY EmptySeq DEF NewVisit, Parts

LEMMA DrainedIs ==
  ASSUME NEW v, NEW q
  PROVE  Drained(v, q) = Plus(v, Sorted(q))
BY DEF Drained, Plus, Sorted

LEMMA SortedParts ==
  ASSUME NEW q \in Seq(Items)
  PROVE  Sorted(q) \in Parts
<1>1. \A sort : OfSort(q, sort) \in Seq(Only(Items, sort))
  BY SortedType
<1> QED
  BY <1>1 DEF Sorted, Parts, FuncsOf, DeclsOf, ItemsOf

LEMMA SortedPlus ==
  ASSUME NEW p \in Seq(Items), NEW q \in Seq(Items)
  PROVE  Sorted(p \o q) = Plus(Sorted(p), Sorted(q))
<1>1. \A sort : OfSort(p \o q, sort) = OfSort(p, sort) \o OfSort(q, sort)
  BY SortedConcat
<1> QED
  BY <1>1 DEF Sorted, Plus, FuncsOf, DeclsOf, ItemsOf

LEMMA SortedNothing == Sorted(<< >>) = NewVisit(<< >>)
BY SortedEmpty DEF Sorted, NewVisit, FuncsOf, DeclsOf, ItemsOf

\* A queue of one sort.
LEMMA SortedAlike ==
  ASSUME NEW own, NEW q \in Seq(Only(Items, own))
  PROVE  /\ q \in Seq(Items)
         /\ Sorted(q) = [funcs |-> IF own = "func" THEN q ELSE << >>,
                         decls |-> IF own = "decl" THEN q ELSE << >>,
                         own   |-> IF own = "item" THEN q ELSE << >>]
<1>1. q \in Seq(Items)
  <2>1. Only(Items, own) \subseteq Items
    BY DEF Only
  <2> QED
    BY <2>1
<1>2. \A i \in 1 .. Len(q) : Sort(q[i]) = own
  BY DEF Only
<1>3. \A sort : OfSort(q, sort) = IF own = sort THEN q ELSE << >>
  BY <1>1, <1>2, SortedOne
<1> QED
  BY <1>1, <1>3 DEF Sorted, FuncsOf, DeclsOf, ItemsOf

\* What a visit hoists and itself, sorted by the visit below, is what it held.
LEMMA SortedHoisted ==
  ASSUME NEW v \in Parts, NEW close \in Seq(Only(Items, "item"))
  PROVE  /\ Hoisted(v, close) \in Seq(Items)
         /\ Sorted(Hoisted(v, close)) = Plus(v, NewVisit(close))
<1> DEFINE f == v.funcs
           d == v.decls
           o == v.own
<1>1. /\ f \in Seq(Only(Items, "func")) /\ d \in Seq(Only(Items, "decl"))
      /\ o \in Seq(Only(Items, "item")) /\ v = [funcs |-> f, decls |-> d, own |-> o]
  BY DEF Parts
<1> HIDE DEF f, d, o
<1>2. /\ f \in Seq(Items) /\ d \in Seq(Items) /\ o \in Seq(Items) /\ close \in Seq(Items)
      /\ Sorted(f) = [funcs |-> f, decls |-> << >>, own |-> << >>]
      /\ Sorted(d) = [funcs |-> << >>, decls |-> d, own |-> << >>]
      /\ Sorted(o) = [funcs |-> << >>, decls |-> << >>, own |-> o]
      /\ Sorted(close) = [funcs |-> << >>, decls |-> << >>, own |-> close]
  BY <1>1, SortedAlike
<1>3. f \o d \in Seq(Items) /\ f \o d \o o \in Seq(Items) /\ f \o d \o o \o close \in Seq(Items)
  BY <1>2
<1>4. Sorted(f \o d \o o \o close) = Plus(Plus(Plus(Sorted(f), Sorted(d)), Sorted(o)), Sorted(close))
  <2>1. \A p, q \in Seq(Items) : Sorted(p \o q) = Plus(Sorted(p), Sorted(q))
    BY SortedPlus
  <2>2. Sorted(f \o d) = Plus(Sorted(f), Sorted(d))
    BY ONLY <1>2, <2>1
  <2>3. Sorted(f \o d \o o) = Plus(Sorted(f \o d), Sorted(o))
    BY ONLY <1>2, <1>3, <2>1
  <2>4. Sorted(f \o d \o o \o close) = Plus(Sorted(f \o d \o o), Sorted(close))
    BY ONLY <1>2, <1>3, <2>1
  <2> QED
    BY ONLY <2>2, <2>3, <2>4
<1>5. /\ \A s \in {f, d, o, close} : s \o << >> = s /\ << >> \o s = s
      /\ << >> \o << >> = << >>
  BY <1>2, ConcatEmptySeq
<1>6. Plus(Plus(Plus(Sorted(f), Sorted(d)), Sorted(o)), Sorted(close))
        = [funcs |-> f, decls |-> d, own |-> o \o close]
  BY <1>2, <1>5 DEF Plus
<1>7. Plus(v, NewVisit(close)) = [funcs |-> f, decls |-> d, own |-> o \o close]
  BY <1>1, <1>5 DEF Plus, NewVisit
<1> QED
  BY <1>3, <1>4, <1>6, <1>7 DEF Hoisted, f, d, o

(***************************************************************************)
(* The Validator's stacks: a node with a body and the compound that is its  *)
(* body, by turns, and a tracker for each switch                           *)
(***************************************************************************)

Nodes == [kind : Kinds, of : Owners, part : {"then", "else", "body"}]
Trackers == [cases : SUBSET CaseVals, dflt : BOOLEAN]
SwitchNodes(stack) == {i \in 1 .. Len(stack) : stack[i].kind = "switch"}

Alternates(stack) ==
  \E d \in Nat :
    /\ Len(stack) = 2 * d
    /\ \A i \in 1 .. d : stack[2 * i - 1].kind # "compound" /\ stack[2 * i].kind = "compound"

StackInv ==
  /\ ctxt \in Seq(Nodes) /\ switches \in Seq(Trackers)
  /\ Alternates(ctxt)
  /\ TrackersInStep

ValInv ==
  /\ StackInv
  /\ marked \subseteq {"main", "print"}
  /\ errors \in BOOLEAN /\ validated \in BOOLEAN

LEMMA Front ==
  ASSUME NEW S, NEW s \in Seq(S), NEW n \in 0 .. Len(s)
  PROVE  /\ SubSeq(s, 1, n) \in Seq(S) /\ Len(SubSeq(s, 1, n)) = n
         /\ \A i \in 1 .. n : SubSeq(s, 1, n)[i] = s[i]
<1>1. n \in Nat /\ 1 .. n \subseteq 1 .. Len(s)
  OBVIOUS
<1> QED
  BY <1>1

LEMMA OneReplaced ==
  ASSUME NEW A, NEW T, NEW F \in [A -> T], NEW o, NEW e \in T
  PROVE  [F EXCEPT ![o] = e] \in [A -> T]
OBVIOUS

LEMMA Appended ==
  ASSUME NEW S, NEW s \in Seq(S), NEW e \in S
  PROVE  /\ Append(s, e) \in Seq(S) /\ Len(Append(s, e)) = Len(s) + 1
         /\ Append(s, e)[Len(s) + 1] = e /\ \A i \in 1 .. Len(s) : Append(s, e)[i] = s[i]
OBVIOUS

LEMMA TwoMore ==
  ASSUME NEW S, NEW s \in Seq(S), NEW a, NEW b
  PROVE  /\ Len(s \o << a, b >>) = Len(s) + 2
         /\ \A i \in 1 .. Len(s) : (s \o << a, b >>)[i] = s[i]
         /\ (s \o << a, b >>)[Len(s) + 1] = a
<1>1. Len(s) \in Nat /\ Len(<< a, b >>) = 2 /\ << a, b >>[1] = a
  OBVIOUS
<1>2. s \in Seq(S \cup {a, b}) /\ << a, b >> \in Seq(S \cup {a, b})
  OBVIOUS
<1> QED
  BY <1>1, <1>2

LEMMA Replaced ==
  ASSUME NEW S, NEW s \in Seq(S), NEW e \in S, NEW k
  PROVE  /\ [s EXCEPT ![k] = e] \in Seq(S) /\ Len([s EXCEPT ![k] = e]) = Len(s)
         /\ \A i \in 1 .. Len(s) : [s EXCEPT ![k] = e][i] = IF i = k THEN e ELSE s[i]
<1> DEFINE r == [s EXCEPT ![k] = e]
<1>1. Len(s) \in Nat /\ DOMAIN s = 1 .. Len(s) /\ \A i \in 1 .. Len(s) : s[i] \in S
  OBVIOUS
<1>2. r = [i \in 1 .. Len(s) |-> IF i = k THEN e ELSE s[i]]
  BY <1>1
<1>3. r \in [1 .. Len(s) -> S]
  BY <1>1, <1>2
<1>4. r \in Seq(S) /\ Len(r) = Len(s)
  BY <1>1, <1>3
<1> QED
  BY <1>2, <1>4

LEMMA NodeType ==
  ASSUME NEW kind \in Kinds, NEW of \in Owners, NEW part \in {"then", "else", "body"}
  PROVE  Node(kind, of, part) \in Nodes /\ Node(kind, of, part).kind = kind
BY DEF Node, Nodes

LEMMA StackDown ==
  ASSUME NEW s \in Seq(Nodes), Alternates(s), NEW a \in Nodes, NEW b \in Nodes,
         a.kind # "compound", b.kind = "compound"
  PROVE  /\ s \o << a, b >> \in Seq(Nodes) /\ Alternates(s \o << a, b >>)
         /\ SwitchNodes(s \o << a, b >>) = IF a.kind = "switch" THEN SwitchNodes(s) \cup {Len(s) + 1}
                                                              ELSE SwitchNodes(s)
<1> DEFINE u == s \o << a, b >>
<1>1. /\ u \in Seq(Nodes) /\ Len(u) = Len(s) + 2 /\ Len(s) \in Nat
      /\ \A i \in 1 .. Len(s) : u[i] = s[i]
      /\ u[Len(s) + 1] = a /\ u[Len(s) + 2] = b
  OBVIOUS
<1> HIDE DEF u
<1>2. PICK d \in Nat : /\ Len(s) = 2 * d
                       /\ \A i \in 1 .. d : s[2 * i - 1].kind # "compound" /\ s[2 * i].kind = "compound"
  BY DEF Alternates
<1>3. ASSUME NEW i \in 1 .. d + 1
      PROVE  u[2 * i - 1].kind # "compound" /\ u[2 * i].kind = "compound"
  <2>1. CASE i = d + 1
    <3>1. 2 * i - 1 = Len(s) + 1 /\ 2 * i = Len(s) + 2
      BY <1>2, <2>1
    <3> QED
      BY <1>1, <3>1
  <2>2. CASE i # d + 1
    <3>1. i \in 1 .. d /\ 2 * i - 1 \in 1 .. Len(s) /\ 2 * i \in 1 .. Len(s)
      BY <1>2, <2>2
    <3> QED
      BY <1>1, <1>2, <3>1
  <2> QED
    BY <2>1, <2>2
<1>4. Alternates(u)
  <2>1. d + 1 \in Nat /\ Len(u) = 2 * (d + 1)
    BY <1>1, <1>2
  <2> QED
    BY <1>3, <2>1 DEF Alternates
<1>5. SwitchNodes(u) = IF a.kind = "switch" THEN SwitchNodes(s) \cup {Len(s) + 1} ELSE SwitchNodes(s)
  <2>1. \A i : i \in 1 .. Len(u) <=> i \in 1 .. Len(s) \/ i = Len(s) + 1 \/ i = Len(s) + 2
    BY <1>1
  <2>2. u[Len(s) + 2].kind # "switch"
    BY <1>1
  <2> QED
    BY <1>1, <2>1, <2>2 DEF SwitchNodes
<1> QED
  BY <1>1, <1>4, <1>5 DEF u

LEMMA StackUp ==
  ASSUME NEW s \in Seq(Nodes), Alternates(s), s # << >>
  PROVE  /\ Len(s) >= 2 /\ s[Len(s) - 1].kind # "compound" /\ s[Len(s)].kind = "compound"
         /\ SubSeq(s, 1, Len(s) - 2) \in Seq(Nodes) /\ Alternates(SubSeq(s, 1, Len(s) - 2))
         /\ SwitchNodes(s) = IF s[Len(s) - 1].kind = "switch"
                             THEN SwitchNodes(SubSeq(s, 1, Len(s) - 2)) \cup {Len(s) - 1}
                             ELSE SwitchNodes(SubSeq(s, 1, Len(s) - 2))
<1> DEFINE u == SubSeq(s, 1, Len(s) - 2)
<1>1. PICK d \in Nat : /\ Len(s) = 2 * d
                       /\ \A i \in 1 .. d : s[2 * i - 1].kind # "compound" /\ s[2 * i].kind = "compound"
  BY DEF Alternates
<1>2. d >= 1 /\ Len(s) \in Nat /\ Len(s) # 0
  BY <1>1
<1>3. Len(s) >= 2 /\ s[Len(s) - 1].kind # "compound" /\ s[Len(s)].kind = "compound"
  <2>1. d \in 1 .. d
    BY <1>2
  <2> QED
    BY <1>1, <1>2, <2>1
<1>4. /\ u \in Seq(Nodes) /\ Len(u) = Len(s) - 2
      /\ \A i \in 1 .. Len(u) : u[i] = s[i]
  <2>1. Len(s) - 2 \in 0 .. Len(s)
    BY <1>2, <1>3
  <2> QED
    BY <2>1, Front
<1> HIDE DEF u
<1>5. Alternates(u)
  <2>1. d - 1 \in Nat /\ Len(u) = 2 * (d - 1)
    BY <1>1, <1>2, <1>4
  <2>2. ASSUME NEW i \in 1 .. d - 1
        PROVE  u[2 * i - 1].kind # "compound" /\ u[2 * i].kind = "compound"
    <3>1. i \in 1 .. d /\ 2 * i - 1 \in 1 .. Len(u) /\ 2 * i \in 1 .. Len(u)
      BY <2>1
    <3> QED
      BY <1>1, <1>4, <3>1
  <2> QED
    BY <2>1, <2>2 DEF Alternates
<1>6. SwitchNodes(s) = IF s[Len(s) - 1].kind = "switch" THEN SwitchNodes(u) \cup {Len(s) - 1}
                                                        ELSE SwitchNodes(u)
  <2>1. \A i : i \in 1 .. Len(s) <=> i \in 1 .. Len(u) \/ i = Len(s) - 1 \/ i = Len(s)
    BY <1>3, <1>4
  <2> QED
    BY <1>3, <1>4, <2>1 DEF SwitchNodes
<1> QED
  BY <1>3, <1>4, <1>5, <1>6 DEF u

LEMMA Counted ==
  ASSUME NEW s \in Seq(Nodes)
  PROVE  /\ IsFiniteSet(SwitchNodes(s)) /\ Cardinality(SwitchNodes(s)) \in Nat
         /\ Cardinality(SwitchNodes(s)) = 0 <=> SwitchNodes(s) = {}
         /\ \A n \in Nat : n > Len(s) =>
              Cardinality(SwitchNodes(s) \cup {n}) = Cardinality(SwitchNodes(s)) + 1
<1>1. Len(s) \in Nat
  OBVIOUS
<1>2. IsFiniteSet(1 .. Len(s)) /\ SwitchNodes(s) \subseteq 1 .. Len(s)
  BY <1>1, FS_Interval DEF SwitchNodes
<1>3. IsFiniteSet(SwitchNodes(s))
  BY <1>2, FS_Subset
<1>4. \A n \in Nat : n > Len(s) => n \notin SwitchNodes(s)
  BY <1>1, <1>2
<1> QED
  BY <1>3, <1>4, FS_CardinalityType, FS_EmptySet, FS_AddElement

LEMMA StackInvDown ==
  ASSUME StackInv, NEW a \in Nodes, NEW b \in Nodes, a.kind # "compound", b.kind = "compound",
         ctxt' = ctxt \o << a, b >>,
         switches' = IF a.kind = "switch" THEN Append(switches, NewTracker) ELSE switches
  PROVE  StackInv'
<1>1. /\ ctxt' \in Seq(Nodes) /\ Alternates(ctxt')
      /\ SwitchNodes(ctxt') = IF a.kind = "switch" THEN SwitchNodes(ctxt) \cup {Len(ctxt) + 1}
                                                   ELSE SwitchNodes(ctxt)
  BY StackDown DEF StackInv
<1>2. /\ switches' \in Seq(Trackers)
      /\ Len(switches') = IF a.kind = "switch" THEN Len(switches) + 1 ELSE Len(switches)
  <2>1. NewTracker \in Trackers
    BY DEF Trackers, NewTracker
  <2>2. switches \in Seq(Trackers)
    BY DEF StackInv
  <2> QED
    BY <2>1, <2>2
<1>3. Cardinality(SwitchNodes(ctxt) \cup {Len(ctxt) + 1}) = Cardinality(SwitchNodes(ctxt)) + 1
  <2>1. Len(ctxt) + 1 \in Nat /\ Len(ctxt) + 1 > Len(ctxt)
    BY DEF StackInv
  <2> QED
    BY <2>1, Counted DEF StackInv
<1>4. Len(switches) = Cardinality(SwitchNodes(ctxt))
  BY DEF StackInv, TrackersInStep, SwitchNodes
<1>5. Len(switches') = Cardinality(SwitchNodes(ctxt'))
  BY <1>1, <1>2, <1>3, <1>4
<1> QED
  BY <1>1, <1>2, <1>5 DEF StackInv, TrackersInStep, SwitchNodes

LEMMA StackInvUp ==
  ASSUME StackInv, ctxt # << >>, ctxt' = Above(2),
         switches' = IF Holder.kind = "switch" THEN SubSeq(switches, 1, Len(switches) - 1)
                                               ELSE switches
  PROVE  StackInv'
<1>1. /\ Len(ctxt) >= 2 /\ ctxt' \in Seq(Nodes) /\ Alternates(ctxt')
      /\ SwitchNodes(ctxt) = IF Holder.kind = "switch" THEN SwitchNodes(ctxt') \cup {Len(ctxt) - 1}
                                                       ELSE SwitchNodes(ctxt')
  BY StackUp DEF StackInv, Above, Holder
<1>2. Len(ctxt') = Len(ctxt) - 2 /\ Len(ctxt) \in Nat
  <2>1. Len(ctxt) - 2 \in 0 .. Len(ctxt) /\ ctxt \in Seq(Nodes) /\ Len(ctxt) \in Nat
    BY <1>1 DEF StackInv
  <2> QED
    BY <2>1, Front DEF Above
<1>3. Cardinality(SwitchNodes(ctxt') \cup {Len(ctxt) - 1}) = Cardinality(SwitchNodes(ctxt')) + 1
  <2>1. Len(ctxt) - 1 \in Nat /\ Len(ctxt) - 1 > Len(ctxt')
    BY <1>1, <1>2
  <2> QED
    BY <1>1, <2>1, Counted
<1>4. Len(switches) = Cardinality(SwitchNodes(ctxt)) /\ Cardinality(SwitchNodes(ctxt')) \in Nat
  BY <1>1, Counted DEF StackInv, TrackersInStep, SwitchNodes
<1>5. CASE Holder.kind = "switch"
  <2>1. Len(switches) = Cardinality(SwitchNodes(ctxt')) + 1
    BY <1>1, <1>3, <1>4, <1>5
  <2>2. switches' \in Seq(Trackers) /\ Len(switches') = Len(switches) - 1
    BY <1>4, <1>5, <2>1 DEF StackInv
  <2>3. Len(switches') = Cardinality(SwitchNodes(ctxt'))
    BY <1>4, <2>1, <2>2
  <2> QED
    BY <1>1, <2>2, <2>3 DEF StackInv, TrackersInStep, SwitchNodes
<1>6. CASE Holder.kind # "switch"
  BY <1>1, <1>4, <1>6 DEF StackInv, TrackersInStep, SwitchNodes
<1> QED
  BY <1>5, <1>6

\* From one branch of an if to the other.
LEMMA StackInvElse ==
  ASSUME StackInv, ctxt # << >>, Holder.kind = "if",
         ctxt' = Above(2) \o << Node("if", NoFunc, "else"), Inner >>, switches' = switches
  PROVE  StackInv'
<1> DEFINE s == Above(2)
           a == Node("if", NoFunc, "else")
<1>1. /\ s \in Seq(Nodes) /\ Alternates(s) /\ SwitchNodes(ctxt) = SwitchNodes(s)
      /\ Inner.kind = "compound" /\ Len(ctxt) >= 2
  BY StackUp DEF StackInv, Above, Holder, Inner
<1>2. a \in Nodes /\ a.kind = "if" /\ Inner \in Nodes
  <2>1. "if" \in Kinds /\ NoFunc \in Owners
    BY DEF Kinds, Owners
  <2>2. a \in Nodes /\ a.kind = "if"
    BY <2>1, NodeType
  <2>3. ctxt \in Seq(Nodes) /\ Len(ctxt) \in 1 .. Len(ctxt)
    BY <1>1 DEF StackInv
  <2> QED
    BY <2>2, <2>3 DEF Inner
<1> HIDE DEF s, a
<1>3. /\ s \o << a, Inner >> \in Seq(Nodes) /\ Alternates(s \o << a, Inner >>)
      /\ SwitchNodes(s \o << a, Inner >>) = SwitchNodes(s)
  BY <1>1, <1>2, StackDown
<1>4. ctxt' = s \o << a, Inner >>
  BY DEF s, a
<1>5. SwitchNodes(ctxt') = SwitchNodes(ctxt)
  BY <1>1, <1>3, <1>4
<1>6. Len(switches) = Cardinality(SwitchNodes(ctxt))
  BY DEF StackInv, TrackersInStep, SwitchNodes
<1>7. Len(switches') = Cardinality(SwitchNodes(ctxt'))
  BY <1>5, <1>6
<1> QED
  BY <1>3, <1>4, <1>7 DEF StackInv, TrackersInStep, SwitchNodes

\* There is a tracker when there is a switch.
LEMMA HasTracker ==
  ASSUME StackInv, In("switch")
  PROVE  Len(switches) \in Nat \ {0} /\ Tracker \in Trackers
<1>1. SwitchNodes(ctxt) # {}
  BY DEF In, InNode, SwitchNodes
<1>2. Len(switches) \in Nat \ {0}
  BY <1>1, Counted DEF StackInv, TrackersInStep, SwitchNodes
<1> QED
  BY <1>2 DEF StackInv, Tracker

LEMMA StackInvTrack ==
  ASSUME StackInv, NEW t \in Trackers, ctxt' = ctxt, switches' = Track(t)
  PROVE  StackInv'
<1>1. switches' \in Seq(Trackers) /\ Len(switches') = Len(switches)
  BY Replaced DEF StackInv, Track
<1>2. Len(switches') = Cardinality(SwitchNodes(ctxt'))
  BY <1>1 DEF StackInv, TrackersInStep, SwitchNodes
<1> QED
  BY <1>1, <1>2 DEF StackInv, TrackersInStep, SwitchNodes

LEMMA StackInvKept ==
  ASSUME StackInv, ctxt' = ctxt, switches' = switches
  PROVE  StackInv'
<1>1. Len(switches') = Cardinality(SwitchNodes(ctxt'))
  BY DEF StackInv, TrackersInStep, SwitchNodes
<1> QED
  BY <1>1 DEF StackInv, TrackersInStep, SwitchNodes

\* The nodes that are put on top for a statement or a function.
LEMMA StackInvEnter ==
  ASSUME StackInv, NEW kind \in {"function", "if", "loop", "label", "switch"}, NEW of \in Owners,
         NEW part \in {"then", "else", "body"}, ctxt' = Down(kind, of, part),
         switches' = IF kind = "switch" THEN Append(switches, NewTracker) ELSE switches
  PROVE  StackInv'
<1> DEFINE a == Node(kind, of, part)
           b == Node("compound", NoFunc, "body")
<1>1. kind \in Kinds /\ "compound" \in Kinds /\ NoFunc \in Owners
  BY DEF Kinds, Owners
<1>2. a \in Nodes /\ b \in Nodes /\ a.kind = kind /\ b.kind = "compound"
  BY <1>1, NodeType
<1>3. ctxt' = ctxt \o << a, b >>
  BY DEF Down
<1> HIDE DEF a, b
<1> QED
  BY <1>2, <1>3, StackInvDown

(* Every visit, as far as the stacks of the Validator go.  *)
VStep ==
  /\ \/ ctxt' = ctxt /\ switches' = switches
     \/ \E kind \in {"function", "if", "loop", "label", "switch"}, of \in Owners,
           part \in {"then", "else", "body"} :
          /\ ctxt' = Down(kind, of, part)
          /\ switches' = IF kind = "switch" THEN Append(switches, NewTracker) ELSE switches
     \/ /\ ctxt # << >> /\ ctxt' = Above(2)
        /\ switches' = IF Holder.kind = "switch" THEN SubSeq(switches, 1, Len(switches) - 1)
                                                 ELSE switches
     \/ /\ ctxt # << >> /\ Holder.kind = "if" /\ switches' = switches
        /\ ctxt' = Above(2) \o << Node("if", NoFunc, "else"), Inner >>
     \/ In("switch") /\ ctxt' = ctxt /\ \E t \in Trackers : switches' = Track(t)
  /\ marked' \subseteq {"main", "print"}
  /\ errors' \in BOOLEAN /\ validated' \in BOOLEAN

LEMMA VStepKeeps ==
  ASSUME ValInv, VStep
  PROVE  ValInv'
<1>1. StackInv
  BY DEF ValInv
<1>2. StackInv'
  <2>1. CASE ctxt' = ctxt /\ switches' = switches
    BY <1>1, <2>1, StackInvKept
  <2>2. ASSUME NEW kind \in {"function", "if", "loop", "label", "switch"}, NEW of \in Owners,
               NEW part \in {"then", "else", "body"}, ctxt' = Down(kind, of, part),
               switches' = IF kind = "switch" THEN Append(switches, NewTracker) ELSE switches
        PROVE  StackInv'
    BY <1>1, <2>2, StackInvEnter
  <2>3. CASE /\ ctxt # << >> /\ ctxt' = Above(2)
             /\ switches' = IF Holder.kind = "switch" THEN SubSeq(switches, 1, Len(switches) - 1)
                                                      ELSE switches
    BY <1>1, <2>3, StackInvUp
  <2>4. CASE /\ ctxt # << >> /\ Holder.kind = "if" /\ switches' = switches
             /\ ctxt' = Above(2) \o << Node("if", NoFunc, "else"), Inner >>
    BY <1>1, <2>4, StackInvElse
  <2>5. CASE In("switch") /\ ctxt' = ctxt /\ \E t \in Trackers : switches' = Track(t)
    BY <1>1, <2>5, StackInvTrack
  <2> QED
    BY <2>1, <2>2, <2>3, <2>4, <2>5 DEF VStep
<1> QED
  BY <1>2 DEF VStep, ValInv

LEMMA VisitSteps ==
  ASSUME ValInv, Next
  PROVE  VStep
<1> USE DEF ValInv
<1> DEFINE Scalars == /\ marked' \subseteq {"main", "print"}
                      /\ errors' \in BOOLEAN /\ validated' \in BOOLEAN
           Same == ctxt' = ctxt /\ switches' = switches
           Enters == \E kind \in {"function", "if", "loop", "label", "switch"}, of \in Owners,
                       part \in {"then", "else", "body"} :
                     /\ ctxt' = Down(kind, of, part)
                     /\ switches' = IF kind = "switch" THEN Append(switches, NewTracker) ELSE switches
           Leaves == /\ ctxt # << >> /\ ctxt' = Above(2)
                     /\ switches' = IF Holder.kind = "switch"
                                    THEN SubSeq(switches, 1, Len(switches) - 1) ELSE switches
           Turns == /\ ctxt # << >> /\ Holder.kind = "if" /\ switches' = switches
                    /\ ctxt' = Above(2) \o << Node("if", NoFunc, "else"), Inner >>
           Tracks == In("switch") /\ ctxt' = ctxt /\ \E t \in Trackers : switches' = Track(t)
<1> SUFFICES Scalars /\ (Same \/ Enters \/ Leaves \/ Turns \/ Tracks)
  BY DEF VStep
<1>1. NoFunc \in Owners /\ Funcs \subseteq Owners
  BY DEF Owners
<1>2. \A f \in Funcs : Noted(f) \subseteq {"main", "print"}
  BY ValidatorAssumption DEF Noted
<1>3. \A kind : InBody(kind) => ctxt # << >>
  BY DEF InBody
<1>4. ASSUME NEW f \in Funcs, DeclareFunction(f)
      PROVE  Scalars /\ Same
  BY <1>2, <1>4 DEF DeclareFunction, VDeclareFunction
<1>5. ASSUME NEW f \in Funcs, RepeatMark(f)
      PROVE  Scalars /\ (Same \/ Leaves \/ Turns)
  BY <1>5 DEF RepeatMark, VDuplicate
<1>6. ASSUME NEW f \in Funcs, EnterFunction(f)
      PROVE  Scalars /\ Enters
  BY <1>1, <1>2, <1>6 DEF EnterFunction, VEnterFunction
<1>7. CASE ExitFunction
  BY <1>3, <1>7 DEF ExitFunction, VExitFunction, InBody
<1>8. CASE ExitProgram
  BY <1>8 DEF ExitProgram, VExitProgram
<1>9. ASSUME NEW init, VarDecl(init)
      PROVE  Scalars /\ Same
  BY <1>9 DEF VarDecl, Stays
<1>10. CASE ExprStmt \/ Break \/ Continue \/ Return
  BY <1>10 DEF ExprStmt, Break, Continue, Return, Statement, Stays
<1>11. ASSUME NEW vs \in SUBSET CaseVals, Case(vs)
       PROVE  Scalars /\ (Same \/ Tracks)
  <2>1. CASE VCase(vs)
    <3>1. In("switch") /\ Tracker \in Trackers
      BY <2>1, HasTracker DEF VCase, CaseAllowed
    <3>2. [Tracker EXCEPT !.cases = @ \cup vs] \in Trackers
      BY <3>1 DEF Trackers
    <3> QED
      BY <2>1, <3>1, <3>2 DEF VCase
  <2>2. ASSUME NEW before \in SUBSET vs, VRepeatedCase(vs, before)
        PROVE  Scalars /\ (Same \/ Tracks)
    <3>1. Scalars /\ ctxt' = ctxt
      BY <2>2 DEF VRepeatedCase
    <3>2. CASE In("switch")
      <4>1. Tracker \in Trackers
        BY <3>2, HasTracker
      <4>2. [Tracker EXCEPT !.cases = @ \cup before] \in Trackers
        BY <4>1 DEF Trackers
      <4> QED
        BY <2>2, <3>1, <3>2, <4>2 DEF VRepeatedCase
    <3>3. CASE ~In("switch")
      BY <2>2, <3>1, <3>3 DEF VRepeatedCase
    <3> QED
      BY <3>2, <3>3
  <2> QED
    BY <1>11, <2>1, <2>2 DEF Case
<1>12. CASE Default
  <2>1. CASE VDefault
    <3>1. In("switch") /\ Tracker \in Trackers
      BY <2>1, HasTracker DEF VDefault
    <3>2. [Tracker EXCEPT !.dflt = TRUE] \in Trackers
      BY <3>1 DEF Trackers
    <3> QED
      BY <2>1, <3>1, <3>2 DEF VDefault
  <2>2. CASE Stays(FALSE)
    BY <2>2 DEF Stays
  <2> QED
    BY <1>12, <2>1, <2>2 DEF Default
<1>13. CASE EnterIf \/ EnterLabel
  BY <1>1, <1>13 DEF EnterIf, EnterLabel, VEnterIf, VEnterLabel
<1>14. CASE EnterSwitch
  BY <1>1, <1>14 DEF EnterSwitch, VEnterSwitch
<1>15. ASSUME NEW init, EnterLoop(init)
       PROVE  Scalars /\ Enters
  BY <1>1, <1>15 DEF EnterLoop, VEnterLoop
<1>16. CASE Else
  BY <1>3, <1>16 DEF Else, VElse, InBody
<1>17. CASE ExitIf \/ ExitLabel \/ ExitLoop
  BY <1>3, <1>17 DEF ExitIf, ExitLabel, ExitLoop, VExit, InBody
<1>18. CASE ExitSwitch
  BY <1>3, <1>18 DEF ExitSwitch, VExitSwitch, InBody
<1>19. CASE Finished
  BY <1>19 DEF Finished, vars, vvars
<1> HIDE DEF Scalars, Same, Enters, Leaves, Turns, Tracks
<1> QED
  BY <1>4, <1>5, <1>6, <1>7, <1>8, <1>9, <1>10, <1>11, <1>12, <1>13, <1>14, <1>15, <1>16, <1>17,
     <1>18, <1>19 DEF Next

(***************************************************************************)
(* The contents of the visits in progress: what a visit has sorted, and     *)
(* what is still in its queue                                              *)
(***************************************************************************)

Depth == Len(visits)
Content(j) == Drained(IF j = 0 THEN NewVisit(<< >>) ELSE visits[j],
                      IF j = Depth THEN current_q ELSE queue_stack[j + 1])

Queues ==
  /\ current_q \in Seq(Items) /\ queue_stack \in Seq(Seq(Items)) /\ visits \in Seq(Parts)
  /\ Len(queue_stack) = Depth

LEMMA DepthType ==
  ASSUME Queues
  PROVE  Depth \in Nat
BY DEF Queues, Depth

LEMMA ContentIs ==
  ASSUME Queues, NEW j \in 0 .. Depth
  PROVE  /\ Content(j) = Plus(IF j = 0 THEN NewVisit(<< >>) ELSE visits[j],
                              Sorted(IF j = Depth THEN current_q ELSE queue_stack[j + 1]))
         /\ (IF j = 0 THEN NewVisit(<< >>) ELSE visits[j]) \in Parts
         /\ (IF j = Depth THEN current_q ELSE queue_stack[j + 1]) \in Seq(Items)
         /\ Content(j) \in Parts
<1> DEFINE v == IF j = 0 THEN NewVisit(<< >>) ELSE visits[j]
           q == IF j = Depth THEN current_q ELSE queue_stack[j + 1]
<1>1. v \in Parts
  <2>1. << >> \in Seq(Only(Items, "item"))
    OBVIOUS
  <2>2. NewVisit(<< >>) \in Parts
    BY <2>1, NewVisitType
  <2>3. j # 0 => visits[j] \in Parts
    BY DEF Queues, Depth
  <2> QED
    BY <2>2, <2>3
<1>2. q \in Seq(Items)
  <2>1. j # Depth => j + 1 \in 1 .. Len(queue_stack)
    BY DEF Queues, Depth
  <2> QED
    BY <2>1 DEF Queues
<1> HIDE DEF v, q
<1>3. Drained(v, q) = Plus(v, Sorted(q))
  BY DrainedIs
<1>4. Plus(v, Sorted(q)) \in Parts
  BY <1>1, <1>2, SortedParts, PlusType
<1> QED
  BY <1>1, <1>2, <1>3, <1>4 DEF Content, v, q

LEMMA PlusSorted ==
  ASSUME NEW v \in Parts, NEW p \in Seq(Items), NEW q \in Seq(Items)
  PROVE  Plus(v, Sorted(p \o q)) = Plus(Plus(v, Sorted(p)), Sorted(q))
<1>1. Sorted(p) \in Parts /\ Sorted(q) \in Parts
  BY SortedParts
<1>2. Plus(v, Sorted(p \o q)) = Plus(v, Plus(Sorted(p), Sorted(q)))
  BY SortedPlus
<1> QED
  BY <1>1, <1>2, PlusAssociative

\* Items that are emitted are added to the visit on top.
LEMMA ContentEmit ==
  ASSUME Queues, NEW items \in Seq(Items), current_q' = current_q \o items,
         queue_stack' = queue_stack, visits' = visits
  PROVE  /\ Queues' /\ Depth' = Depth
         /\ \A j \in 0 .. Depth : j # Depth => Content(j)' = Content(j)
         /\ Content(Depth)' = Plus(Content(Depth), Sorted(items))
<1>1. Queues' /\ Depth' = Depth
  BY DEF Queues, Depth
<1>2. ASSUME NEW j \in 0 .. Depth, j # Depth PROVE Content(j)' = Content(j)
  BY <1>1, <1>2 DEF Content
<1>3. Content(Depth)' = Plus(Content(Depth), Sorted(items))
  <2> DEFINE v == IF Depth = 0 THEN NewVisit(<< >>) ELSE visits[Depth]
  <2>1. Depth \in 0 .. Depth
    BY DepthType
  <2>2. v \in Parts /\ Content(Depth) = Plus(v, Sorted(current_q))
    BY <2>1, ContentIs
  <2>3. Content(Depth)' = Drained(v, current_q \o items)
    BY <1>1 DEF Content
  <2> HIDE DEF v
  <2>4. Content(Depth)' = Plus(v, Sorted(current_q \o items))
    BY <2>3, DrainedIs
  <2>5. Plus(v, Sorted(current_q \o items)) = Plus(Plus(v, Sorted(current_q)), Sorted(items))
    BY <2>2, PlusSorted DEF Queues
  <2> QED
    BY <2>2, <2>4, <2>5
<1> QED
  BY <1>1, <1>2, <1>3

\* A branch is done: the visit on top sorts what its queue holds.
LEMMA ContentElse ==
  ASSUME Queues, NEW sep \in Only(Items, "item"), Depth # 0,
         visits' = [visits EXCEPT ![Len(visits)] = Drained(@, Append(current_q, sep))],
         current_q' = << >>, queue_stack' = queue_stack
  PROVE  /\ Queues' /\ Depth' = Depth
         /\ \A j \in 0 .. Depth : j # Depth => Content(j)' = Content(j)
         /\ Content(Depth)' = Plus(Content(Depth), NewVisit(<< sep >>))
<1> DEFINE v == visits[Depth]
           q == Append(current_q, sep)
           w == Plus(v, Sorted(q))
<1>1. /\ Depth \in 0 .. Depth /\ Depth \in 1 .. Len(visits) /\ Depth \in 1 .. Depth
      /\ visits \in Seq(Parts)
  BY DepthType DEF Queues, Depth
<1>2. << sep >> \in Seq(Only(Items, "item"))
  OBVIOUS
<1>3. /\ << sep >> \in Seq(Items) /\ Sorted(<< sep >>) = NewVisit(<< sep >>)
      /\ current_q \in Seq(Items)
  BY <1>2, SortedAlike DEF NewVisit, Queues
<1>4. q = current_q \o << sep >> /\ q \in Seq(Items)
  BY <1>3
<1>5. v \in Parts
  BY <1>1
<1>6. Content(Depth) = Plus(v, Sorted(current_q))
  BY <1>1, ContentIs
<1>7. w \in Parts /\ w = Plus(Content(Depth), NewVisit(<< sep >>))
  <2>1. Plus(v, Sorted(current_q \o << sep >>)) = Plus(Plus(v, Sorted(current_q)), Sorted(<< sep >>))
    BY <1>3, <1>5, PlusSorted
  <2>2. w \in Parts
    BY <1>4, <1>5, SortedParts, PlusType
  <2> QED
    BY <1>3, <1>4, <1>6, <2>1, <2>2
<1>8. visits' = [visits EXCEPT ![Depth] = w]
  <2>1. Drained(v, q) = w
    BY DrainedIs
  <2> HIDE DEF q, w
  <2> QED
    BY <2>1 DEF Depth, q
<1> HIDE DEF v, q, w
<1>9. /\ visits' \in Seq(Parts) /\ Len(visits') = Len(visits)
      /\ \A j \in 1 .. Depth : visits'[j] = IF j = Depth THEN w ELSE visits[j]
  BY <1>1, <1>7, <1>8, Replaced DEF Depth
<1>10. Queues' /\ Depth' = Depth
  <2>1. current_q' \in Seq(Items)
    BY EmptySeq
  <2> QED
    BY <1>9, <2>1 DEF Queues, Depth
<1>11. ASSUME NEW j \in 0 .. Depth, j # Depth PROVE Content(j)' = Content(j)
  <2>1. j # 0 => visits'[j] = visits[j]
    <3>1. j # 0 => j \in 1 .. Depth
      BY <1>1
    <3> QED
      BY <1>9, <1>11, <3>1
  <2> QED
    BY <1>10, <1>11, <2>1 DEF Content
<1>12. Content(Depth)' = w
  <2>1. Content(Depth)' = Plus(visits'[Depth], Sorted(<< >>))
    <3>1. Depth' \in 0 .. Depth'
      BY <1>1, <1>10
    <3>2. Content(Depth)' = Drained(visits'[Depth], << >>)
      BY <1>10 DEF Content
    <3> QED
      BY <3>2, DrainedIs
  <2>2. visits'[Depth] = w
    BY <1>1, <1>9
  <2> QED
    BY <1>7, <2>1, <2>2, SortedNothing, PlusNothing
<1> QED
  BY <1>7, <1>10, <1>11, <1>12

\* A visit with a queue of its own is put on top.
LEMMA ContentPush ==
  ASSUME Queues, NEW D, D = Depth, NEW items \in Seq(Items), NEW v \in Parts, NEW q \in Seq(Items),
         queue_stack' = Append(queue_stack, current_q \o items), visits' = Append(visits, v),
         current_q' = q
  PROVE  /\ Queues' /\ D \in Nat /\ Depth' = D + 1
         /\ \A j \in 0 .. D : j # D => Content(j)' = Content(j)
         /\ Content(D)' = Plus(Content(D), Sorted(items))
         /\ Content(D + 1)' = Plus(v, Sorted(q))
<1>1. /\ D \in Nat /\ D = Len(visits) /\ D = Len(queue_stack) /\ visits \in Seq(Parts)
      /\ current_q \in Seq(Items) /\ queue_stack \in Seq(Seq(Items))
  BY DepthType DEF Queues, Depth
<1> DEFINE c == current_q \o items
<1>2. c \in Seq(Items)
  BY <1>1
<1> HIDE DEF c
<1>3. /\ visits' \in Seq(Parts) /\ Len(visits') = D + 1 /\ visits'[D + 1] = v
      /\ \A j \in 1 .. D : visits'[j] = visits[j]
  <2>1. visits \in Seq(Parts) /\ v \in Parts /\ visits' = Append(visits, v) /\ D = Len(visits)
    BY <1>1
  <2>2. /\ Append(visits, v) \in Seq(Parts) /\ Len(Append(visits, v)) = Len(visits) + 1
        /\ Append(visits, v)[Len(visits) + 1] = v
        /\ \A j \in 1 .. Len(visits) : Append(visits, v)[j] = visits[j]
    BY ONLY <2>1, Appended
  <2> QED
    BY ONLY <2>1, <2>2
<1>4. queue_stack' = Append(queue_stack, c)
  BY DEF c
<1>5. /\ queue_stack' \in Seq(Seq(Items)) /\ Len(queue_stack') = D + 1 /\ queue_stack'[D + 1] = c
      /\ \A j \in 1 .. D : queue_stack'[j] = queue_stack[j]
  BY <1>1, <1>2, <1>4, Appended
<1>6. Queues' /\ Depth' = D + 1
  BY <1>3, <1>5 DEF Queues, Depth
<1>7. ASSUME NEW j \in 0 .. D, j # D PROVE Content(j)' = Content(j)
  <2>1. /\ j # D + 1 /\ j + 1 \in 1 .. D /\ (j # 0 => j \in 1 .. D)
    BY <1>1, <1>7
  <2>2. queue_stack'[j + 1] = queue_stack[j + 1] /\ (j # 0 => visits'[j] = visits[j])
    BY <1>3, <1>5, <2>1
  <2> QED
    BY <1>6, <1>7, <2>1, <2>2 DEF Content
<1>8. Content(D)' = Plus(Content(D), Sorted(items))
  <2> DEFINE w == IF D = 0 THEN NewVisit(<< >>) ELSE visits[D]
  <2>1. D \in 0 .. Depth
    BY <1>1
  <2>2. w \in Parts /\ Content(D) = Plus(w, Sorted(current_q))
    BY <2>1, ContentIs
  <2>3. Content(D)' = Drained(w, c)
    <3>1. D # D + 1 /\ (D # 0 => visits'[D] = visits[D])
      BY <1>1, <1>3
    <3> QED
      BY <1>5, <1>6, <3>1 DEF Content
  <2> HIDE DEF w
  <2>4. Content(D)' = Plus(w, Sorted(current_q \o items))
    BY <2>3, DrainedIs DEF c
  <2>5. Plus(w, Sorted(current_q \o items)) = Plus(Plus(w, Sorted(current_q)), Sorted(items))
    BY <1>1, <2>2, PlusSorted
  <2> QED
    BY <2>2, <2>4, <2>5
<1>9. Content(D + 1)' = Plus(v, Sorted(q))
  <2>1. Content(D + 1)' = Drained(v, q)
    BY <1>1, <1>3, <1>6 DEF Content
  <2> QED
    BY <2>1, DrainedIs
<1> QED
  BY <1>1, <1>6, <1>7, <1>8, <1>9

\* The visit on top is done, and what it emits is added to the one below.
LEMMA ContentPop ==
  ASSUME Queues, NEW D, D = Depth, D # 0, NEW items \in Seq(Items), PopQueue(items)
  PROVE  /\ Queues' /\ D \in Nat \ {0} /\ Depth' = D - 1
         /\ \A j \in 0 .. D - 1 : j # D - 1 => Content(j)' = Content(j)
         /\ Content(D - 1)' = Plus(Content(D - 1), Sorted(items))
<1>1. /\ D \in Nat \ {0} /\ D = Len(visits) /\ D = Len(queue_stack) /\ visits \in Seq(Parts)
      /\ current_q \in Seq(Items) /\ queue_stack \in Seq(Seq(Items))
  BY DepthType DEF Queues, Depth
<1>2. /\ current_q' = queue_stack[D] \o items /\ queue_stack' = SubSeq(queue_stack, 1, D - 1)
      /\ visits' = SubSeq(visits, 1, D - 1)
  BY <1>1 DEF PopQueue, Below
<1>3. queue_stack[D] \in Seq(Items) /\ current_q' \in Seq(Items)
  BY <1>1, <1>2
<1>4. D - 1 \in 0 .. Len(visits) /\ D - 1 \in 0 .. Len(queue_stack)
  BY <1>1
<1>5. /\ visits' \in Seq(Parts) /\ Len(visits') = D - 1
      /\ \A j \in 1 .. D - 1 : visits'[j] = visits[j]
  BY <1>1, <1>2, <1>4, Front
<1>6. /\ queue_stack' \in Seq(Seq(Items)) /\ Len(queue_stack') = D - 1
      /\ \A j \in 1 .. D - 1 : queue_stack'[j] = queue_stack[j]
  BY <1>1, <1>2, <1>4, Front
<1>7. Queues' /\ Depth' = D - 1
  BY <1>3, <1>5, <1>6 DEF Queues, Depth
<1>8. ASSUME NEW j \in 0 .. D - 1, j # D - 1 PROVE Content(j)' = Content(j)
  <2>1. j # D /\ j + 1 \in 1 .. D - 1 /\ (j # 0 => j \in 1 .. D - 1)
    BY <1>1, <1>8
  <2>2. queue_stack'[j + 1] = queue_stack[j + 1] /\ (j # 0 => visits'[j] = visits[j])
    BY <1>5, <1>6, <2>1
  <2> QED
    BY <1>7, <1>8, <2>1, <2>2 DEF Content
<1>9. Content(D - 1)' = Plus(Content(D - 1), Sorted(items))
  <2> DEFINE E == D - 1
             w == IF E = 0 THEN NewVisit(<< >>) ELSE visits[E]
  <2>1. E \in 0 .. Depth /\ E # Depth /\ E + 1 = D
    BY <1>1
  <2>2. w \in Parts /\ Content(E) = Plus(w, Sorted(queue_stack[D]))
    <3> HIDE DEF E
    <3> QED
      BY <2>1, ContentIs
  <2>3. Content(E)' = Drained(w, queue_stack[D] \o items)
    <3>1. E # 0 => visits'[E] = visits[E]
      BY <1>1, <1>5
    <3> HIDE DEF E
    <3>2. Depth' = E
      BY <1>7 DEF E
    <3> QED
      BY <1>2, <3>1, <3>2 DEF Content
  <2> HIDE DEF w, E
  <2>4. Content(E)' = Plus(w, Sorted(queue_stack[D] \o items))
    BY <2>3, DrainedIs
  <2>5. Plus(w, Sorted(queue_stack[D] \o items)) = Plus(Plus(w, Sorted(queue_stack[D])), Sorted(items))
    BY <1>3, <2>2, PlusSorted
  <2> QED
    BY <2>2, <2>4, <2>5 DEF E
<1> QED
  BY <1>1, <1>7, <1>8, <1>9

(***************************************************************************)
(* What has been met of the function a visit is in: the contents of the     *)
(* visits, one after the other, from where the function starts              *)
(***************************************************************************)

\* The j-th visit is the visit of a function.
Opens(j) == ctxt[2 * j - 1].kind = "function"
Onto(opens, below, p) == IF opens THEN Starting(below, p) ELSE Plus(below, p)

Ledger(t) ==
  /\ t[0] = Content(0)
  /\ \A j \in 1 .. Depth : t[j] = Onto(Opens(j), t[j - 1], Content(j))

LEMMA OntoType ==
  ASSUME NEW opens, NEW a \in Parts, NEW b \in Parts, NEW c \in Parts
  PROVE  /\ Onto(opens, a, b) \in Parts
         /\ Plus(Onto(opens, a, b), c) = Onto(opens, a, Plus(b, c))
<1>1. Plus(a, b) \in Parts /\ Starting(a, b) \in Parts
  BY PlusType
<1>2. Plus(Plus(a, b), c) = Plus(a, Plus(b, c)) /\ Plus(Starting(a, b), c) = Starting(a, Plus(b, c))
  BY PlusAssociative
<1> QED
  BY <1>1, <1>2 DEF Onto

\* p is added to the visit at k, which is on top afterwards.
LEMMA LedgerTop ==
  ASSUME Queues, NEW t \in [0 .. Depth -> Parts], Ledger(t), NEW k \in 0 .. Depth, NEW p \in Parts,
         Depth' = k,
         \A j \in 1 .. k : Opens(j)' <=> Opens(j),
         \A j \in 0 .. k : j # k => Content(j)' = Content(j),
         Content(k)' = Plus(Content(k), p)
  PROVE  \E u \in [0 .. k -> Parts] :
           /\ Ledger(u)' /\ u[k] = Plus(t[k], p)
           /\ \A j \in 0 .. k : j # k => u[j] = t[j]
<1> DEFINE u == [j \in 0 .. k |-> IF j = k THEN Plus(t[k], p) ELSE t[j]]
<1>1. Depth \in Nat /\ k \in Nat /\ \A j \in 0 .. k : j \in 0 .. Depth
  BY DepthType
<1>2. \A j \in 0 .. Depth : Content(j) \in Parts
  BY ContentIs
<1>3. \A j \in 0 .. k : t[j] \in Parts
  BY <1>1
<1>4. Plus(t[k], p) \in Parts
  BY <1>1, <1>3, PlusType
<1>5. u \in [0 .. k -> Parts]
  BY <1>3, <1>4
<1>6. /\ u[k] = Plus(t[k], p) /\ \A j \in 0 .. k : j # k => u[j] = t[j]
  BY <1>1
<1> HIDE DEF u
<1>7. t[0] = Content(0) /\ \A j \in 1 .. Depth : t[j] = Onto(Opens(j), t[j - 1], Content(j))
  BY DEF Ledger
<1>8. u[0] = Content(0)'
  <2>1. CASE k = 0
    BY <1>6, <1>7, <2>1
  <2>2. CASE k # 0
    BY <1>1, <1>6, <1>7, <2>2
  <2> QED
    BY <2>1, <2>2
<1>9. ASSUME NEW j \in 1 .. k
      PROVE  u[j] = Onto(Opens(j), u[j - 1], Content(j)')
  <2>1. /\ j \in 0 .. k /\ j \in 1 .. Depth /\ j - 1 \in 0 .. k /\ j - 1 # k
        /\ j \in 0 .. Depth /\ j - 1 \in 0 .. Depth
    BY <1>1
  <2>2. t[j] = Onto(Opens(j), t[j - 1], Content(j)) /\ u[j - 1] = t[j - 1]
    BY <1>6, <1>7, <2>1
  <2>3. CASE j = k
    <3>1. t[j - 1] \in Parts /\ Content(j) \in Parts
      BY <1>2, <1>3, <2>1
    <3>2. Plus(Onto(Opens(j), t[j - 1], Content(j)), p) = Onto(Opens(j), t[j - 1], Plus(Content(j), p))
      BY <3>1, OntoType
    <3> QED
      BY <1>6, <2>2, <2>3, <3>2
  <2>4. CASE j # k
    BY <1>6, <2>1, <2>2, <2>4
  <2> QED
    BY <2>3, <2>4
<1>10. Ledger(u)'
  <2>1. ASSUME NEW j \in 1 .. k PROVE u[j] = Onto(Opens(j)', u[j - 1], Content(j)')
    BY <1>9 DEF Onto
  <2> QED
    BY <1>8, <2>1 DEF Ledger
<1> QED
  BY <1>5, <1>6, <1>10

\* p is added to the visit on top, and a visit that holds q is put on it.
Pushed(D, t, p, q) ==
  /\ Queues /\ D = Depth /\ t \in [0 .. D -> Parts] /\ Ledger(t)
  /\ p \in Parts /\ q \in Parts /\ Depth' = D + 1
  /\ \A j \in 1 .. D : Opens(j)' <=> Opens(j)
  /\ \A j \in 0 .. D : j # D => Content(j)' = Content(j)
  /\ Content(D)' = Plus(Content(D), p) /\ Content(D + 1)' = q

PushedTo(u, D, t, p, q) ==
  /\ u \in [0 .. D + 1 -> Parts] /\ Ledger(u)' /\ u[D] = Plus(t[D], p)
  /\ u[D + 1] = Onto(Opens(D + 1)', u[D], q)
  /\ \A j \in 0 .. D : j # D => u[j] = t[j]

LEMMA LedgerPush ==
  ASSUME NEW D, NEW t, NEW p, NEW q, Pushed(D, t, p, q)
  PROVE  \E u : PushedTo(u, D, t, p, q)
<1> USE DEF Pushed
<1> DEFINE top == Plus(t[D], p)
           new == Onto(Opens(D + 1)', top, q)
           u == [j \in 0 .. D + 1 |-> IF j = D + 1 THEN new ELSE IF j = D THEN top ELSE t[j]]
<1>1. D \in Nat /\ \A j \in 0 .. D : j # D + 1 /\ j \in 0 .. D + 1
  BY DepthType
<1>2. \A j \in 0 .. D : Content(j) \in Parts
  BY ContentIs
<1>3. \A j \in 0 .. D : t[j] \in Parts
  BY <1>1
<1>4. top \in Parts
  BY <1>1, <1>3, PlusType
<1> HIDE DEF top
<1>5. new \in Parts
  BY <1>4, OntoType
<1> HIDE DEF new
<1>6. PICK w : w = u
  OBVIOUS
<1>7. w \in [0 .. D + 1 -> Parts]
  <2>1. ASSUME NEW j \in 0 .. D + 1
        PROVE  (IF j = D + 1 THEN new ELSE IF j = D THEN top ELSE t[j]) \in Parts
    <3>1. j # D + 1 => j \in 0 .. D
      BY <1>1
    <3> QED
      BY <1>3, <1>4, <1>5, <3>1
  <2> QED
    BY <1>6, <2>1
<1>8. /\ w[D] = top /\ w[D + 1] = Onto(Opens(D + 1)', top, q)
      /\ \A j \in 0 .. D : j # D => w[j] = t[j]
  BY <1>1, <1>6 DEF new
<1> HIDE DEF u
<1>9. t[0] = Content(0) /\ \A j \in 1 .. D : t[j] = Onto(Opens(j), t[j - 1], Content(j))
  BY DEF Ledger
<1>10. w[0] = Content(0)'
  <2>1. CASE D = 0
    BY <1>8, <1>9, <2>1 DEF top
  <2>2. CASE D # 0
    BY <1>1, <1>8, <1>9, <2>2
  <2> QED
    BY <2>1, <2>2
<1>11. ASSUME NEW j \in 1 .. D + 1
       PROVE  w[j] = Onto(Opens(j)', w[j - 1], Content(j)')
  <2>1. CASE j = D + 1
    <3>1. j - 1 = D
      BY <1>1, <2>1
    <3> QED
      BY <1>8, <2>1, <3>1
  <2>2. CASE j # D + 1
    <3>1. j \in 1 .. D /\ j \in 0 .. D /\ j - 1 \in 0 .. D /\ j - 1 # D
      BY <1>1, <2>2
    <3>2. t[j] = Onto(Opens(j), t[j - 1], Content(j)) /\ w[j - 1] = t[j - 1]
      BY <1>8, <1>9, <3>1
    <3>3. CASE j = D
      <4>1. t[j - 1] \in Parts /\ Content(j) \in Parts
        BY <1>2, <1>3, <3>1
      <4>2. Plus(Onto(Opens(j), t[j - 1], Content(j)), p) = Onto(Opens(j), t[j - 1], Plus(Content(j), p))
        BY <4>1, OntoType
      <4>3. w[j] = Onto(Opens(j), w[j - 1], Content(j)')
        BY <1>8, <3>2, <3>3, <4>2 DEF top
      <4> QED
        BY <3>1, <4>3 DEF Onto
    <3>4. CASE j # D
      <4>1. w[j] = Onto(Opens(j), w[j - 1], Content(j)')
        BY <1>8, <3>1, <3>2, <3>4
      <4> QED
        BY <3>1, <4>1 DEF Onto
    <3> QED
      BY <3>3, <3>4
  <2> QED
    BY <2>1, <2>2
<1>12. Ledger(w)'
  BY <1>10, <1>11 DEF Ledger
<1> QED
  BY <1>7, <1>8, <1>12 DEF top, PushedTo

(***************************************************************************)
(* The functions around a visit: n[j] of them are open at the j-th visit    *)
(***************************************************************************)

HeadOf(j) == ctxt[2 * j - 1].of
Owner(m) == IF m = 0 THEN NoFunc ELSE func_stack[m]

Levels(n) ==
  /\ n[0] = 0 /\ Len(func_stack) = n[Depth]
  /\ \A j \in 1 .. Depth :
       IF Opens(j)
       THEN /\ n[j] = n[j - 1] + 1
            /\ n[j] \in 1 .. Len(func_stack) /\ func_stack[n[j]] = HeadOf(j)
       ELSE n[j] = n[j - 1]

LEMMA LevelsGrow ==
  ASSUME Depth \in Nat, NEW n \in [0 .. Depth -> Nat], Levels(n)
  PROVE  \A j \in 0 .. Depth : \A i \in 0 .. j : n[i] <= n[j]
<1> DEFINE D == Depth
           S == {j \in 0 .. D : \A i \in 0 .. j : n[i] <= n[j]}
<1>1. D \in Nat /\ \A j \in 0 .. D : n[j] \in Nat
  OBVIOUS
<1>2. \A j \in 1 .. D : n[j - 1] <= n[j]
  <2>1. ASSUME NEW j \in 1 .. D PROVE n[j - 1] <= n[j]
    <3>1. j - 1 \in 0 .. D /\ j \in 0 .. D
      BY <1>1
    <3>2. n[j] = n[j - 1] + 1 \/ n[j] = n[j - 1]
      BY DEF Levels
    <3> QED
      BY <1>1, <3>1, <3>2
  <2> QED
    BY <2>1
<1> HIDE DEF D
<1>3. 0 \in S
  BY <1>1
<1>4. ASSUME NEW k \in 0 .. D, k < D, k \in S PROVE k + 1 \in S
  <2>1. /\ k + 1 \in 1 .. D /\ k + 1 \in 0 .. D /\ (k + 1) - 1 = k
        /\ \A i \in 0 .. k + 1 : i \in 0 .. D /\ (i = k + 1 \/ i \in 0 .. k)
    BY <1>1, <1>4
  <2>2. n[k] <= n[k + 1]
    BY <1>2, <2>1
  <2>3. ASSUME NEW i \in 0 .. k + 1 PROVE n[i] <= n[k + 1]
    BY <1>1, <1>4, <2>1, <2>2
  <2> QED
    BY <2>1, <2>3
<1>5. \A k \in 0 .. D : k \in S
  <2> HIDE DEF S
  <2> QED
    BY <1>1, <1>3, <1>4, Induction
<1> QED
  BY <1>5 DEF D

LEMMA LevelsFlat ==
  ASSUME Depth \in Nat, NEW n \in [0 .. Depth -> Nat], Levels(n), NEW i \in 0 .. Depth,
         \A k \in i + 1 .. Depth : ~Opens(k)
  PROVE  n[Depth] = n[i]
<1> DEFINE D == Depth
           S == {k \in 0 .. D - i : n[i + k] = n[i]}
<1>1. D \in Nat /\ i \in 0 .. D /\ D - i \in Nat
  OBVIOUS
<1>2. \A j \in i + 1 .. D : n[j] = n[j - 1]
  <2>1. \A j \in i + 1 .. D : j \in 1 .. D /\ ~Opens(j)
    BY <1>1
  <2> QED
    BY <2>1 DEF Levels
<1> HIDE DEF D
<1>3. 0 \in S
  BY <1>1
<1>4. ASSUME NEW k \in 0 .. D - i, k < D - i, k \in S PROVE k + 1 \in S
  <2>1. i + (k + 1) \in i + 1 .. D /\ (i + (k + 1)) - 1 = i + k /\ k + 1 \in 0 .. D - i
    BY <1>1, <1>4
  <2>2. n[i + (k + 1)] = n[i + k]
    BY <1>2, <2>1
  <2> QED
    BY <1>4, <2>1, <2>2
<1>5. \A k \in 0 .. D - i : k \in S
  <2> HIDE DEF S
  <2> QED
    BY <1>1, <1>3, <1>4, Induction
<1>6. D - i \in 0 .. D - i /\ i + (D - i) = D
  BY <1>1
<1>7. n[i + (D - i)] = n[i]
  BY <1>5, <1>6
<1> QED
  BY <1>6, <1>7 DEF D

\* A finite set of numbers has a greatest.
LEMMA Greatest ==
  ASSUME NEW m \in Nat, NEW S, S \subseteq 1 .. m, S # {}
  PROVE  \E x \in S : \A y \in S : y <= x
<1> DEFINE T == {k \in Nat : \E x \in S : k = m - x}
<1>1. \A x \in S : x \in 1 .. m /\ m - x \in Nat
  OBVIOUS
<1>2. T \subseteq Nat /\ T # {}
  BY <1>1
<1>3. PICK k \in T : \A j \in T : k <= j
  <2> HIDE DEF T
  <2> QED
    BY <1>2, Least
<1>4. PICK x \in S : k = m - x
  BY <1>3
<1>5. \A y \in S : y <= x
  BY <1>1, <1>3, <1>4
<1> QED
  BY <1>5

LEMMA InNodeIs ==
  ASSUME NEW stack \in Seq(Nodes), NEW kind, NEW p \in 1 .. Len(stack), stack[p].kind = kind,
         \A i \in 1 .. Len(stack) : stack[i].kind = kind => i <= p
  PROVE  InNode(stack, kind) = Len(stack) - p
<1> DEFINE at == {i \in 1 .. Len(stack) : stack[i].kind = kind}
<1>1. Len(stack) \in Nat /\ at \subseteq 1 .. Len(stack) /\ p \in at /\ \A j \in at : j <= p
  OBVIOUS
<1> HIDE DEF at
<1>2. \A i \in at : (\A j \in at : j <= i) => i = p
  BY <1>1
<1>3. (CHOOSE i \in at : \A j \in at : j <= i) = p
  BY <1>1, <1>2
<1>4. at # {}
  BY <1>1
<1>5. InNode(stack, kind) = IF at = {} THEN 0 - 1
                            ELSE Len(stack) - (CHOOSE i \in at : \A j \in at : j <= i)
  BY DEF InNode, at
<1> QED
  BY <1>3, <1>4, <1>5

\* The function that get_context finds is the one on top of func_stack.
LEMMA WithinIs ==
  ASSUME Depth \in Nat, ctxt \in Seq(Nodes), Alternates(ctxt), Len(ctxt) = 2 * Depth,
         NEW n \in [0 .. Depth -> Nat], Levels(n)
  PROVE  Within = Owner(n[Depth])
<1> DEFINE D == Depth
           S == {j \in 1 .. D : Opens(j)}
<1>1. \A i \in 1 .. Len(ctxt) : ctxt[i].kind = "function" =>
        \E j \in 1 .. D : i = 2 * j - 1 /\ Opens(j)
  <2>1. PICK d \in Nat : /\ Len(ctxt) = 2 * d
                         /\ \A i \in 1 .. d : ctxt[2 * i - 1].kind # "compound" /\ ctxt[2 * i].kind = "compound"
    BY DEF Alternates
  <2>2. d = D
    BY <2>1
  <2>3. ASSUME NEW i \in 1 .. Len(ctxt), ctxt[i].kind = "function"
        PROVE  \E j \in 1 .. D : i = 2 * j - 1 /\ Opens(j)
    <3>1. PICK j \in 1 .. D : i = 2 * j - 1 \/ i = 2 * j
      <4>1. (\E j \in 1 .. D : i = 2 * j - 1) \/ (\E j \in 1 .. D : i = 2 * j)
        <5>1. i \in 1 .. 2 * D /\ D \in Nat
          OBVIOUS
        <5>2. PICK h : h = i \div 2
          OBVIOUS
        <5>3. h \in Nat /\ (i = 2 * h \/ i = 2 * h + 1)
          BY <5>1, <5>2
        <5>4. CASE i = 2 * h
          BY <5>1, <5>3, <5>4
        <5>5. CASE i = 2 * h + 1
          <6>1. h + 1 \in 1 .. D /\ i = 2 * (h + 1) - 1
            BY <5>1, <5>3, <5>5
          <6> QED
            BY <6>1
        <5> QED
          BY <5>3, <5>4, <5>5
      <4> QED
        BY <4>1
    <3>2. i # 2 * j
      BY <2>1, <2>2, <2>3
    <3> QED
      BY <2>3, <3>1, <3>2 DEF Opens
  <2> QED
    BY <2>3
<1>2. \A j \in 1 .. D : 2 * j - 1 \in 1 .. Len(ctxt)
  OBVIOUS
<1>3. CASE S = {}
  <2>1. \A i \in 1 .. Len(ctxt) : ctxt[i].kind # "function"
    BY <1>1, <1>3
  <2>2. Within = NoFunc
    BY <2>1 DEF Within, InNode
  <2>3. n[D] = n[0]
    <3>1. 0 \in 0 .. Depth /\ \A k \in 0 + 1 .. Depth : ~Opens(k)
      BY <1>3
    <3> QED
      BY <3>1, LevelsFlat
  <2> QED
    BY <2>2, <2>3 DEF Owner, Levels
<1>4. CASE S # {}
  <2>1. PICK p \in S : \A y \in S : y <= p
    <3>1. D \in Nat /\ S \subseteq 1 .. D
      OBVIOUS
    <3> HIDE DEF D, S
    <3> QED
      BY <1>4, <3>1, Greatest
  <2>2. p \in 1 .. D /\ p \in 0 .. D /\ Opens(p) /\ \A k \in p + 1 .. D : ~Opens(k)
    BY <2>1
  <2>3. n[D] = n[p]
    BY <2>2, LevelsFlat
  <2>4. n[p] \in 1 .. Len(func_stack) /\ func_stack[n[p]] = HeadOf(p)
    BY <2>2 DEF Levels
  <2>5. Owner(n[D]) = HeadOf(p)
    BY <2>3, <2>4 DEF Owner
  <2>6. InNode(ctxt, "function") = Len(ctxt) - (2 * p - 1)
    <3>1. 2 * p - 1 \in 1 .. Len(ctxt) /\ ctxt[2 * p - 1].kind = "function"
      BY <1>2, <2>2 DEF Opens
    <3>2. ASSUME NEW i \in 1 .. Len(ctxt), ctxt[i].kind = "function" PROVE i <= 2 * p - 1
      <4>1. PICK j \in 1 .. D : i = 2 * j - 1 /\ Opens(j)
        BY <1>1, <3>2
      <4>2. j <= p
        BY <2>1, <4>1
      <4> QED
        BY <2>2, <4>1, <4>2
    <3> QED
      BY <3>1, <3>2, InNodeIs
  <2>7. /\ Len(ctxt) - (2 * p - 1) >= 0
        /\ Len(ctxt) - (Len(ctxt) - (2 * p - 1)) = 2 * p - 1
    BY <1>2, <2>2
  <2>8. Within = HeadOf(p)
    BY <2>6, <2>7 DEF Within, HeadOf
  <2> QED
    BY <2>5, <2>8
<1> QED
  BY <1>3, <1>4

(***************************************************************************)
(* How the functions around a visit change                                 *)
(***************************************************************************)

\* The visits below level k are in the same functions as before.
SameBelow(k) ==
  \A j \in 1 .. k : (Opens(j)' <=> Opens(j)) /\ (Opens(j) => HeadOf(j)' = HeadOf(j))

LEMMA HeadsSame ==
  ASSUME ctxt' = ctxt, NEW D
  PROVE  SameBelow(D)
BY DEF SameBelow, Opens, HeadOf

LEMMA HeadsDown ==
  ASSUME NEW D \in Nat, ctxt \in Seq(Nodes), Len(ctxt) = 2 * D,
         NEW kind, NEW of, NEW part, ctxt' = Down(kind, of, part)
  PROVE  /\ SameBelow(D) /\ Len(ctxt') = 2 * (D + 1)
         /\ Opens(D + 1)' <=> kind = "function"
         /\ HeadOf(D + 1)' = of
<1> DEFINE a == Node(kind, of, part)
           b == Node("compound", NoFunc, "body")
<1>1. ctxt' = ctxt \o << a, b >> /\ a.kind = kind /\ a.of = of
  BY DEF Down, Node
<1> HIDE DEF a, b
<1>2. /\ Len(ctxt') = Len(ctxt) + 2 /\ \A i \in 1 .. Len(ctxt) : ctxt'[i] = ctxt[i]
      /\ ctxt'[Len(ctxt) + 1] = a
  BY <1>1, TwoMore
<1>3. 2 * (D + 1) - 1 = Len(ctxt) + 1 /\ Len(ctxt) + 2 = 2 * (D + 1)
  OBVIOUS
<1>4. \A j \in 1 .. D : 2 * j - 1 \in 1 .. Len(ctxt)
  OBVIOUS
<1>5. SameBelow(D)
  BY <1>2, <1>4 DEF SameBelow, Opens, HeadOf
<1>6. ctxt'[2 * (D + 1) - 1] = a
  BY <1>2, <1>3
<1> QED
  BY <1>1, <1>2, <1>3, <1>5, <1>6 DEF Opens, HeadOf

LEMMA HeadsUp ==
  ASSUME NEW D \in Nat \ {0}, ctxt \in Seq(Nodes), Len(ctxt) = 2 * D, ctxt' = Above(2)
  PROVE  SameBelow(D - 1) /\ Len(ctxt') = 2 * (D - 1)
<1>1. Len(ctxt) - 2 \in 0 .. Len(ctxt) /\ Len(ctxt) - 2 = 2 * (D - 1)
  OBVIOUS
<1>2. /\ Len(ctxt') = Len(ctxt) - 2
      /\ \A i \in 1 .. Len(ctxt) - 2 : ctxt'[i] = ctxt[i]
  BY <1>1, Front DEF Above
<1>3. \A j \in 1 .. D - 1 : 2 * j - 1 \in 1 .. Len(ctxt) - 2
  OBVIOUS
<1> QED
  BY <1>1, <1>2, <1>3 DEF SameBelow, Opens, HeadOf

LEMMA HeadsElse ==
  ASSUME NEW D \in Nat \ {0}, ctxt \in Seq(Nodes), Len(ctxt) = 2 * D, Holder.kind = "if",
         ctxt' = Above(2) \o << Node("if", NoFunc, "else"), Inner >>
  PROVE  SameBelow(D) /\ Len(ctxt') = 2 * D
<1> DEFINE s == Above(2)
           a == Node("if", NoFunc, "else")
<1>1. Len(ctxt) - 2 \in 0 .. Len(ctxt) /\ Len(ctxt) - 2 = 2 * (D - 1)
  OBVIOUS
<1>2. /\ s \in Seq(Nodes) /\ Len(s) = Len(ctxt) - 2
      /\ \A i \in 1 .. Len(ctxt) - 2 : s[i] = ctxt[i]
  BY <1>1, Front DEF Above
<1>3. a.kind = "if" /\ ctxt' = s \o << a, Inner >>
  BY DEF Node
<1> HIDE DEF s, a
<1>4. /\ Len(ctxt') = Len(s) + 2 /\ \A i \in 1 .. Len(s) : ctxt'[i] = s[i]
      /\ ctxt'[Len(s) + 1] = a
  <2> DEFINE b == Inner
  <2> HIDE DEF b
  <2>1. /\ Len(s \o << a, b >>) = Len(s) + 2 /\ (s \o << a, b >>)[Len(s) + 1] = a
        /\ \A i \in 1 .. Len(s) : (s \o << a, b >>)[i] = s[i]
    BY ONLY <1>2, TwoMore
  <2>2. ctxt' = s \o << a, b >>
    BY <1>3 DEF b
  <2> QED
    BY <2>1, <2>2
<1>5. \A j \in 1 .. D - 1 : 2 * j - 1 \in 1 .. Len(ctxt) - 2
  OBVIOUS
<1>6. 2 * D - 1 = Len(s) + 1 /\ 2 * D - 1 = Len(ctxt) - 1 /\ Len(s) + 2 = 2 * D
  BY <1>1, <1>2
<1>7. ctxt'[2 * D - 1] = a /\ ctxt[2 * D - 1] = Holder
  BY <1>4, <1>6 DEF Holder
<1>8. SameBelow(D - 1)
  BY <1>2, <1>4, <1>5 DEF SameBelow, Opens, HeadOf
<1>9. ~Opens(D)' /\ ~Opens(D)
  BY <1>3, <1>7 DEF Opens
<1>10. \A j \in 1 .. D : j = D \/ j \in 1 .. D - 1
  OBVIOUS
<1>11. SameBelow(D)
  BY <1>8, <1>9, <1>10 DEF SameBelow
<1> QED
  BY <1>4, <1>6, <1>11

LEMMA LevelsTop ==
  ASSUME Depth \in Nat, NEW n \in [0 .. Depth -> Nat], Levels(n), NEW k \in 0 .. Depth,
         \A j \in k + 1 .. Depth : ~Opens(j),
         Depth' = k, func_stack' = func_stack, SameBelow(k)
  PROVE  /\ n[k] = n[Depth]
         /\ \E m \in [0 .. k -> Nat] : Levels(m)' /\ \A j \in 0 .. k : m[j] = n[j]
<1> DEFINE m == [j \in 0 .. k |-> n[j]]
<1>1. n[k] = n[Depth]
  BY LevelsFlat
<1>2. k \in Nat /\ \A j \in 0 .. k : j \in 0 .. Depth /\ m[j] = n[j]
  OBVIOUS
<1>3. m \in [0 .. k -> Nat]
  BY <1>2
<1>4. PICK w : w = m
  OBVIOUS
<1> HIDE DEF m
<1>5. \A j \in 1 .. k : j \in 1 .. Depth /\ w[j] = n[j] /\ w[j - 1] = n[j - 1]
  BY <1>2, <1>4
<1>6. w[0] = 0 /\ Len(func_stack) = w[k]
  BY <1>1, <1>2, <1>4 DEF Levels
<1>7. Levels(w)'
  BY <1>5, <1>6 DEF Levels, SameBelow
<1> QED
  BY <1>1, <1>2, <1>3, <1>4, <1>7

LEMMA LevelsDown ==
  ASSUME NEW D \in Nat, D = Depth, NEW n \in [0 .. D -> Nat], Levels(n), Depth' = D + 1,
         func_stack' = func_stack, SameBelow(D), ~Opens(D + 1)'
  PROVE  \E m \in [0 .. D + 1 -> Nat] :
           /\ Levels(m)' /\ m[D + 1] = n[D]
           /\ \A j \in 0 .. D : m[j] = n[j]
<1> DEFINE m == [j \in 0 .. D + 1 |-> IF j = D + 1 THEN n[D] ELSE n[j]]
<1>1. m \in [0 .. D + 1 -> Nat]
  <2>1. ASSUME NEW j \in 0 .. D + 1 PROVE (IF j = D + 1 THEN n[D] ELSE n[j]) \in Nat
    <3>1. D \in 0 .. D /\ (j # D + 1 => j \in 0 .. D)
      OBVIOUS
    <3> QED
      BY <3>1
  <2> QED
    BY <2>1
<1>2. m[D + 1] = n[D] /\ \A j \in 0 .. D : m[j] = n[j]
  OBVIOUS
<1>3. PICK w : w = m
  OBVIOUS
<1> HIDE DEF m
<1>4. w[D + 1] = n[D] /\ \A j \in 0 .. D : w[j] = n[j]
  BY <1>2, <1>3
<1>5. ASSUME NEW j \in 1 .. D + 1
      PROVE  IF Opens(j)'
             THEN /\ w[j] = w[j - 1] + 1
                  /\ w[j] \in 1 .. Len(func_stack) /\ func_stack[w[j]] = HeadOf(j)'
             ELSE w[j] = w[j - 1]
  <2>1. CASE j = D + 1
    <3>1. j - 1 = D /\ D \in 0 .. D
      BY <2>1
    <3> QED
      BY <1>4, <2>1, <3>1
  <2>2. CASE j # D + 1
    <3>1. j \in 1 .. D /\ j \in 0 .. D /\ j - 1 \in 0 .. D
      BY <2>2
    <3> QED
      BY <1>4, <3>1 DEF Levels, SameBelow
  <2> QED
    BY <2>1, <2>2
<1>6. w[0] = 0 /\ Len(func_stack) = w[D + 1]
  <2>1. 0 \in 0 .. D
    OBVIOUS
  <2> QED
    BY <1>4, <2>1 DEF Levels
<1>7. Levels(w)'
  BY <1>5, <1>6 DEF Levels
<1> QED
  BY <1>1, <1>3, <1>4, <1>7

LEMMA LevelsOpen ==
  ASSUME NEW D \in Nat, D = Depth, NEW n \in [0 .. D -> Nat], Levels(n), Depth' = D + 1,
         func_stack \in Seq(Funcs), NEW f \in Funcs, func_stack' = Append(func_stack, f),
         SameBelow(D), Opens(D + 1)', HeadOf(D + 1)' = f
  PROVE  /\ \E m \in [0 .. D + 1 -> Nat] :
              /\ Levels(m)' /\ m[D + 1] = n[D] + 1
              /\ \A j \in 0 .. D : m[j] = n[j]
         /\ Owner(n[D] + 1)' = f
         /\ \A i \in 0 .. n[D] : Owner(i)' = Owner(i)
<1> DEFINE m == [j \in 0 .. D + 1 |-> IF j = D + 1 THEN n[D] + 1 ELSE n[j]]
           l == Len(func_stack)
<1>0. l = n[D] /\ l \in Nat
  BY DEF Levels
<1>1. m \in [0 .. D + 1 -> Nat]
  <2>1. ASSUME NEW j \in 0 .. D + 1 PROVE (IF j = D + 1 THEN n[D] + 1 ELSE n[j]) \in Nat
    <3>1. D \in 0 .. D /\ (j # D + 1 => j \in 0 .. D)
      OBVIOUS
    <3> QED
      BY <3>1
  <2> QED
    BY <2>1
<1>2. m[D + 1] = n[D] + 1 /\ \A j \in 0 .. D : m[j] = n[j]
  OBVIOUS
<1>3. PICK w : w = m
  OBVIOUS
<1> HIDE DEF m
<1>4. w[D + 1] = n[D] + 1 /\ \A j \in 0 .. D : w[j] = n[j]
  BY <1>2, <1>3
<1>5. /\ Len(func_stack') = l + 1 /\ func_stack'[l + 1] = f
      /\ \A i \in 1 .. l : func_stack'[i] = func_stack[i]
  BY Appended
<1>6. ASSUME NEW j \in 1 .. D + 1
      PROVE  IF Opens(j)'
             THEN /\ w[j] = w[j - 1] + 1
                  /\ w[j] \in 1 .. Len(func_stack') /\ func_stack'[w[j]] = HeadOf(j)'
             ELSE w[j] = w[j - 1]
  <2>1. CASE j = D + 1
    <3>1. j - 1 = D /\ D \in 0 .. D /\ w[j] = l + 1 /\ w[j - 1] = l
      BY <1>0, <1>4, <2>1
    <3>2. l + 1 \in 1 .. Len(func_stack') /\ func_stack'[l + 1] = HeadOf(j)'
      BY <1>0, <1>5, <2>1
    <3> QED
      BY <2>1, <3>1, <3>2
  <2>2. CASE j # D + 1
    <3>1. j \in 1 .. D /\ j \in 0 .. D /\ j - 1 \in 0 .. D
      BY <2>2
    <3>2. w[j] = n[j] /\ w[j - 1] = n[j - 1]
      BY <1>4, <3>1
    <3>3. CASE Opens(j)
      <4>1. n[j] = n[j - 1] + 1 /\ n[j] \in 1 .. l /\ func_stack[n[j]] = HeadOf(j)
        BY <3>1, <3>3 DEF Levels
      <4>2. n[j] \in 1 .. Len(func_stack') /\ func_stack'[n[j]] = HeadOf(j)
        BY <1>0, <1>5, <4>1
      <4> QED
        BY <3>1, <3>2, <3>3, <4>1, <4>2 DEF SameBelow
    <3>4. CASE ~Opens(j)
      BY <3>1, <3>2, <3>4 DEF Levels, SameBelow
    <3> QED
      BY <3>3, <3>4
  <2> QED
    BY <2>1, <2>2
<1>7. w[0] = 0 /\ Len(func_stack') = w[D + 1]
  <2>1. 0 \in 0 .. D
    OBVIOUS
  <2> QED
    BY <1>0, <1>4, <1>5, <2>1 DEF Levels
<1>8. Levels(w)'
  BY <1>6, <1>7 DEF Levels
<1>9. Owner(n[D] + 1)' = f
  BY <1>0, <1>5 DEF Owner
<1>10. \A i \in 0 .. n[D] : Owner(i)' = Owner(i)
  <2>1. \A i \in 0 .. l : i # 0 => i \in 1 .. l
    BY <1>0
  <2> QED
    BY <1>0, <1>5, <2>1 DEF Owner
<1> QED
  BY <1>1, <1>3, <1>4, <1>8, <1>9, <1>10

LEMMA LevelsClose ==
  ASSUME NEW D \in Nat \ {0}, D = Depth, NEW n \in [0 .. D -> Nat], Levels(n), Depth' = D - 1,
         func_stack \in Seq(Funcs), func_stack' = SubSeq(func_stack, 1, Len(func_stack) - 1),
         SameBelow(D - 1), Opens(D)
  PROVE  /\ \E m \in [0 .. D - 1 -> Nat] :
              Levels(m)' /\ \A j \in 0 .. D - 1 : m[j] = n[j]
         /\ n[D - 1] = n[D] - 1
         /\ \A i \in 0 .. n[D - 1] : Owner(i)' = Owner(i)
<1> DEFINE m == [j \in 0 .. D - 1 |-> n[j]]
           l == Len(func_stack)
<1>0. /\ l = n[D] /\ l \in Nat \ {0} /\ n[D - 1] = l - 1 /\ n[D - 1] \in Nat
      /\ \A j \in 0 .. D - 1 : n[j] <= l - 1
  <2>1. D \in 1 .. D /\ D \in 0 .. D /\ D - 1 \in 0 .. D
    OBVIOUS
  <2>2. n[D] = n[D - 1] + 1 /\ l = n[D] /\ n[D - 1] \in Nat /\ n[D] \in Nat
    BY <2>1 DEF Levels
  <2>3. \A j \in 0 .. D - 1 : n[j] <= n[D - 1]
    BY <2>1, LevelsGrow
  <2> QED
    BY <2>2, <2>3
<1>1. m \in [0 .. D - 1 -> Nat]
  OBVIOUS
<1>2. \A j \in 0 .. D - 1 : m[j] = n[j]
  OBVIOUS
<1>3. PICK w : w = m
  OBVIOUS
<1> HIDE DEF m
<1>4. \A j \in 0 .. D - 1 : w[j] = n[j]
  BY <1>2, <1>3
<1>5. /\ Len(func_stack') = l - 1
      /\ \A i \in 1 .. l - 1 : func_stack'[i] = func_stack[i]
  <2>1. l - 1 \in 0 .. l
    BY <1>0
  <2> QED
    BY <2>1, Front
<1>6. ASSUME NEW j \in 1 .. D - 1
      PROVE  IF Opens(j)'
             THEN /\ w[j] = w[j - 1] + 1
                  /\ w[j] \in 1 .. Len(func_stack') /\ func_stack'[w[j]] = HeadOf(j)'
             ELSE w[j] = w[j - 1]
  <2>1. j \in 1 .. D /\ j \in 0 .. D - 1 /\ j - 1 \in 0 .. D - 1
    OBVIOUS
  <2>2. w[j] = n[j] /\ w[j - 1] = n[j - 1]
    BY <1>4, <2>1
  <2>3. CASE Opens(j)
    <3>1. n[j] = n[j - 1] + 1 /\ n[j] \in 1 .. l /\ func_stack[n[j]] = HeadOf(j)
      BY <2>1, <2>3 DEF Levels
    <3>2. n[j] \in 1 .. l - 1
      BY <1>0, <2>1, <3>1
    <3> QED
      BY <1>5, <2>2, <2>3, <3>1, <3>2 DEF SameBelow
  <2>4. CASE ~Opens(j)
    BY <2>1, <2>2, <2>4 DEF Levels, SameBelow
  <2> QED
    BY <2>3, <2>4
<1>7. w[0] = 0 /\ Len(func_stack') = w[D - 1]
  <2>1. 0 \in 0 .. D - 1 /\ D - 1 \in 0 .. D - 1
    OBVIOUS
  <2> QED
    BY <1>0, <1>4, <1>5, <2>1 DEF Levels
<1>8. Levels(w)'
  BY <1>6, <1>7 DEF Levels
<1>9. \A i \in 0 .. n[D - 1] : Owner(i)' = Owner(i)
  <2>1. \A i \in 0 .. l - 1 : i # 0 => i \in 1 .. l - 1
    BY <1>0
  <2> QED
    BY <1>0, <1>5, <2>1 DEF Owner
<1> QED
  BY <1>0, <1>1, <1>3, <1>4, <1>8, <1>9

(***************************************************************************)
(* The ledger and the source                                               *)
(***************************************************************************)

Sources == [body : [Owners -> Seq(Only(Items, "item"))], locals : [Owners -> Seq(Variables)],
            funcs : Seq(Funcs), defined : SUBSET Funcs, looped : SUBSET Variables, count : Nat]

Named(items) == [i \in DOMAIN items |-> items[i].x]
Injective(s) == \A i, j \in 1 .. Len(s) : s[i] = s[j] => i = j

\* What the source has of a function is what has been met of it.
Holds(o, part) == source.body[o] = part.own /\ source.locals[o] = Named(part.decls)

\* A function is open at the j-th visit if that is the last one inside of it.
Matches(t, n) ==
  /\ \A j \in 0 .. Depth : j = Depth \/ Opens(j + 1) => Holds(Owner(n[j]), t[j])
  /\ source.funcs = Named(t[Depth].funcs)

LEMMA ConcatIs ==
  ASSUME NEW R, NEW m \in Seq(R), NEW n \in Seq(R)
  PROVE  /\ m \o n \in Seq(R) /\ DOMAIN (m \o n) = 1 .. Len(m) + Len(n)
         /\ \A i \in 1 .. Len(m) + Len(n) :
              (m \o n)[i] = IF i <= Len(m) THEN m[i] ELSE n[i - Len(m)]
         /\ m \o n = [i \in 1 .. Len(m) + Len(n) |-> (m \o n)[i]]
<1> DEFINE d == m \o n
           k == Len(m)
           l == Len(n)
<1>1. /\ d \in Seq(R) /\ Len(d) = k + l
      /\ \A i \in 1 .. k + l : d[i] = IF i <= k THEN m[i] ELSE n[i - k]
  OBVIOUS
<1> HIDE DEF d
<1>2. DOMAIN d = 1 .. k + l /\ d = [i \in 1 .. k + l |-> d[i]]
  BY <1>1
<1> QED
  BY <1>1, <1>2 DEF d

LEMMA NamedConcat ==
  ASSUME NEW S, NEW a \in Seq(S), NEW b \in Seq(S)
  PROVE  Named(a \o b) = Named(a) \o Named(b) /\ Named(<< >>) = << >>
<1> DEFINE R == {s.x : s \in S}
           c == a \o b
           m == Named(a)
           n == Named(b)
<1>1. /\ Len(a) \in Nat /\ Len(b) \in Nat /\ DOMAIN a = 1 .. Len(a) /\ DOMAIN b = 1 .. Len(b)
      /\ \A i \in 1 .. Len(a) : a[i].x \in R
      /\ \A i \in 1 .. Len(b) : b[i].x \in R
  OBVIOUS
<1>2. /\ DOMAIN c = 1 .. Len(a) + Len(b)
      /\ \A i \in 1 .. Len(a) + Len(b) : c[i] = IF i <= Len(a) THEN a[i] ELSE b[i - Len(a)]
  OBVIOUS
<1> HIDE DEF c
<1>3. m = [i \in 1 .. Len(a) |-> a[i].x] /\ n = [i \in 1 .. Len(b) |-> b[i].x]
  BY <1>1 DEF Named
<1> HIDE DEF m, n, R
<1>4. /\ m \in Seq(R) /\ Len(m) = Len(a) /\ \A i \in 1 .. Len(a) : m[i] = a[i].x
      /\ n \in Seq(R) /\ Len(n) = Len(b) /\ \A i \in 1 .. Len(b) : n[i] = b[i].x
  BY <1>1, <1>3
<1> DEFINE d == m \o n
<1>5. /\ DOMAIN d = 1 .. Len(a) + Len(b)
      /\ \A i \in 1 .. Len(a) + Len(b) : d[i] = IF i <= Len(a) THEN m[i] ELSE n[i - Len(a)]
      /\ d = [i \in 1 .. Len(a) + Len(b) |-> d[i]]
  <2>1. m \in Seq(R) /\ n \in Seq(R) /\ Len(a) = Len(m) /\ Len(b) = Len(n)
    BY <1>4
  <2>2. /\ d \in Seq(R) /\ DOMAIN d = 1 .. Len(m) + Len(n)
        /\ \A i \in 1 .. Len(m) + Len(n) : d[i] = IF i <= Len(m) THEN m[i] ELSE n[i - Len(m)]
        /\ d = [i \in 1 .. Len(m) + Len(n) |-> d[i]]
    BY ONLY <2>1, ConcatIs
  <2> HIDE DEF d
  <2> QED
    BY ONLY <2>1, <2>2
<1> HIDE DEF d
<1>7. ASSUME NEW i \in 1 .. Len(a) + Len(b) PROVE c[i].x = d[i]
  <2>1. CASE i <= Len(a)
    <3>1. i \in 1 .. Len(a)
      BY <2>1
    <3> QED
      BY <1>2, <1>4, <1>5, <2>1, <3>1
  <2>2. CASE ~(i <= Len(a))
    <3>1. i - Len(a) \in 1 .. Len(b)
      BY <1>1, <2>2
    <3> QED
      BY <1>2, <1>4, <1>5, <2>2, <3>1
  <2> QED
    BY <2>1, <2>2
<1>8. Named(c) = d
  BY <1>2, <1>5, <1>7 DEF Named
<1>9. Named(<< >>) = << >>
  BY DEF Named
<1> QED
  BY <1>8, <1>9 DEF c, d, m, n

LEMMA OwnersApart ==
  ASSUME func_stack \in Seq(Funcs), Injective(func_stack)
  PROVE  /\ \A i \in 0 .. Len(func_stack) : Owner(i) \in Owners
         /\ \A i, j \in 0 .. Len(func_stack) : i # j => Owner(i) # Owner(j)
<1>1. Len(func_stack) \in Nat /\ \A i \in 0 .. Len(func_stack) : i # 0 => i \in 1 .. Len(func_stack)
  OBVIOUS
<1>2. \A i \in 1 .. Len(func_stack) : func_stack[i] \in Funcs
  OBVIOUS
<1>3. NoFunc \notin Funcs
  BY ValidatorAssumption
<1>4. \A i \in 0 .. Len(func_stack) : Owner(i) \in Owners
  BY <1>1, <1>2 DEF Owner, Owners
<1>5. ASSUME NEW i \in 0 .. Len(func_stack), NEW j \in 0 .. Len(func_stack), i # j
      PROVE  Owner(i) # Owner(j)
  <2>1. CASE i = 0
    BY <1>1, <1>2, <1>3, <1>5, <2>1 DEF Owner
  <2>2. CASE j = 0
    BY <1>1, <1>2, <1>3, <1>5, <2>2 DEF Owner
  <2>3. CASE i # 0 /\ j # 0
    BY <1>1, <1>5, <2>3 DEF Owner, Injective
  <2> QED
    BY <2>1, <2>2, <2>3
<1> QED
  BY <1>4, <1>5

\* The functions that are open below the visit on top are others than its own.
LEMMA OpenBelow ==
  ASSUME NEW D \in Nat, D = Depth, NEW n \in [0 .. D -> Nat], Levels(n),
         func_stack \in Seq(Funcs), Injective(func_stack)
  PROVE  /\ Owner(n[D]) \in Owners
         /\ \A j \in 0 .. D : n[j] \in 0 .. Len(func_stack)
         /\ \A j \in 0 .. D - 1 : Opens(j + 1) =>
              n[j] < n[D] /\ Owner(n[j]) \in Owners /\ Owner(n[j]) # Owner(n[D])
<1>1. \A j \in 0 .. D : n[j] \in Nat /\ n[j] <= n[D]
  <2>1. D \in 0 .. D
    OBVIOUS
  <2> QED
    BY <2>1, LevelsGrow
<1>2. Len(func_stack) = n[D] /\ \A j \in 0 .. D : n[j] \in 0 .. Len(func_stack)
  BY <1>1 DEF Levels
<1>3. ASSUME NEW j \in 0 .. D - 1, Opens(j + 1)
      PROVE  n[j] < n[D]
  <2>1. j + 1 \in 1 .. D /\ j + 1 \in 0 .. D /\ (j + 1) - 1 = j /\ j \in 0 .. D
    OBVIOUS
  <2>2. n[j + 1] = n[j] + 1
    BY <1>3, <2>1 DEF Levels
  <2> QED
    BY <1>1, <2>1, <2>2
<1>4. D \in 0 .. D /\ \A j \in 0 .. D - 1 : j \in 0 .. D
  OBVIOUS
<1>5. \A i, j \in 0 .. Len(func_stack) : Owner(i) \in Owners /\ (i # j => Owner(i) # Owner(j))
  BY OwnersApart
<1> QED
  BY <1>1, <1>2, <1>3, <1>4, <1>5

\* What a visit adds to the source of the function it is in.
SourceGrows(p, o) ==
  /\ source'.body = [source.body EXCEPT ![o] = @ \o p.own]
  /\ source'.locals = [source.locals EXCEPT ![o] = @ \o Named(p.decls)]
  /\ source'.funcs = source.funcs \o Named(p.funcs)

\* From depth D to depth E, with a ledger that has grown by p on top.
GrowsTo(D, t, n, p, E, u, m) ==
  /\ D \in Nat /\ D = Depth /\ t \in [0 .. D -> Parts] /\ n \in [0 .. D -> Nat]
  /\ Levels(n) /\ Matches(t, n) /\ func_stack \in Seq(Funcs) /\ Injective(func_stack)
  /\ source \in Sources /\ p \in Parts /\ SourceGrows(p, Owner(n[D]))
  /\ E \in Nat /\ Depth' = E /\ func_stack' = func_stack
  /\ u \in [0 .. E -> Parts] /\ m \in [0 .. E -> Nat]
  /\ u[E] = Plus(t[D], p) /\ m[E] = n[D]
  /\ \A j \in 0 .. E - 1 : Opens(j + 1)' =>
       j \in 0 .. D - 1 /\ Opens(j + 1) /\ u[j] = t[j] /\ m[j] = n[j]

LEMMA MatchesGrow ==
  ASSUME NEW D, NEW t, NEW n, NEW p, NEW E, NEW u, NEW m, GrowsTo(D, t, n, p, E, u, m)
  PROVE  Matches(u, m)'
<1> USE DEF GrowsTo
<1> DEFINE w == Owner(n[D])
<1>1. /\ w \in Owners
      /\ \A j \in 0 .. D - 1 : Opens(j + 1) => Owner(n[j]) \in Owners /\ Owner(n[j]) # w
  BY OpenBelow
<1>2. D \in 0 .. D /\ t[D] \in Parts
  OBVIOUS
<1>3. \A i : Owner(i)' = Owner(i)
  BY DEF Owner
<1>4. \A o \in Owners : o # w => source'.body[o] = source.body[o] /\ source'.locals[o] = source.locals[o]
  BY DEF SourceGrows, Sources
<1>5. source.body[w] = t[D].own /\ source.locals[w] = Named(t[D].decls) /\ source.funcs = Named(t[D].funcs)
  BY <1>2 DEF Matches, Holds
<1>6. /\ Named(t[D].decls \o p.decls) = Named(t[D].decls) \o Named(p.decls)
      /\ Named(t[D].funcs \o p.funcs) = Named(t[D].funcs) \o Named(p.funcs)
  <2>1. /\ t[D].decls \in Seq(Only(Items, "decl")) /\ p.decls \in Seq(Only(Items, "decl"))
        /\ t[D].funcs \in Seq(Only(Items, "func")) /\ p.funcs \in Seq(Only(Items, "func"))
    BY <1>2 DEF Parts
  <2> QED
    BY <2>1, NamedConcat
<1>7. /\ u[E].own = t[D].own \o p.own /\ u[E].decls = t[D].decls \o p.decls
      /\ u[E].funcs = t[D].funcs \o p.funcs
  <2>1. u[E] = Plus(t[D], p) /\ t[D] \in Parts
    BY <1>2
  <2>2. PICK b : b = u[E]
    OBVIOUS
  <2>3. PICK a : a = t[D]
    OBVIOUS
  <2>4. b = Plus(a, p) /\ a \in Parts /\ p \in Parts
    BY <2>1, <2>2, <2>3
  <2>5. b.own = a.own \o p.own /\ b.decls = a.decls \o p.decls /\ b.funcs = a.funcs \o p.funcs
    BY ONLY <2>4, PlusIs
  <2> QED
    BY ONLY <2>2, <2>3, <2>5
<1>8. source'.body[w] = u[E].own /\ source'.locals[w] = Named(u[E].decls) /\ source'.funcs = Named(u[E].funcs)
  <2>1. source.body \in [Owners -> Seq(Only(Items, "item"))] /\ source.locals \in [Owners -> Seq(Variables)]
    BY DEF Sources
  <2>2. source'.body[w] = source.body[w] \o p.own /\ source'.locals[w] = source.locals[w] \o Named(p.decls)
    BY <1>1, <2>1 DEF SourceGrows
  <2>3. source'.funcs = source.funcs \o Named(p.funcs)
    BY DEF SourceGrows
  <2> HIDE DEF w
  <2> QED
    BY <1>5, <1>6, <1>7, <2>2, <2>3
<1> HIDE DEF w
<1>9. ASSUME NEW j \in 0 .. E, j = E \/ Opens(j + 1)'
      PROVE  source'.body[Owner(m[j])'] = u[j].own /\ source'.locals[Owner(m[j])'] = Named(u[j].decls)
  <2>1. CASE j = E
    BY <1>3, <1>8, <2>1 DEF w
  <2>2. CASE j # E
    <3>1. j \in 0 .. E - 1
      BY <2>2
    <3>2. j \in 0 .. D - 1 /\ Opens(j + 1) /\ u[j] = t[j] /\ m[j] = n[j]
      BY <1>9, <2>2, <3>1
    <3>3. Owner(m[j])' = Owner(n[j]) /\ Owner(n[j]) \in Owners /\ Owner(n[j]) # w
      BY <1>1, <1>3, <3>2
    <3>4. source.body[Owner(n[j])] = t[j].own /\ source.locals[Owner(n[j])] = Named(t[j].decls)
      <4>1. j \in 0 .. D
        BY <3>2
      <4> QED
        BY <3>2, <4>1 DEF Matches, Holds
    <3> QED
      BY <1>4, <3>2, <3>3, <3>4
  <2> QED
    BY <2>1, <2>2
<1> QED
  BY <1>8, <1>9 DEF Matches, Holds

(***************************************************************************)
(* The invariant of the two walks                                          *)
(***************************************************************************)

FunctionNodes == [made : BOOLEAN, has_definition : BOOLEAN,
                  locals : Seq(Only(Items, "decl")), body : Seq(Only(Items, "item"))]

LirTypes ==
  /\ current_q \in Seq(Items) /\ queue_stack \in Seq(Seq(Items))
  /\ visits \in Seq(Parts) /\ func_stack \in Seq(Funcs)
  /\ symbols \in [funcs : [Funcs -> SUBSET Variables], globals : SUBSET Variables]
  /\ functions \in [Funcs -> FunctionNodes]
  /\ prog \in [done : BOOLEAN, functions : Seq(Only(Items, "func")),
               globals : Seq(Only(Items, "decl")), progitems : Seq(Only(Items, "item"))]

\* The FunctionLIR of a function that has been visited.
Closed(f) == functions[f].body = source.body[f] /\ Named(functions[f].locals) = source.locals[f]

Book ==
  /\ Injective(func_stack) /\ \A i \in 1 .. Len(func_stack) : func_stack[i] \in source.defined
  /\ \A f \in Funcs :
       /\ functions[f].made <=> f \in Range(source.funcs)
       /\ functions[f].has_definition <=> f \in source.defined
       /\ f \notin source.defined => source.body[f] = << >>
       /\ f \in source.defined /\ (\A i \in 1 .. Len(func_stack) : func_stack[i] # f) => Closed(f)
       /\ symbols.funcs[f] = Range(source.locals[f])
  /\ symbols.globals = Range(source.locals[NoFunc])
  /\ \A o \in Owners :
       /\ Injective(source.locals[o])
       /\ \A i \in 1 .. Len(source.locals[o]) : source.locals[o][i][2] <= source.count

Sync(t, n) == Ledger(t) /\ Levels(n) /\ Matches(t, n) /\ Book

InStep == \E t \in [0 .. Depth -> Parts], n \in [0 .. Depth -> Nat] : Sync(t, n)

\* Both walks go on, and neither has found an error.
Calm ==
  /\ StackInv /\ LirTypes /\ source \in Sources
  /\ Len(ctxt) = 2 * Depth /\ Len(queue_stack) = Depth

LEMMA CalmHas ==
  ASSUME Calm
  PROVE  /\ Queues /\ Depth \in Nat /\ func_stack \in Seq(Funcs) /\ source \in Sources
         /\ ctxt \in Seq(Nodes) /\ Alternates(ctxt) /\ Len(ctxt) = 2 * Depth
<1>1. Queues
  BY DEF Calm, LirTypes, Queues
<1> QED
  BY <1>1, DepthType DEF Calm, LirTypes, StackInv

\* The visit at k is on top afterwards; the visit above it, if there was one,
\* was not that of a function.
Tops(D, t, n, k, q, p) ==
  /\ Calm /\ D = Depth /\ t \in [0 .. D -> Parts] /\ n \in [0 .. D -> Nat] /\ Sync(t, n)
  /\ k \in 0 .. D /\ (\A j \in k + 1 .. D : ~Opens(j))
  /\ Depth' = k /\ func_stack' = func_stack /\ SameBelow(k)
  /\ q \in Parts /\ p \in Parts /\ Plus(t[k], q) = Plus(t[D], p)
  /\ \A j \in 0 .. k : j # k => Content(j)' = Content(j)
  /\ Content(k)' = Plus(Content(k), q)
  /\ SourceGrows(p, Within) /\ Book'

LEMMA SyncTop ==
  ASSUME NEW D, NEW t, NEW n, NEW k, NEW q, NEW p, Tops(D, t, n, k, q, p)
  PROVE  InStep'
<1> USE DEF Tops
<1>1. /\ Queues /\ D \in Nat /\ func_stack \in Seq(Funcs) /\ source \in Sources
      /\ k \in Nat /\ Ledger(t) /\ Levels(n) /\ Matches(t, n) /\ Injective(func_stack)
      /\ t \in [0 .. D -> Parts] /\ n \in [0 .. D -> Nat] /\ p \in Parts
  <2>1. Queues /\ D \in Nat /\ func_stack \in Seq(Funcs) /\ source \in Sources
    BY CalmHas
  <2>2. /\ Sync(t, n) /\ k \in 0 .. D
        /\ t \in [0 .. D -> Parts] /\ n \in [0 .. D -> Nat] /\ p \in Parts
    OBVIOUS
  <2>3. Injective(func_stack) /\ Ledger(t) /\ Levels(n) /\ Matches(t, n)
    BY <2>2 DEF Sync, Book
  <2> QED
    BY ONLY <2>1, <2>2, <2>3
<1>2. PICK u \in [0 .. k -> Parts] : /\ Ledger(u)' /\ u[k] = Plus(t[k], q)
                                     /\ \A j \in 0 .. k : j # k => u[j] = t[j]
  <2>1. \A j \in 1 .. k : Opens(j)' <=> Opens(j)
    BY DEF SameBelow
  <2>2. /\ t \in [0 .. Depth -> Parts] /\ k \in 0 .. Depth /\ q \in Parts /\ Depth' = k
        /\ \A j \in 0 .. k : j # k => Content(j)' = Content(j)
        /\ Content(k)' = Plus(Content(k), q)
    OBVIOUS
  <2>3. Queues /\ Ledger(t)
    BY <1>1
  <2> QED
    BY ONLY <2>1, <2>2, <2>3, LedgerTop
<1>3. /\ n[k] = n[D]
      /\ \E m \in [0 .. k -> Nat] : Levels(m)' /\ \A j \in 0 .. k : m[j] = n[j]
  BY <1>1, LevelsTop
<1>4. PICK m \in [0 .. k -> Nat] : Levels(m)' /\ \A j \in 0 .. k : m[j] = n[j]
  BY <1>3
<1>5. Within = Owner(n[D])
  BY <1>1, CalmHas, WithinIs
<1>6. ASSUME NEW j \in 0 .. k - 1, Opens(j + 1)'
      PROVE  j \in 0 .. D - 1 /\ Opens(j + 1) /\ u[j] = t[j] /\ m[j] = n[j]
  <2>1. j \in 0 .. D - 1 /\ j + 1 \in 1 .. k /\ j \in 0 .. k /\ j # k
    BY <1>1
  <2> QED
    BY <1>2, <1>4, <1>6, <2>1 DEF SameBelow
<1>7. u[k] = Plus(t[D], p) /\ m[k] = n[D] /\ SourceGrows(p, Owner(n[D]))
  BY <1>1, <1>2, <1>3, <1>4, <1>5
<1>8. Matches(u, m)'
  <2>1. D = Depth /\ Depth' = k /\ func_stack' = func_stack
    OBVIOUS
  <2>2. \A j \in 0 .. k - 1 : Opens(j + 1)' =>
          j \in 0 .. D - 1 /\ Opens(j + 1) /\ u[j] = t[j] /\ m[j] = n[j]
    BY <1>6
  <2>3. GrowsTo(D, t, n, p, k, u, m)
    BY ONLY <1>1, <1>7, <2>1, <2>2 DEF GrowsTo
  <2> QED
    BY <2>3, MatchesGrow
<1>9. Sync(u, m)'
  BY <1>2, <1>4, <1>8 DEF Sync
<1> QED
  BY <1>9 DEF InStep

\* A visit other than that of a function is put on top.
Puts(D, t, n, q) ==
  /\ Calm /\ D = Depth /\ t \in [0 .. D -> Parts] /\ n \in [0 .. D -> Nat] /\ Sync(t, n)
  /\ Depth' = D + 1 /\ func_stack' = func_stack /\ SameBelow(D) /\ ~Opens(D + 1)'
  /\ q \in Parts /\ (\A j \in 0 .. D : Content(j)' = Content(j)) /\ Content(D + 1)' = q
  /\ SourceGrows(q, Within) /\ Book'

LEMMA SyncPush ==
  ASSUME NEW D, NEW t, NEW n, NEW q, Puts(D, t, n, q)
  PROVE  InStep'
<1> USE DEF Puts
<1> DEFINE e == NewVisit(<< >>)
<1>1. /\ Queues /\ D \in Nat /\ func_stack \in Seq(Funcs) /\ source \in Sources
      /\ Ledger(t) /\ Levels(n) /\ Matches(t, n) /\ Injective(func_stack)
      /\ t \in [0 .. D -> Parts] /\ n \in [0 .. D -> Nat] /\ q \in Parts
  BY CalmHas DEF Sync, Book
<1>2. /\ e \in Parts /\ \A a \in Parts : Plus(a, e) = a
  <2>1. << >> \in Seq(Only(Items, "item"))
    OBVIOUS
  <2> QED
    BY <2>1, NewVisitType, PlusNothing
<1> HIDE DEF e
<1>3. Content(D)' = Plus(Content(D), e)
  <2>1. D \in 0 .. D /\ Content(D) \in Parts
    BY <1>1, ContentIs
  <2> QED
    BY <1>2, <2>1
<1>4. PICK u \in [0 .. D + 1 -> Parts] : /\ Ledger(u)' /\ u[D] = Plus(t[D], e)
                                         /\ u[D + 1] = Onto(Opens(D + 1)', u[D], q)
                                         /\ \A j \in 0 .. D : j # D => u[j] = t[j]
  <2>1. \A j \in 1 .. D : Opens(j)' <=> Opens(j)
    BY DEF SameBelow
  <2>2. D = Depth /\ Depth' = D + 1 /\ Content(D + 1)' = q
    OBVIOUS
  <2>3. \A j \in 0 .. D : j # D => Content(j)' = Content(j)
    OBVIOUS
  <2>4. Pushed(D, t, e, q)
    BY ONLY <1>1, <1>2, <1>3, <2>1, <2>2, <2>3 DEF Pushed
  <2>5. PICK u : PushedTo(u, D, t, e, q)
    BY ONLY <2>4, LedgerPush
  <2> QED
    BY ONLY <2>5 DEF PushedTo
<1>5. /\ u[D] = t[D] /\ u[D + 1] = Plus(t[D], q)
  <2>1. t[D] \in Parts
    BY <1>1
  <2>2. u[D] = t[D]
    BY <1>2, <1>4, <2>1
  <2> QED
    BY <1>4, <2>2 DEF Onto
<1>6. PICK m \in [0 .. D + 1 -> Nat] : /\ Levels(m)' /\ m[D + 1] = n[D]
                                       /\ \A j \in 0 .. D : m[j] = n[j]
  BY <1>1, LevelsDown
<1>7. SourceGrows(q, Owner(n[D]))
  BY <1>1, CalmHas, WithinIs
<1>8. ASSUME NEW j \in 0 .. (D + 1) - 1, Opens(j + 1)'
      PROVE  j \in 0 .. D - 1 /\ Opens(j + 1) /\ u[j] = t[j] /\ m[j] = n[j]
  <2>1. j # D
    BY <1>8
  <2>2. j \in 0 .. D - 1 /\ j + 1 \in 1 .. D /\ j \in 0 .. D
    BY <1>1, <2>1
  <2> QED
    BY <1>4, <1>6, <1>8, <2>1, <2>2 DEF SameBelow
<1>9. Matches(u, m)'
  <2>1. D = Depth /\ D + 1 \in Nat /\ Depth' = D + 1 /\ func_stack' = func_stack
    BY <1>1
  <2>2. \A j \in 0 .. (D + 1) - 1 : Opens(j + 1)' =>
          j \in 0 .. D - 1 /\ Opens(j + 1) /\ u[j] = t[j] /\ m[j] = n[j]
    BY <1>8
  <2>3. GrowsTo(D, t, n, q, D + 1, u, m)
    BY ONLY <1>1, <1>5, <1>6, <1>7, <2>1, <2>2 DEF GrowsTo
  <2> QED
    BY <2>3, MatchesGrow
<1>10. Sync(u, m)'
  BY <1>4, <1>6, <1>9 DEF Sync
<1> QED
  BY <1>10 DEF InStep

\* The visit of a function is put on top.  made: what is emitted for it below;
\* params: what it starts with.
Enters(D, t, n, f, made, params) ==
  /\ Calm /\ D = Depth /\ t \in [0 .. D -> Parts] /\ n \in [0 .. D -> Nat] /\ Sync(t, n)
  /\ f \in Funcs /\ f \notin source.defined /\ Depth' = D + 1 /\ func_stack' = Append(func_stack, f)
  /\ SameBelow(D) /\ Opens(D + 1)' /\ HeadOf(D + 1)' = f
  /\ made \in Seq(Only(Items, "func")) /\ params \in Seq(Only(Items, "decl"))
  /\ \A j \in 0 .. D : j # D => Content(j)' = Content(j)
  /\ Content(D)' = Plus(Content(D), Sorted(made)) /\ Content(D + 1)' = Sorted(params)
  /\ source'.body = source.body /\ source'.locals = [source.locals EXCEPT ![f] = Named(params)]
  /\ source'.funcs = source.funcs \o Named(made) /\ Book'

LEMMA SyncEnter ==
  ASSUME NEW D, NEW t, NEW n, NEW f, NEW made, NEW params, Enters(D, t, n, f, made, params)
  PROVE  InStep'
<1> USE DEF Enters
<1> DEFINE p == Sorted(made)
           q == Sorted(params)
<1>1. /\ Queues /\ D \in Nat /\ func_stack \in Seq(Funcs) /\ source \in Sources
      /\ t \in [0 .. D -> Parts] /\ n \in [0 .. D -> Nat] /\ f \in Funcs
      /\ Ledger(t) /\ Levels(n) /\ Matches(t, n) /\ Injective(func_stack)
      /\ \A i \in 1 .. Len(func_stack) : func_stack[i] \in source.defined
      /\ source.body[f] = << >>
  BY CalmHas DEF Sync, Book
<1>2. /\ p = [funcs |-> made, decls |-> << >>, own |-> << >>] /\ p \in Parts
      /\ q = [funcs |-> << >>, decls |-> params, own |-> << >>] /\ q \in Parts
  <2>1. /\ p = [funcs |-> made, decls |-> << >>, own |-> << >>] /\ made \in Seq(Items)
        /\ q = [funcs |-> << >>, decls |-> params, own |-> << >>] /\ params \in Seq(Items)
    BY SortedAlike
  <2> QED
    BY <2>1, SortedParts
<1> HIDE DEF p, q
<1>3. PICK u \in [0 .. D + 1 -> Parts] : /\ Ledger(u)' /\ u[D] = Plus(t[D], p)
                                         /\ u[D + 1] = Onto(Opens(D + 1)', u[D], q)
                                         /\ \A j \in 0 .. D : j # D => u[j] = t[j]
  <2>1. \A j \in 1 .. D : Opens(j)' <=> Opens(j)
    BY DEF SameBelow
  <2>2. /\ D = Depth /\ Depth' = D + 1 /\ Content(D + 1)' = q
        /\ Content(D)' = Plus(Content(D), p)
    BY DEF p, q
  <2>3. \A j \in 0 .. D : j # D => Content(j)' = Content(j)
    OBVIOUS
  <2>4. Pushed(D, t, p, q)
    BY ONLY <1>1, <1>2, <2>1, <2>2, <2>3 DEF Pushed
  <2>5. PICK u : PushedTo(u, D, t, p, q)
    BY ONLY <2>4, LedgerPush
  <2> QED
    BY ONLY <2>5 DEF PushedTo
<1>4. D \in 0 .. D /\ t[D] \in Parts
  BY <1>1
<1>5. /\ u[D].own = t[D].own /\ u[D].decls = t[D].decls /\ u[D].funcs = t[D].funcs \o made
      /\ u[D] \in Parts
  <2>1. PICK a : a = t[D]
    OBVIOUS
  <2>2. a \in Parts /\ p \in Parts /\ u[D] = Plus(a, p)
    BY <1>2, <1>3, <1>4, <2>1
  <2>3. Plus(a, p).own = a.own \o p.own /\ Plus(a, p).decls = a.decls \o p.decls
        /\ Plus(a, p).funcs = a.funcs \o p.funcs
    BY ONLY <2>2, PlusIs
  <2>4. a.own \o << >> = a.own /\ a.decls \o << >> = a.decls
    <3>1. a.own \in Seq(Only(Items, "item")) /\ a.decls \in Seq(Only(Items, "decl"))
      BY <2>2 DEF Parts
    <3> QED
      BY <3>1, ConcatEmptySeq
  <2>5. p.own = << >> /\ p.decls = << >> /\ p.funcs = made
    BY <1>2
  <2>6. Plus(a, p) \in Parts
    BY ONLY <2>2, PlusType
  <2> QED
    BY <2>1, <2>2, <2>3, <2>4, <2>5, <2>6
<1>6. /\ u[D + 1].own = << >> /\ u[D + 1].decls = params
      /\ u[D + 1].funcs = t[D].funcs \o made
  <2>1. u[D + 1] = Starting(u[D], q)
    BY <1>3 DEF Onto
  <2>2. PICK a : a = u[D]
    OBVIOUS
  <2>3. /\ Starting(a, q).own = q.own /\ Starting(a, q).decls = q.decls
        /\ Starting(a, q).funcs = a.funcs \o q.funcs
    BY DEF Starting
  <2>4. a.funcs \o << >> = a.funcs
    <3>1. a.funcs \in Seq(Only(Items, "func"))
      BY <1>5, <2>2 DEF Parts
    <3> QED
      BY <3>1, ConcatEmptySeq
  <2>5. q.own = << >> /\ q.decls = params /\ q.funcs = << >>
    BY <1>2
  <2> QED
    BY <1>5, <2>1, <2>2, <2>3, <2>4, <2>5
<1>7. /\ \E m \in [0 .. D + 1 -> Nat] :
           /\ Levels(m)' /\ m[D + 1] = n[D] + 1
           /\ \A j \in 0 .. D : m[j] = n[j]
      /\ Owner(n[D] + 1)' = f
      /\ \A i \in 0 .. n[D] : Owner(i)' = Owner(i)
  <2>1. /\ D = Depth /\ Depth' = D + 1 /\ func_stack' = Append(func_stack, f)
        /\ SameBelow(D) /\ Opens(D + 1)' /\ HeadOf(D + 1)' = f
    OBVIOUS
  <2> QED
    BY ONLY <1>1, <2>1, LevelsOpen
<1>8. PICK m \in [0 .. D + 1 -> Nat] : /\ Levels(m)' /\ m[D + 1] = n[D] + 1
                                       /\ \A j \in 0 .. D : m[j] = n[j]
  BY <1>7
<1>9. \A j \in 0 .. D : n[j] \in 0 .. n[D] /\ Owner(n[j]) \in Owners /\ Owner(n[j]) # f
  <2>1. n[D] = Len(func_stack) /\ n[D] \in Nat
    BY <1>1, <1>4 DEF Levels
  <2>2. \A j \in 0 .. D : n[j] \in 0 .. n[D]
    BY <1>1, <2>1, OpenBelow
  <2>3. \A i \in 0 .. Len(func_stack) : Owner(i) \in Owners
    BY <1>1, OwnersApart
  <2>4. NoFunc # f
    BY ValidatorAssumption
  <2>5. ASSUME NEW i \in 0 .. n[D] PROVE Owner(i) # f
    <3>1. i # 0 => i \in 1 .. Len(func_stack)
      BY <2>1
    <3> QED
      BY <1>1, <2>4, <3>1 DEF Owner
  <2> QED
    BY <2>1, <2>2, <2>3, <2>5
<1>10. /\ source'.locals[f] = Named(params) /\ source'.body[f] = << >>
       /\ \A o \in Owners : o # f => source'.locals[o] = source.locals[o]
  <2>1. source.locals \in [Owners -> Seq(Variables)] /\ f \in Owners
    BY <1>1 DEF Sources, Owners
  <2> QED
    BY <1>1, <2>1
<1>11. ASSUME NEW j \in 0 .. D + 1, j = D + 1 \/ Opens(j + 1)'
       PROVE  source'.body[Owner(m[j])'] = u[j].own /\ source'.locals[Owner(m[j])'] = Named(u[j].decls)
  <2>1. CASE j = D + 1
    BY <1>6, <1>7, <1>8, <1>10, <2>1
  <2>2. CASE j # D + 1
    <3>1. j \in 0 .. D
      BY <1>1, <2>2
    <3>2. Owner(m[j])' = Owner(n[j]) /\ Owner(n[j]) \in Owners /\ Owner(n[j]) # f
      BY <1>7, <1>8, <1>9, <3>1
    <3>3. j = D \/ Opens(j + 1)
      <4>1. j # D => j + 1 \in 1 .. D
        BY <1>1, <3>1
      <4>2. Opens(j + 1)'
        BY <1>11, <2>2
      <4>3. \A i \in 1 .. D : Opens(i)' <=> Opens(i)
        BY DEF SameBelow
      <4> QED
        BY ONLY <4>1, <4>2, <4>3
    <3>4. source.body[Owner(n[j])] = t[j].own /\ source.locals[Owner(n[j])] = Named(t[j].decls)
      <4>1. /\ Matches(t, n) /\ j \in 0 .. D /\ (j = D \/ Opens(j + 1)) /\ D = Depth
        BY <1>1, <3>1, <3>3
      <4> QED
        BY ONLY <4>1 DEF Matches, Holds
    <3>5. u[j].own = t[j].own /\ u[j].decls = t[j].decls
      BY <1>3, <1>5, <3>1
    <3> QED
      BY <1>10, <3>2, <3>4, <3>5
  <2> QED
    BY <2>1, <2>2
<1>12. source'.funcs = Named(u[D + 1].funcs)
  <2>1. source.funcs = Named(t[D].funcs)
    BY <1>1 DEF Matches
  <2>2. t[D].funcs \in Seq(Only(Items, "func"))
    BY <1>4 DEF Parts
  <2>3. PICK a : a = t[D].funcs
    OBVIOUS
  <2>4. a \in Seq(Only(Items, "func")) /\ made \in Seq(Only(Items, "func"))
    BY <2>2, <2>3
  <2>5. Named(a \o made) = Named(a) \o Named(made)
    BY ONLY <2>4, NamedConcat
  <2> QED
    BY <1>6, <2>1, <2>3, <2>5
<1>13. Matches(u, m)'
  BY <1>11, <1>12 DEF Matches, Holds
<1>14. Sync(u, m)'
  BY <1>3, <1>8, <1>13 DEF Sync
<1> QED
  BY <1>14 DEF InStep

\* The visit of a function is done.  above: the functions that it hoists.
Leaves(D, t, n) ==
  /\ Calm /\ D = Depth /\ D # 0 /\ t \in [0 .. D -> Parts] /\ n \in [0 .. D -> Nat] /\ Sync(t, n)
  /\ Opens(D) /\ Depth' = D - 1 /\ func_stack' = SubSeq(func_stack, 1, Len(func_stack) - 1)
  /\ SameBelow(D - 1) /\ (\A j \in 0 .. D - 1 : j # D - 1 => Content(j)' = Content(j))
  /\ Content(D - 1)' = Plus(Content(D - 1), Sorted(Content(D).funcs))
  /\ source' = source /\ Book'

LEMMA SyncLeave ==
  ASSUME NEW D, NEW t, NEW n, Leaves(D, t, n)
  PROVE  InStep'
<1> USE DEF Leaves
<1> DEFINE above == Content(D).funcs
           p == Sorted(above)
<1>1. /\ Queues /\ D \in Nat \ {0} /\ func_stack \in Seq(Funcs) /\ source \in Sources
      /\ t \in [0 .. D -> Parts] /\ n \in [0 .. D -> Nat]
      /\ Ledger(t) /\ Levels(n) /\ Matches(t, n) /\ Injective(func_stack)
  BY CalmHas DEF Sync, Book
<1>2. /\ D \in 0 .. D /\ D \in 1 .. D /\ D - 1 \in 0 .. D /\ D - 1 \in 0 .. D - 1 /\ (D - 1) + 1 = D
      /\ Content(D) \in Parts /\ t[D] \in Parts /\ t[D - 1] \in Parts
  <2>1. D \in 0 .. D /\ D \in 1 .. D /\ D - 1 \in 0 .. D /\ D - 1 \in 0 .. D - 1 /\ (D - 1) + 1 = D
    BY <1>1
  <2> QED
    BY <1>1, <2>1, ContentIs
<1>3. /\ above \in Seq(Only(Items, "func"))
      /\ p = [funcs |-> above, decls |-> << >>, own |-> << >>] /\ p \in Parts
  <2>1. above \in Seq(Only(Items, "func"))
    BY <1>2 DEF Parts
  <2> HIDE DEF above
  <2>2. p = [funcs |-> above, decls |-> << >>, own |-> << >>] /\ above \in Seq(Items)
    BY <2>1, SortedAlike
  <2> QED
    BY <2>1, <2>2, SortedParts
<1>4. PICK u \in [0 .. D - 1 -> Parts] : /\ Ledger(u)' /\ u[D - 1] = Plus(t[D - 1], p)
                                         /\ \A j \in 0 .. D - 1 : j # D - 1 => u[j] = t[j]
  <2> DEFINE k == D - 1
  <2>1. \A j \in 1 .. k : Opens(j)' <=> Opens(j)
    BY DEF SameBelow
  <2>2. /\ Depth' = k /\ \A j \in 0 .. k : j # k => Content(j)' = Content(j)
    OBVIOUS
  <2>3. Content(k)' = Plus(Content(k), p)
    OBVIOUS
  <2>4. k \in 0 .. Depth /\ t \in [0 .. Depth -> Parts]
    BY <1>2
  <2> HIDE DEF k, p
  <2>5. \E u \in [0 .. k -> Parts] : /\ Ledger(u)' /\ u[k] = Plus(t[k], p)
                                     /\ \A j \in 0 .. k : j # k => u[j] = t[j]
    BY ONLY <1>1, <1>3, <2>1, <2>2, <2>3, <2>4, LedgerTop
  <2> QED
    BY <2>5 DEF k
<1>5. /\ u[D - 1].own = t[D - 1].own /\ u[D - 1].decls = t[D - 1].decls
      /\ u[D - 1].funcs = t[D - 1].funcs \o above
  <2>1. PICK a : a = t[D - 1]
    OBVIOUS
  <2>2. a \in Parts /\ p \in Parts /\ u[D - 1] = Plus(a, p)
    BY <1>2, <1>3, <1>4, <2>1
  <2>5. p.own = << >> /\ p.decls = << >> /\ p.funcs = above
    BY <1>3
  <2> HIDE DEF p
  <2>3. Plus(a, p).own = a.own \o p.own /\ Plus(a, p).decls = a.decls \o p.decls
        /\ Plus(a, p).funcs = a.funcs \o p.funcs
    BY ONLY <2>2, PlusIs
  <2>4. a.own \o << >> = a.own /\ a.decls \o << >> = a.decls
    <3>1. a.own \in Seq(Only(Items, "item")) /\ a.decls \in Seq(Only(Items, "decl"))
      BY <2>2 DEF Parts
    <3> QED
      BY <3>1, ConcatEmptySeq
  <2> QED
    BY <2>1, <2>2, <2>3, <2>4, <2>5
<1>6. t[D].funcs = t[D - 1].funcs \o above
  <2>1. t[D] = Onto(Opens(D), t[D - 1], Content(D))
    BY <1>1, <1>2 DEF Ledger
  <2>2. t[D] = Starting(t[D - 1], Content(D))
    BY <2>1 DEF Onto
  <2>3. PICK a, b : a = t[D - 1] /\ b = Content(D)
    OBVIOUS
  <2>4. Starting(a, b).funcs = a.funcs \o b.funcs
    BY StartingIs
  <2>5. t[D] = Starting(a, b)
    BY <2>2, <2>3
  <2>6. t[D].funcs = a.funcs \o b.funcs
    BY ONLY <2>4, <2>5
  <2> QED
    BY ONLY <2>3, <2>6
<1>7. /\ \E m \in [0 .. D - 1 -> Nat] : Levels(m)' /\ \A j \in 0 .. D - 1 : m[j] = n[j]
      /\ n[D - 1] = n[D] - 1
      /\ \A i \in 0 .. n[D - 1] : Owner(i)' = Owner(i)
  <2>1. /\ D = Depth /\ Depth' = D - 1 /\ func_stack' = SubSeq(func_stack, 1, Len(func_stack) - 1)
        /\ SameBelow(D - 1) /\ Opens(D)
    OBVIOUS
  <2> QED
    BY ONLY <1>1, <2>1, LevelsClose
<1>8. PICK m \in [0 .. D - 1 -> Nat] : Levels(m)' /\ \A j \in 0 .. D - 1 : m[j] = n[j]
  BY <1>7
<1>9. \A j \in 0 .. D - 1 : Owner(m[j])' = Owner(n[j])
  <2>1. ASSUME NEW j \in 0 .. D - 1 PROVE n[j] \in 0 .. n[D - 1]
    <3>1. j \in 0 .. D - 1 /\ j \in 0 .. D /\ Depth \in Nat /\ n[j] \in Nat
      BY <1>1
    <3>2. n[j] <= n[D - 1]
      BY <1>1, <1>2, <3>1, LevelsGrow
    <3>3. n[D - 1] \in Nat
      BY <1>2
    <3> QED
      BY <3>1, <3>2, <3>3
  <2> QED
    BY <1>7, <1>8, <2>1
<1>10. ASSUME NEW j \in 0 .. D - 1, j = D - 1 \/ Opens(j + 1)'
       PROVE  source.body[Owner(m[j])'] = u[j].own /\ source.locals[Owner(m[j])'] = Named(u[j].decls)
  <2>1. Opens(j + 1)
    <3>1. CASE j = D - 1
      BY <1>2, <3>1
    <3>2. CASE j # D - 1
      <4>1. j + 1 \in 1 .. D - 1
        BY <1>1, <3>2
      <4> QED
        BY <1>10, <3>2, <4>1 DEF SameBelow
    <3> QED
      BY <3>1, <3>2
  <2>2. j \in 0 .. D
    BY <1>1
  <2>3. source.body[Owner(n[j])] = t[j].own /\ source.locals[Owner(n[j])] = Named(t[j].decls)
    BY <1>1, <2>1, <2>2 DEF Matches, Holds
  <2>4. u[j].own = t[j].own /\ u[j].decls = t[j].decls
    BY <1>4, <1>5
  <2> QED
    BY <1>9, <2>3, <2>4
<1>11. source.funcs = Named(u[D - 1].funcs)
  BY <1>1, <1>5, <1>6 DEF Matches
<1>12. Matches(u, m)'
  BY <1>10, <1>11 DEF Matches, Holds
<1>13. Sync(u, m)'
  BY <1>4, <1>8, <1>12 DEF Sync
<1> QED
  BY <1>13 DEF InStep

(***************************************************************************)
(* What is kept of each function and of the program, however a step emits   *)
(***************************************************************************)

LEMMA NoLonger ==
  ASSUME NEW A, NEW S, NEW F \in [A -> Seq(S)], NEW o
  PROVE  [F EXCEPT ![o] = @ \o << >>] = F
<1>1. \A x \in A : F[x] \o << >> = F[x]
  BY ConcatEmptySeq
<1> QED
  BY <1>1

Prolongs(r, s, v) ==
  /\ Len(s) \in Nat /\ Len(r) = Len(s) + 1 /\ r[Len(s) + 1] = v
  /\ \A i \in 1 .. Len(s) : r[i] = s[i]
  /\ Range(r) = Range(s) \cup {v}
  /\ Injective(s) /\ (\A i \in 1 .. Len(s) : s[i] # v) => Injective(r)

LEMMA OneMore ==
  ASSUME NEW S, NEW s \in Seq(S), NEW v \in S, NEW r, r = s \o << v >>
  PROVE  Prolongs(r, s, v)
<1>1. /\ r \in Seq(S) /\ Len(r) = Len(s) + 1 /\ r[Len(s) + 1] = v /\ Len(s) \in Nat
      /\ \A i \in 1 .. Len(s) : r[i] = s[i]
  OBVIOUS
<1>2. DOMAIN r = 1 .. Len(s) + 1 /\ DOMAIN s = 1 .. Len(s)
  BY <1>1
<1>3. \A i : i \in 1 .. Len(s) + 1 <=> i \in 1 .. Len(s) \/ i = Len(s) + 1
  BY <1>1
<1>4. Range(r) = Range(s) \cup {v}
  BY <1>1, <1>2, <1>3 DEF Range
<1>5. Injective(s) /\ (\A i \in 1 .. Len(s) : s[i] # v) => Injective(r)
  BY <1>1, <1>3 DEF Injective
<1> QED
  BY <1>1, <1>4, <1>5 DEF Prolongs

\* Within is the function on top of func_stack.
Inside ==
  IF func_stack = << >> THEN Within = NoFunc
  ELSE /\ Len(func_stack) \in 1 .. Len(func_stack) /\ Within = func_stack[Len(func_stack)]
       /\ Within \in Funcs

LEMMA WithinLast ==
  ASSUME Calm, NEW t \in [0 .. Depth -> Parts], NEW n \in [0 .. Depth -> Nat], Sync(t, n)
  PROVE  Inside /\ Within = Owner(n[Depth])
<1>1. Depth \in Nat /\ func_stack \in Seq(Funcs) /\ Levels(n)
  BY CalmHas DEF Sync
<1>2. Within = Owner(n[Depth]) /\ n[Depth] = Len(func_stack)
  BY <1>1, CalmHas, WithinIs DEF Levels
<1>3. CASE func_stack = << >>
  BY <1>2, <1>3 DEF Inside, Owner
<1>4. CASE func_stack # << >>
  <2>1. Len(func_stack) \in 1 .. Len(func_stack) /\ Len(func_stack) # 0
    BY <1>1, <1>4
  <2> QED
    BY <1>1, <1>2, <1>4, <2>1 DEF Inside, Owner
<1> QED
  BY <1>2, <1>3, <1>4

\* The step stays in its function; it may make one other function, and declare
\* one variable.
Notes(p) ==
  /\ func_stack' = func_stack /\ source'.defined = source.defined
  /\ SourceGrows(p, Within)
  /\ source'.count \in Nat /\ source.count <= source'.count
  /\ \A f \in Funcs :
       /\ functions'[f].made <=> f \in Range(source'.funcs)
       /\ functions'[f].has_definition = functions[f].has_definition
       /\ functions'[f].locals = functions[f].locals /\ functions'[f].body = functions[f].body
  /\ \/ Named(p.decls) = << >> /\ symbols' = symbols
     \/ /\ Named(p.decls) = << << Within, source'.count >> >> /\ source.count < source'.count
        /\ symbols' = WithVars({<< Within, source'.count >>})

LEMMA LocalsNoted ==
  ASSUME LirTypes, source \in Sources, Book, Inside, NEW p, Notes(p)
  PROVE  /\ \A f \in Funcs : symbols'.funcs[f] = Range(source'.locals[f])
         /\ symbols'.globals = Range(source'.locals[NoFunc])
         /\ \A o \in Owners :
              /\ Injective(source'.locals[o])
              /\ \A i \in 1 .. Len(source'.locals[o]) : source'.locals[o][i][2] <= source'.count
<1> DEFINE L == source.locals
           w == Within
           c == source'.count
           v == << w, c >>
<1>1. /\ L \in [Owners -> Seq(Variables)] /\ source.count \in Nat /\ c \in Nat /\ source.count <= c
      /\ w \in Owners /\ NoFunc \in Owners /\ Funcs \subseteq Owners /\ NoFunc \notin Funcs
  BY ValidatorAssumption DEF Sources, Notes, Inside, Owners
<1>2. \A o \in Owners : /\ L[o] \in Seq(Variables) /\ Injective(L[o])
                        /\ \A i \in 1 .. Len(L[o]) : L[o][i] \in Variables /\ L[o][i][2] <= source.count
  BY <1>1 DEF Book
<1>3. /\ \A f \in Funcs : symbols.funcs[f] = Range(L[f])
      /\ symbols.globals = Range(L[NoFunc])
  BY DEF Book
<1>4. CASE Named(p.decls) = << >> /\ symbols' = symbols
  <2>1. source'.locals = L
    <3>1. source'.locals = [L EXCEPT ![w] = @ \o << >>]
      BY <1>4 DEF Notes, SourceGrows
    <3> HIDE DEF L, w
    <3> QED
      BY <1>1, <3>1, NoLonger
  <2>2. ASSUME NEW o \in Owners, NEW i \in 1 .. Len(L[o])
        PROVE  L[o][i][2] <= c
    <3>1. L[o][i] \in Variables /\ L[o][i][2] <= source.count
      BY <1>2
    <3>2. L[o][i][2] \in Int
      BY <3>1 DEF Variables
    <3> QED
      BY <1>1, <3>1, <3>2
  <2> HIDE DEF L
  <2> QED
    BY <1>2, <1>3, <1>4, <2>1, <2>2
<1>5. CASE /\ Named(p.decls) = << v >> /\ source.count < c /\ symbols' = WithVars({v})
  <2> DEFINE r == L[w] \o << v >>
  <2>1. v \in Variables
    BY <1>1 DEF Variables
  <2>2. Prolongs(r, L[w], v)
    <3>1. PICK s \in Seq(Variables) : s = L[w]
      BY <1>1, <1>2
    <3>2. PICK x : x = s \o << v >>
      OBVIOUS
    <3> HIDE DEF v
    <3>3. Prolongs(x, s, v)
      BY ONLY <2>1, <3>2, OneMore
    <3>4. x = r
      BY <3>1, <3>2
    <3> HIDE DEF r
    <3> QED
      BY ONLY <3>1, <3>3, <3>4
  <2>3. source'.locals = [L EXCEPT ![w] = r]
    BY <1>5 DEF Notes, SourceGrows
  <2>4. \A i \in 1 .. Len(L[w]) : L[w][i] # v /\ L[w][i][2] <= c
    <3>1. ASSUME NEW i \in 1 .. Len(L[w]) PROVE L[w][i] # v /\ L[w][i][2] <= c
      <4>1. L[w][i] \in Variables /\ L[w][i][2] <= source.count
        BY <1>1, <1>2
      <4>2. L[w][i][2] \in Int /\ v[2] = c
        BY <4>1 DEF Variables
      <4> QED
        BY <1>1, <1>5, <4>1, <4>2
    <3> QED
      BY <3>1
  <2>5. v[2] = c
    OBVIOUS
  <2> HIDE DEF r, v
  <2>6. /\ source'.locals[w] = r /\ \A o \in Owners : o # w => source'.locals[o] = L[o]
    BY <1>1, <2>3
  <2>7. Injective(r) /\ \A i \in 1 .. Len(r) : r[i][2] <= c
    <3>1. PICK k, m : k = Len(L[w]) /\ m = L[w]
      OBVIOUS
    <3>2. /\ k \in Nat /\ Len(r) = k + 1 /\ r[k + 1] = v /\ \A i \in 1 .. k : r[i] = m[i]
      BY <2>2, <3>1 DEF Prolongs
    <3>3. \A i \in 1 .. k : m[i] # v /\ m[i][2] <= c
      BY <2>4, <3>1
    <3>4. \A i \in 1 .. Len(r) : i \in 1 .. k \/ i = k + 1
      BY <3>2
    <3>5. \A i \in 1 .. Len(r) : r[i][2] <= c
      BY <1>1, <2>5, <3>2, <3>3, <3>4
    <3>6. Injective(r)
      BY <1>1, <1>2, <2>2, <2>4 DEF Prolongs
    <3> QED
      BY <3>5, <3>6
  <2>8. ASSUME NEW o \in Owners, o # w, NEW i \in 1 .. Len(L[o])
        PROVE  L[o][i][2] <= c
    <3>1. L[o][i] \in Variables /\ L[o][i][2] <= source.count
      BY <1>2
    <3>2. L[o][i][2] \in Int
      BY <3>1 DEF Variables
    <3> QED
      BY <1>1, <3>1, <3>2
  <2>9. /\ w # NoFunc => symbols'.funcs[w] = symbols.funcs[w] \cup {v} /\ symbols'.globals = symbols.globals
        /\ w = NoFunc => symbols'.globals = symbols.globals \cup {v} /\ symbols'.funcs = symbols.funcs
        /\ \A f \in Funcs : f # w => symbols'.funcs[f] = symbols.funcs[f]
    <3>1. symbols \in [funcs : [Funcs -> SUBSET Variables], globals : SUBSET Variables]
      BY DEF LirTypes
    <3>2. CASE func_stack = << >>
      <4>1. symbols' = [symbols EXCEPT !.globals = @ \cup {v}] /\ w = NoFunc
        BY <1>5, <3>2 DEF WithVars, Inside
      <4> QED
        BY <3>1, <4>1
    <3>3. CASE func_stack # << >>
      <4>1. symbols' = [symbols EXCEPT !.funcs[w] = @ \cup {v}] /\ w \in Funcs
        BY <1>5, <3>3 DEF WithVars, Inside
      <4> HIDE DEF w
      <4> QED
        BY <1>1, <3>1, <4>1
    <3> QED
      BY <3>2, <3>3
  <2>10. w # NoFunc => w \in Funcs
    BY <1>1 DEF Owners
  <2> HIDE DEF w, L
  <2>11. ASSUME NEW f \in Funcs PROVE symbols'.funcs[f] = Range(source'.locals[f])
    BY <1>1, <1>3, <2>2, <2>6, <2>9, <2>10 DEF Prolongs
  <2>12. symbols'.globals = Range(source'.locals[NoFunc])
    BY <1>1, <1>3, <2>2, <2>6, <2>9 DEF Prolongs
  <2>13. ASSUME NEW o \in Owners
         PROVE  /\ Injective(source'.locals[o])
                /\ \A i \in 1 .. Len(source'.locals[o]) : source'.locals[o][i][2] <= c
    BY <1>2, <2>6, <2>7, <2>8
  <2> QED
    BY <2>11, <2>12, <2>13
<1> QED
  BY <1>4, <1>5 DEF Notes

LEMMA BookNotes ==
  ASSUME LirTypes, source \in Sources, Book, Inside, NEW p, Notes(p)
  PROVE  Book'
<1> DEFINE w == Within
<1>1. /\ source.body \in [Owners -> Seq(Only(Items, "item"))]
      /\ source.locals \in [Owners -> Seq(Variables)]
      /\ Funcs \subseteq Owners /\ NoFunc \notin Funcs
  BY ValidatorAssumption DEF Sources, Owners
<1>2. \A f \in Funcs : f = w => f \in source.defined /\ \E i \in 1 .. Len(func_stack) : func_stack[i] = f
  BY <1>1 DEF Book, Inside
<1>3. \A f \in Funcs : f # w => source'.body[f] = source.body[f] /\ source'.locals[f] = source.locals[f]
  BY <1>1 DEF Notes, SourceGrows
<1>4. func_stack' = func_stack /\ source'.defined = source.defined
  BY DEF Notes
<1>5. Injective(func_stack') /\ \A i \in 1 .. Len(func_stack') : func_stack'[i] \in source'.defined
  BY <1>4 DEF Book
<1>6. ASSUME NEW f \in Funcs
      PROVE  /\ functions'[f].made <=> f \in Range(source'.funcs)
             /\ functions'[f].has_definition <=> f \in source'.defined
             /\ f \notin source'.defined => source'.body[f] = << >>
             /\ f \in source'.defined /\ (\A i \in 1 .. Len(func_stack') : func_stack'[i] # f) => Closed(f)'
  <2>1. /\ functions'[f].made <=> f \in Range(source'.funcs)
        /\ functions'[f].has_definition = functions[f].has_definition
        /\ functions'[f].locals = functions[f].locals /\ functions'[f].body = functions[f].body
    BY DEF Notes
  <2>2. functions[f].has_definition <=> f \in source.defined
    BY DEF Book
  <2>3. f \notin source'.defined => source'.body[f] = << >>
    BY <1>2, <1>3, <1>4 DEF Book
  <2>4. ASSUME f \in source'.defined, \A i \in 1 .. Len(func_stack') : func_stack'[i] # f
        PROVE  Closed(f)'
    <3>1. f # w /\ Closed(f)
      BY <1>2, <1>4, <2>4 DEF Book
    <3> QED
      BY <1>3, <2>1, <3>1 DEF Closed
  <2> QED
    BY <1>4, <2>1, <2>2, <2>3, <2>4
<1>7. /\ \A f \in Funcs : symbols'.funcs[f] = Range(source'.locals[f])
      /\ symbols'.globals = Range(source'.locals[NoFunc])
      /\ \A o \in Owners :
           /\ Injective(source'.locals[o])
           /\ \A i \in 1 .. Len(source'.locals[o]) : source'.locals[o][i][2] <= source'.count
  BY LocalsNoted
<1> HIDE DEF w
<1> QED
  BY <1>5, <1>6, <1>7 DEF Book

(***************************************************************************)
(* The walks stay in step: one lemma for each way to change the queues      *)
(***************************************************************************)

LEMMA InStepEmit ==
  ASSUME Calm, InStep, NEW items \in Seq(Items), ctxt' = ctxt,
         current_q' = current_q \o items, queue_stack' = queue_stack, visits' = visits,
         Notes(Sorted(items))
  PROVE  InStep' /\ Queues' /\ Depth' = Depth
<1>0. PICK D : D = Depth
  OBVIOUS
<1> DEFINE p == Sorted(items)
<1>1. PICK t \in [0 .. D -> Parts], n \in [0 .. D -> Nat] : Sync(t, n)
  BY <1>0 DEF InStep
<1>2. Queues /\ D \in Nat /\ D \in 0 .. D
  BY <1>0, CalmHas
<1>3. Book /\ Inside /\ LirTypes /\ source \in Sources
  BY <1>0, <1>1, WithinLast DEF Sync, Calm
<1>4. Book'
  BY <1>3, BookNotes
<1>5. /\ Queues' /\ Depth' = D
      /\ \A j \in 0 .. D : j # D => Content(j)' = Content(j)
      /\ Content(D)' = Plus(Content(D), p)
  BY <1>0, <1>2, ContentEmit
<1>6. SameBelow(D) /\ func_stack' = func_stack /\ SourceGrows(p, Within)
  BY HeadsSame DEF Notes
<1>7. \A j \in D + 1 .. D : ~Opens(j)
  BY <1>2
<1>8. p \in Parts /\ Plus(t[D], p) = Plus(t[D], p)
  BY SortedParts
<1>9. InStep'
  <2> HIDE DEF p
  <2>1. Tops(D, t, n, D, p, p)
    BY ONLY Calm, <1>0, <1>1, <1>2, <1>4, <1>5, <1>6, <1>7, <1>8 DEF Tops
  <2> QED
    BY <2>1, SyncTop
<1> QED
  BY <1>0, <1>5, <1>9

LEMMA InStepElse ==
  ASSUME Calm, InStep, ctxt # << >>, Holder.kind = "if",
         ctxt' = Above(2) \o << Node("if", NoFunc, "else"), Inner >>,
         NEW sep \in Only(Items, "item"),
         visits' = [visits EXCEPT ![Len(visits)] = Drained(@, Append(current_q, sep))],
         current_q' = << >>, queue_stack' = queue_stack, Notes(NewVisit(<< sep >>))
  PROVE  InStep' /\ Queues' /\ Depth' = Depth /\ Len(ctxt') = Len(ctxt)
<1>0. PICK D : D = Depth
  OBVIOUS
<1> DEFINE p == NewVisit(<< sep >>)
<1>1. PICK t \in [0 .. D -> Parts], n \in [0 .. D -> Nat] : Sync(t, n)
  BY <1>0 DEF InStep
<1>2. Queues /\ D \in Nat \ {0} /\ D \in 0 .. D /\ ctxt \in Seq(Nodes) /\ Len(ctxt) = 2 * D
  <2>1. Queues /\ D \in Nat /\ ctxt \in Seq(Nodes) /\ Len(ctxt) = 2 * D
    BY <1>0, CalmHas
  <2>2. Len(ctxt) # 0
    BY <2>1
  <2> QED
    BY <2>1, <2>2
<1>3. Book /\ Inside /\ LirTypes /\ source \in Sources
  BY <1>0, <1>1, WithinLast DEF Sync, Calm
<1>4. Book'
  BY <1>3, BookNotes
<1>5. /\ Queues' /\ Depth' = D
      /\ \A j \in 0 .. D : j # D => Content(j)' = Content(j)
      /\ Content(D)' = Plus(Content(D), p)
  BY <1>0, <1>2, ContentElse
<1>6. SameBelow(D) /\ Len(ctxt') = 2 * D
  BY <1>2, HeadsElse
<1>7. func_stack' = func_stack /\ SourceGrows(p, Within)
  BY DEF Notes
<1>8. \A j \in D + 1 .. D : ~Opens(j)
  BY <1>2
<1>9. p \in Parts /\ Plus(t[D], p) = Plus(t[D], p)
  <2>1. << sep >> \in Seq(Only(Items, "item"))
    OBVIOUS
  <2> QED
    BY <2>1, NewVisitType
<1>10. InStep'
  <2> HIDE DEF p
  <2>1. Tops(D, t, n, D, p, p)
    BY ONLY Calm, <1>0, <1>1, <1>2, <1>4, <1>5, <1>6, <1>7, <1>8, <1>9 DEF Tops
  <2> QED
    BY <2>1, SyncTop
<1> QED
  BY <1>0, <1>2, <1>5, <1>6, <1>10

LEMMA InStepPop ==
  ASSUME Calm, InStep, ctxt # << >>, Holder.kind # "function", ctxt' = Above(2),
         NEW close \in Seq(Only(Items, "item")),
         PopQueue(Hoisted(Drained(Visit, current_q), close)), Notes(NewVisit(close))
  PROVE  InStep' /\ Queues' /\ Depth' = Depth - 1 /\ Len(ctxt') = 2 * Depth'
<1>0. PICK D : D = Depth
  OBVIOUS
<1> DEFINE E == D - 1
<1> DEFINE p == NewVisit(close)
<1>1. PICK t \in [0 .. D -> Parts], n \in [0 .. D -> Nat] : Sync(t, n)
  BY <1>0 DEF InStep
<1>2. /\ Queues /\ D \in Nat \ {0} /\ D \in 0 .. D /\ D \in 1 .. D /\ D - 1 \in 0 .. D
      /\ ctxt \in Seq(Nodes) /\ Len(ctxt) = 2 * D
  <2>1. Queues /\ D \in Nat /\ ctxt \in Seq(Nodes) /\ Len(ctxt) = 2 * D
    BY <1>0, CalmHas
  <2>2. Len(ctxt) # 0
    BY <2>1
  <2> QED
    BY <2>1, <2>2
<1>3. Book /\ Inside /\ LirTypes /\ source \in Sources /\ Ledger(t)
  BY <1>0, <1>1, WithinLast DEF Sync, Calm
<1>4. Book'
  BY <1>3, BookNotes
<1>5. ~Opens(D)
  <2>1. 2 * D - 1 = Len(ctxt) - 1
    BY <1>2
  <2> QED
    BY <2>1 DEF Opens, Holder
<1>6. Content(D) = Drained(Visit, current_q) /\ Content(D) \in Parts
  <2>1. Content(D) = Drained(Visit, current_q)
    BY <1>0, <1>2 DEF Content, Visit, Depth
  <2> QED
    BY <1>0, <1>2, <2>1, ContentIs
<1>7. p \in Parts
  BY NewVisitType
<1> DEFINE h == Hoisted(Content(D), close)
           q == Plus(Content(D), p)
<1>8. h \in Seq(Items) /\ Sorted(h) = q /\ PopQueue(h) /\ q \in Parts
  BY <1>6, <1>7, SortedHoisted, PlusType
<1>9. /\ Queues' /\ Depth' = E
      /\ \A j \in 0 .. E : j # E => Content(j)' = Content(j)
      /\ Content(E)' = Plus(Content(E), q)
  <2>1. PICK x \in Seq(Items) : x = h /\ Sorted(x) = q /\ PopQueue(x)
    BY <1>8
  <2>2. Queues /\ D # 0
    BY <1>2
  <2>3. /\ Queues' /\ Depth' = D - 1
        /\ \A j \in 0 .. D - 1 : j # D - 1 => Content(j)' = Content(j)
        /\ Content(D - 1)' = Plus(Content(D - 1), Sorted(x))
    BY ONLY <1>0, <2>1, <2>2, ContentPop
  <2> HIDE DEF q
  <2> QED
    BY <2>1, <2>3
<1>10. SameBelow(E) /\ Len(ctxt') = 2 * E
  BY <1>2, HeadsUp
<1>11. func_stack' = func_stack /\ SourceGrows(p, Within)
  BY DEF Notes
<1>12. \A j \in E + 1 .. D : ~Opens(j)
  <2>1. \A j \in E + 1 .. D : j = D
    BY <1>2
  <2> QED
    BY <1>5, <2>1
<1>13. Plus(t[E], q) = Plus(t[D], p)
  <2>1. t[D] = Plus(t[E], Content(D))
    <3>1. t[D] = Onto(Opens(D), t[D - 1], Content(D))
      BY <1>0, <1>2, <1>3 DEF Ledger
    <3> QED
      BY <1>5, <3>1 DEF Onto
  <2>2. PICK a, b : a = t[E] /\ b = Content(D)
    OBVIOUS
  <2>3. a \in Parts /\ b \in Parts /\ p \in Parts
    BY <1>2, <1>6, <1>7, <2>2
  <2> HIDE DEF p
  <2>4. Plus(Plus(a, b), p) = Plus(a, Plus(b, p))
    BY ONLY <2>3, PlusAssociative
  <2> QED
    BY <2>1, <2>2, <2>4
<1>14. InStep'
  <2>1. E \in 0 .. D
    BY <1>2
  <2> HIDE DEF E, p, q
  <2>2. Tops(D, t, n, E, q, p)
    BY ONLY Calm, <1>0, <1>1, <1>4, <1>7, <1>8, <1>9, <1>10, <1>11, <1>12, <1>13, <2>1 DEF Tops
  <2> QED
    BY <2>2, SyncTop
<1> QED
  BY <1>0, <1>2, <1>9, <1>10, <1>14

LEMMA InStepPush ==
  ASSUME Calm, InStep, NEW kind, kind # "function", NEW part, ctxt' = Down(kind, NoFunc, part),
         NEW v \in Parts, queue_stack' = Append(queue_stack, current_q), visits' = Append(visits, v),
         current_q' = << >>, Notes(v)
  PROVE  InStep' /\ Queues' /\ Depth' = Depth + 1 /\ Len(ctxt') = 2 * Depth'
<1>0. PICK D : D = Depth
  OBVIOUS
<1>1. PICK t \in [0 .. D -> Parts], n \in [0 .. D -> Nat] : Sync(t, n)
  BY <1>0 DEF InStep
<1>2. Queues /\ D \in Nat /\ D \in 0 .. D /\ ctxt \in Seq(Nodes) /\ Len(ctxt) = 2 * D
  BY <1>0, CalmHas
<1>3. Book /\ Inside /\ LirTypes /\ source \in Sources
  BY <1>0, <1>1, WithinLast DEF Sync, Calm
<1>4. Book'
  BY <1>3, BookNotes
<1>5. /\ << >> \in Seq(Items) /\ current_q \o << >> = current_q
      /\ \A a \in Parts : Plus(a, Sorted(<< >>)) = a
  BY <1>2, ConcatEmptySeq, SortedNothing, PlusNothing DEF Queues
<1>6. /\ Queues' /\ Depth' = D + 1
      /\ \A j \in 0 .. D : j # D => Content(j)' = Content(j)
      /\ Content(D)' = Plus(Content(D), Sorted(<< >>))
      /\ Content(D + 1)' = Plus(v, Sorted(<< >>))
  <2> DEFINE e == << >>
  <2>1. e \in Seq(Items) /\ queue_stack' = Append(queue_stack, current_q \o e) /\ current_q' = e
    BY <1>5
  <2> HIDE DEF e
  <2>2. /\ Queues' /\ Depth' = D + 1
        /\ \A j \in 0 .. D : j # D => Content(j)' = Content(j)
        /\ Content(D)' = Plus(Content(D), Sorted(e))
        /\ Content(D + 1)' = Plus(v, Sorted(e))
    BY <1>0, <1>2, <2>1, ContentPush
  <2> QED
    BY <2>2 DEF e
<1>7. /\ \A j \in 0 .. D : Content(j)' = Content(j)
      /\ Content(D + 1)' = v
  <2>1. Content(D) \in Parts
    BY <1>0, <1>2, ContentIs
  <2> QED
    BY <1>5, <1>6, <2>1
<1>8. SameBelow(D) /\ Len(ctxt') = 2 * (D + 1) /\ ~Opens(D + 1)'
  BY <1>2, HeadsDown
<1>9. func_stack' = func_stack /\ SourceGrows(v, Within)
  BY DEF Notes
<1>10. InStep'
  <2>1. Depth' = D + 1
    BY <1>6
  <2>2. Puts(D, t, n, v)
    BY ONLY Calm, <1>0, <1>1, <1>4, <1>7, <1>8, <1>9, <2>1, v \in Parts DEF Puts
  <2> QED
    BY <2>2, SyncPush
<1> QED
  BY <1>0, <1>6, <1>8, <1>10

(***************************************************************************)
(* What the visits of statements without a variable add to the source       *)
(***************************************************************************)

\* The kinds of the items of a statement.
Brackets == {"return", "stmt", "break", "continue", "case", "default", "if", "else", "end",
             "label", "switch", "loop", "step", "body", "next", "init"}

LEMMA ItemIs ==
  ASSUME NEW k \in ItemKinds, NEW x \in Names
  PROVE  /\ Item(k, x) \in Items /\ Item(k, x).x = x
         /\ k \in Brackets => Item(k, x) \in Only(Items, "item")
         /\ k \in {"func", "decl"} => Item(k, x) \in Only(Items, k)
<1>1. Item(k, x) \in Items /\ Item(k, x).x = x /\ Item(k, x).k = k
  BY DEF Item, Items
<1> QED
  BY <1>1 DEF Only, Sort, Brackets

LEMMA OneItem ==
  ASSUME NEW k \in Brackets, NEW x \in Nat
  PROVE  Item(k, x) \in Only(Items, "item") /\ << Item(k, x) >> \in Seq(Only(Items, "item"))
<1>1. k \in ItemKinds /\ x \in Names
  BY DEF Brackets, ItemKinds, Names
<1>2. Item(k, x) \in Only(Items, "item")
  BY <1>1, ItemIs
<1> QED
  BY <1>2

LEMMA NewVisitIs ==
  ASSUME NEW s \in Seq(Only(Items, "item"))
  PROVE  /\ NewVisit(s) \in Parts
         /\ NewVisit(s).own = s /\ NewVisit(s).decls = << >> /\ NewVisit(s).funcs = << >>
         /\ Named(NewVisit(s).decls) = << >> /\ Named(NewVisit(s).funcs) = << >>
         /\ Sorted(s) = NewVisit(s) /\ s \in Seq(Items)
<1>1. NewVisit(s).own = s /\ NewVisit(s).decls = << >> /\ NewVisit(s).funcs = << >>
  BY DEF NewVisit
<1>2. Sorted(s) = NewVisit(s) /\ s \in Seq(Items)
  BY SortedAlike DEF NewVisit
<1>3. Named(<< >>) = << >>
  BY DEF Named
<1> QED
  BY <1>1, <1>2, <1>3, NewVisitType

\* The source after items have been read.
Reads(items, c) ==
  source' = [body |-> [source.body EXCEPT ![Within] = @ \o items], locals |-> source.locals,
             funcs |-> source.funcs, defined |-> source.defined, looped |-> source.looped,
             count |-> c]

LEMMA Reading ==
  ASSUME source \in Sources, NEW items \in Seq(Only(Items, "item"))
  PROVE  /\ source' = Here(items) => Reads(items, source.count + 1)
         /\ source' = Closing(items) => Reads(items, source.count)
         /\ source' = source /\ items = << >> => Reads(items, source.count)
<1>1. /\ source = [body |-> source.body, locals |-> source.locals, funcs |-> source.funcs,
                   defined |-> source.defined, looped |-> source.looped, count |-> source.count]
      /\ source.body \in [Owners -> Seq(Only(Items, "item"))]
  BY DEF Sources
<1>2. ASSUME source' = Here(items) PROVE Reads(items, source.count + 1)
  BY <1>1, <1>2 DEF Reads, Here
<1>3. ASSUME source' = Closing(items) PROVE Reads(items, source.count)
  BY <1>1, <1>3 DEF Reads, Closing
<1>4. ASSUME source' = source, items = << >> PROVE Reads(items, source.count)
  <2>1. [source.body EXCEPT ![Within] = @ \o << >>] = source.body
    BY <1>1, NoLonger
  <2> QED
    BY <1>1, <1>4, <2>1 DEF Reads
<1> QED
  BY <1>2, <1>3, <1>4

LEMMA ItemsNoted ==
  ASSUME LirTypes, source \in Sources, Book, NEW items \in Seq(Only(Items, "item")),
         NEW c, c = source.count \/ c = source.count + 1, Reads(items, c),
         UNCHANGED << func_stack, symbols, functions, prog >>
  PROVE  Notes(NewVisit(items)) /\ source' \in Sources
<1> DEFINE p == NewVisit(items)
<1>1. p.own = items /\ Named(p.decls) = << >> /\ Named(p.funcs) = << >>
  BY NewVisitIs
<1>2. /\ source.body \in [Owners -> Seq(Only(Items, "item"))]
      /\ source.locals \in [Owners -> Seq(Variables)] /\ source.funcs \in Seq(Funcs)
      /\ source.defined \in SUBSET Funcs /\ source.looped \in SUBSET Variables /\ source.count \in Nat
  BY DEF Sources
<1> HIDE DEF p
<1>3. /\ source'.body = [source.body EXCEPT ![Within] = @ \o items] /\ source'.locals = source.locals
      /\ source'.funcs = source.funcs /\ source'.defined = source.defined /\ source'.count = c
  BY DEF Reads
<1>4. SourceGrows(p, Within)
  <2>1. source.locals = [source.locals EXCEPT ![Within] = @ \o << >>]
    BY <1>2, NoLonger
  <2>2. source.funcs \o << >> = source.funcs
    BY <1>2, ConcatEmptySeq
  <2> QED
    BY <1>1, <1>3, <2>1, <2>2 DEF SourceGrows
<1>5. source'.body \in [Owners -> Seq(Only(Items, "item"))]
  <2>1. source'.body = [source.body EXCEPT ![Within] = source.body[Within] \o items]
    BY <1>2, <1>3
  <2>2. CASE Within \in Owners
    <3>1. source.body[Within] \o items \in Seq(Only(Items, "item"))
      BY <1>2, <2>2
    <3> QED
      BY <1>2, <2>1, <3>1, OneReplaced
  <2>3. CASE Within \notin Owners
    <3>1. source'.body = source.body
      BY <1>2, <2>1, <2>3
    <3> QED
      BY <1>2, <3>1
  <2> QED
    BY <2>2, <2>3
<1>6. source' \in Sources
  BY <1>2, <1>3, <1>5 DEF Reads, Sources
<1>7. \A f \in Funcs : functions'[f].made <=> f \in Range(source'.funcs)
  BY <1>3 DEF Book
<1>8. Notes(p)
  BY <1>1, <1>2, <1>3, <1>4, <1>7 DEF Notes
<1> QED
  BY <1>6, <1>8 DEF p

(* What every visit keeps as long as no error has been found.  *)
Goes ==
  /\ LirTypes /\ source \in Sources
  /\ Len(ctxt) = 2 * Depth /\ Len(queue_stack) = Depth
  /\ InStep

LEMMA GoesHas ==
  ASSUME StackInv, Goes
  PROVE  Calm /\ InStep /\ Book /\ Inside /\ LirTypes /\ source \in Sources
<1>1. Calm /\ InStep
  BY DEF Goes, Calm
<1>2. PICK t \in [0 .. Depth -> Parts], n \in [0 .. Depth -> Nat] : Sync(t, n)
  BY <1>1 DEF InStep
<1>3. Inside /\ Book
  BY <1>1, <1>2, WithinLast DEF Sync
<1> QED
  BY <1>1, <1>3 DEF Calm

LEMMA TypesKept ==
  ASSUME LirTypes, UNCHANGED << func_stack, symbols, functions, prog >>, Queues'
  PROVE  LirTypes'
BY DEF LirTypes, Queues

LEMMA StatementGoes ==
  ASSUME StackInv, Goes, NEW items \in Seq(Only(Items, "item")), ctxt' = ctxt,
         LStatement(items), source' = Here(items)
  PROVE  Goes'
<1>1. Calm /\ InStep /\ Book /\ LirTypes /\ source \in Sources
  BY GoesHas
<1>2. /\ current_q' = current_q \o items /\ queue_stack' = queue_stack /\ visits' = visits
      /\ UNCHANGED << func_stack, symbols, functions, prog >>
  BY DEF LStatement, Emit
<1>3. items \in Seq(Items) /\ Sorted(items) = NewVisit(items)
  BY NewVisitIs
<1>4. Notes(Sorted(items)) /\ source' \in Sources
  <2>1. Reads(items, source.count + 1)
    BY <1>1, Reading
  <2> QED
    BY <1>1, <1>2, <1>3, <2>1, ItemsNoted
<1>5. InStep' /\ Queues' /\ Depth' = Depth
  BY <1>1, <1>2, <1>3, <1>4, InStepEmit
<1>6. LirTypes'
  BY <1>1, <1>2, <1>5, TypesKept
<1> QED
  BY <1>2, <1>4, <1>5, <1>6 DEF Goes

LEMMA EnterGoes ==
  ASSUME StackInv, Goes, NEW kind, kind # "function", NEW part, ctxt' = Down(kind, NoFunc, part),
         NEW open \in Only(Items, "item"), LEnter(open), source' = Here(<< open >>)
  PROVE  Goes'
<1> DEFINE items == << open >>
<1>0. items \in Seq(Only(Items, "item"))
  OBVIOUS
<1>1. Calm /\ InStep /\ Book /\ LirTypes /\ source \in Sources
  BY GoesHas
<1> DEFINE v == NewVisit(items)
<1>2. /\ queue_stack' = Append(queue_stack, current_q) /\ visits' = Append(visits, v)
      /\ current_q' = << >>
      /\ UNCHANGED << func_stack, symbols, functions, prog >>
  BY DEF LEnter, PushQueue
<1>3. v \in Parts
  BY <1>0, NewVisitIs
<1>4. Notes(v) /\ source' \in Sources
  <2>1. Reads(items, source.count + 1)
    BY <1>0, <1>1, Reading
  <2> HIDE DEF items
  <2> QED
    BY <1>0, <1>1, <1>2, <2>1, ItemsNoted
<1> HIDE DEF v
<1>5. InStep' /\ Queues' /\ Depth' = Depth + 1 /\ Len(ctxt') = 2 * Depth'
  BY <1>1, <1>2, <1>3, <1>4, InStepPush
<1>6. LirTypes'
  BY <1>1, <1>2, <1>5, TypesKept
<1> QED
  BY <1>4, <1>5, <1>6 DEF Goes, Queues

LEMMA ElseGoes ==
  ASSUME StackInv, Goes, ctxt # << >>, Holder.kind = "if",
         ctxt' = Above(2) \o << Node("if", NoFunc, "else"), Inner >>,
         NEW sep \in Only(Items, "item"), LElse(sep), source' = Closing(<< sep >>)
  PROVE  Goes'
<1> DEFINE items == << sep >>
<1>0. items \in Seq(Only(Items, "item"))
  OBVIOUS
<1>1. Calm /\ InStep /\ Book /\ LirTypes /\ source \in Sources
  BY GoesHas
<1>2. /\ visits' = [visits EXCEPT ![Len(visits)] = Drained(@, Append(current_q, sep))]
      /\ current_q' = << >> /\ queue_stack' = queue_stack
      /\ UNCHANGED << func_stack, symbols, functions, prog >>
  BY DEF LElse
<1>3. Notes(NewVisit(items)) /\ source' \in Sources
  <2>1. Reads(items, source.count)
    BY <1>0, <1>1, Reading
  <2> HIDE DEF items
  <2> QED
    BY <1>0, <1>1, <1>2, <2>1, ItemsNoted
<1>4. InStep' /\ Queues' /\ Depth' = Depth /\ Len(ctxt') = Len(ctxt)
  BY <1>1, <1>2, <1>3, InStepElse
<1>5. LirTypes'
  BY <1>1, <1>2, <1>4, TypesKept
<1> QED
  BY <1>3, <1>4, <1>5 DEF Goes, Queues

LEMMA LeaveGoes ==
  ASSUME StackInv, Goes, ctxt # << >>, Holder.kind # "function", ctxt' = Above(2),
         NEW close \in Seq(Only(Items, "item")),
         PopQueue(Hoisted(Drained(Visit, current_q), close)),
         UNCHANGED << func_stack, symbols, functions, prog >>,
         Reads(close, source.count)
  PROVE  Goes'
<1>1. Calm /\ InStep /\ Book /\ LirTypes /\ source \in Sources
  BY GoesHas
<1>2. Notes(NewVisit(close)) /\ source' \in Sources
  BY <1>1, ItemsNoted
<1>3. InStep' /\ Queues' /\ Depth' = Depth - 1 /\ Len(ctxt') = 2 * Depth'
  BY <1>1, <1>2, InStepPop
<1>4. LirTypes'
  BY <1>1, <1>3, TypesKept
<1> QED
  BY <1>2, <1>3, <1>4 DEF Goes, Queues

\* The visits behind an if, a switch or a loop, and that of a label.
LEMMA ExitGoes ==
  ASSUME StackInv, Goes, NEW kind \in {"if", "switch", "loop", "label"}, InBody(kind), ctxt' = Above(2),
         \/ LExit(End) /\ source' = Closing(<< End >>)
         \/ LExitLabel /\ source' = source
  PROVE  Goes'
<1>1. ctxt # << >> /\ Holder.kind # "function" /\ source \in Sources
  BY DEF InBody, Goes
<1>2. CASE LExit(End) /\ source' = Closing(<< End >>)
  <2> DEFINE close == << End >>
  <2>1. close \in Seq(Only(Items, "item"))
    BY OneItem DEF End, Brackets
  <2>2. /\ PopQueue(Hoisted(Drained(Visit, current_q), close))
        /\ UNCHANGED << func_stack, symbols, functions, prog >> /\ source' = Closing(close)
    BY <1>2 DEF LExit
  <2> HIDE DEF close
  <2>3. Reads(close, source.count)
    BY <1>1, <2>1, <2>2, Reading
  <2> QED
    BY <1>1, <2>1, <2>2, <2>3, LeaveGoes
<1>3. CASE LExitLabel /\ source' = source
  <2> DEFINE close == << >>
  <2>1. close \in Seq(Only(Items, "item"))
    OBVIOUS
  <2>2. /\ PopQueue(Hoisted(Drained(Visit, current_q), close))
        /\ UNCHANGED << func_stack, symbols, functions, prog >>
    BY <1>3 DEF LExitLabel
  <2>3. Reads(close, source.count)
    BY <1>1, <1>3, <2>1, Reading
  <2> HIDE DEF close
  <2> QED
    BY <1>1, <2>1, <2>2, <2>3, LeaveGoes
<1> QED
  BY <1>2, <1>3

(***************************************************************************)
(* The visits that declare a variable                                      *)
(***************************************************************************)

LEMMA PushGoes ==
  ASSUME StackInv, Goes, NEW kind, kind # "function", NEW part, ctxt' = Down(kind, NoFunc, part),
         NEW v \in Parts, queue_stack' = Append(queue_stack, current_q), visits' = Append(visits, v),
         current_q' = << >>, Notes(v), source' \in Sources, UNCHANGED << functions, prog >>,
         symbols' \in [funcs : [Funcs -> SUBSET Variables], globals : SUBSET Variables]
  PROVE  Goes'
<1>1. Calm /\ InStep /\ Book /\ LirTypes /\ source \in Sources
  BY GoesHas
<1>2. InStep' /\ Queues' /\ Depth' = Depth + 1 /\ Len(ctxt') = 2 * Depth'
  BY <1>1, InStepPush
<1>3. func_stack' = func_stack
  BY DEF Notes
<1>4. LirTypes'
  BY <1>1, <1>2, <1>3 DEF LirTypes, Queues
<1> QED
  BY <1>2, <1>4 DEF Goes, Queues

\* The variable that the next declaration in the function declares.
NewVariable == << Within, Next1 >>

Declares(own, looped) ==
  source' = [body |-> [source.body EXCEPT ![Within] = @ \o own],
             locals |-> [source.locals EXCEPT ![Within] = @ \o << NewVariable >>],
             funcs |-> source.funcs, defined |-> source.defined, looped |-> looped,
             count |-> source.count + 1]

WithDecl(own) == [funcs |-> << >>, decls |-> << Item("decl", NewVariable) >>, own |-> own]

LEMMA NewVariableType ==
  ASSUME source \in Sources, Inside
  PROVE  /\ Within \in Owners /\ NewVariable \in Variables /\ NewVariable \in Names
         /\ Item("decl", NewVariable) \in Only(Items, "decl") /\ Item("decl", NewVariable).x = NewVariable
<1>1. Within \in Owners /\ source.count + 1 \in Int
  BY DEF Inside, Owners, Sources
<1>2. NewVariable \in Variables
  BY <1>1 DEF NewVariable, Next1, Variables
<1>3. NewVariable \in Names /\ "decl" \in ItemKinds
  BY <1>2 DEF Names, ItemKinds
<1> QED
  BY <1>1, <1>2, <1>3, ItemIs

LEMMA WithDeclIs ==
  ASSUME source \in Sources, Inside, NEW own \in Seq(Only(Items, "item"))
  PROVE  /\ WithDecl(own) \in Parts /\ WithDecl(own).own = own /\ WithDecl(own).funcs = << >>
         /\ Named(WithDecl(own).decls) = << NewVariable >> /\ Named(WithDecl(own).funcs) = << >>
<1> DEFINE d == Item("decl", NewVariable)
<1>1. d \in Only(Items, "decl") /\ d.x = NewVariable
  BY NewVariableType
<1> HIDE DEF d
<1>2. Named(<< d >>) = << d.x >> /\ Named(<< >>) = << >>
  BY DEF Named
<1>3. << d >> \in Seq(Only(Items, "decl")) /\ << >> \in Seq(Only(Items, "func"))
  BY <1>1
<1>4. WithDecl(own) = [funcs |-> << >>, decls |-> << d >>, own |-> own]
  BY DEF WithDecl, d
<1> QED
  BY <1>1, <1>2, <1>3, <1>4 DEF Parts

LEMMA SymbolsType ==
  ASSUME NEW a \in [Funcs -> SUBSET Variables], NEW b \in SUBSET Variables,
         NEW s, s = [funcs |-> a, globals |-> b]
  PROVE  s \in [funcs : [Funcs -> SUBSET Variables], globals : SUBSET Variables]
OBVIOUS

LEMMA VariableNoted ==
  ASSUME LirTypes, source \in Sources, Book, Inside, NEW own \in Seq(Only(Items, "item")),
         NEW looped \in SUBSET Variables, Declares(own, looped), symbols' = WithVars({NewVariable}),
         UNCHANGED << func_stack, functions, prog >>
  PROVE  /\ Notes(WithDecl(own)) /\ source' \in Sources
         /\ symbols' \in [funcs : [Funcs -> SUBSET Variables], globals : SUBSET Variables]
<1> DEFINE p == WithDecl(own)
           v == NewVariable
<1>1. /\ p.own = own /\ p.funcs = << >>
      /\ Named(p.decls) = << v >> /\ Named(p.funcs) = << >>
  BY WithDeclIs
<1>2. /\ source.body \in [Owners -> Seq(Only(Items, "item"))]
      /\ source.locals \in [Owners -> Seq(Variables)] /\ source.funcs \in Seq(Funcs)
      /\ source.defined \in SUBSET Funcs /\ source.count \in Nat
  BY DEF Sources
<1>3. v \in Variables
  BY NewVariableType
<1>4. v = << Within, source.count + 1 >>
  BY DEF NewVariable, Next1
<1> HIDE DEF p, v
<1>5. /\ source'.body = [source.body EXCEPT ![Within] = @ \o own]
      /\ source'.locals = [source.locals EXCEPT ![Within] = @ \o << v >>]
      /\ source'.funcs = source.funcs /\ source'.defined = source.defined
      /\ source'.looped = looped /\ source'.count = source.count + 1
  BY DEF Declares, v
<1>6. SourceGrows(p, Within)
  <2>1. source.funcs \o << >> = source.funcs
    BY <1>2, ConcatEmptySeq
  <2> QED
    BY <1>1, <1>5, <2>1 DEF SourceGrows
<1>7. /\ source'.body \in [Owners -> Seq(Only(Items, "item"))]
      /\ source'.locals \in [Owners -> Seq(Variables)]
  <2>1. \A o \in Owners : source.body[o] \in Seq(Only(Items, "item")) /\ source.locals[o] \in Seq(Variables)
    BY <1>2
  <2>2. << v >> \in Seq(Variables)
    BY <1>3
  <2>3. \A o \in Owners : source.body[o] \o own \in Seq(Only(Items, "item"))
    BY <2>1, ConcatProperties
  <2>4. \A o \in Owners : source.locals[o] \o << v >> \in Seq(Variables)
    BY <2>1, <2>2, ConcatProperties
  <2>5. Within \in Owners
    BY NewVariableType
  <2>6. [source.body EXCEPT ![Within] = @ \o own] \in [Owners -> Seq(Only(Items, "item"))]
    BY <1>2, <2>3, <2>5, OneReplaced
  <2>7. [source.locals EXCEPT ![Within] = @ \o << v >>] \in [Owners -> Seq(Variables)]
    BY <1>2, <2>4, <2>5, OneReplaced
  <2> QED
    BY <1>5, <2>6, <2>7
<1>8. source' \in Sources
  BY <1>2, <1>5, <1>7 DEF Declares, Sources
<1>9. \A f \in Funcs : functions'[f].made <=> f \in Range(source'.funcs)
  BY <1>5 DEF Book
<1>10. Notes(p)
  <2>1. << Within, source'.count >> = v
    BY <1>4, <1>5
  <2>2. symbols' = WithVars({<< Within, source'.count >>})
    BY <2>1 DEF v
  <2> QED
    BY <1>1, <1>2, <1>5, <1>6, <1>9, <2>1, <2>2 DEF Notes
<1>11. symbols' \in [funcs : [Funcs -> SUBSET Variables], globals : SUBSET Variables]
  <2>1. symbols' = WithVars({v})
    BY DEF v
  <2>2. symbols.funcs \in [Funcs -> SUBSET Variables] /\ symbols.globals \in SUBSET Variables
    BY DEF LirTypes
  <2>3. symbols = [funcs |-> symbols.funcs, globals |-> symbols.globals]
    BY DEF LirTypes
  <2>4. CASE func_stack = << >>
    <3>1. symbols' = [funcs |-> symbols.funcs, globals |-> symbols.globals \cup {v}]
      BY <2>1, <2>3, <2>4 DEF WithVars
    <3>2. symbols.globals \cup {v} \in SUBSET Variables
      BY <1>3, <2>2
    <3>3. PICK b \in SUBSET Variables : b = symbols.globals \cup {v}
      BY <3>2
    <3>4. symbols' = [funcs |-> symbols.funcs, globals |-> b]
      BY ONLY <3>1, <3>3
    <3> QED
      BY ONLY <2>2, <3>4, SymbolsType
  <2>5. CASE func_stack # << >>
    <3>1. PICK f \in Funcs : f = func_stack[Len(func_stack)]
      BY <2>5 DEF Inside
    <3>2. symbols' = [funcs |-> [symbols.funcs EXCEPT ![f] = @ \cup {v}], globals |-> symbols.globals]
      BY <2>1, <2>3, <2>5, <3>1 DEF WithVars
    <3>3. symbols.funcs[f] \cup {v} \in SUBSET Variables
      BY <1>3, <2>2
    <3>4. [symbols.funcs EXCEPT ![f] = @ \cup {v}] \in [Funcs -> SUBSET Variables]
      BY <2>2, <3>3, OneReplaced
    <3>5. PICK a \in [Funcs -> SUBSET Variables] : a = [symbols.funcs EXCEPT ![f] = @ \cup {v}]
      BY <3>4
    <3>6. symbols' = [funcs |-> a, globals |-> symbols.globals]
      BY ONLY <3>2, <3>5
    <3> QED
      BY ONLY <2>2, <3>6, SymbolsType
  <2> QED
    BY <2>4, <2>5
<1> QED
  BY <1>8, <1>10, <1>11 DEF p

LEMMA InitsType ==
  ASSUME source \in Sources, Inside, NEW init
  PROVE  /\ Inits(NewVariable, init) \in Seq(Only(Items, "item"))
         /\ source.looped \cup Looped(NewVariable, init) \in SUBSET Variables
<1>1. NewVariable \in Variables /\ NewVariable \in Names
  BY NewVariableType
<1>2. "init" \in ItemKinds /\ "init" \in Brackets
  BY DEF ItemKinds, Brackets
<1>3. Item("init", NewVariable) \in Only(Items, "item")
  BY <1>1, <1>2, ItemIs
<1>4. << Item("init", NewVariable) >> \in Seq(Only(Items, "item")) /\ << >> \in Seq(Only(Items, "item"))
  BY <1>3
<1> QED
  BY <1>1, <1>4 DEF Inits, Looped, Sources

LEMMA SortedDecl ==
  ASSUME source \in Sources, Inside, NEW own \in Seq(Only(Items, "item"))
  PROVE  /\ << Item("decl", NewVariable) >> \o own \in Seq(Items)
         /\ Sorted(<< Item("decl", NewVariable) >> \o own) = WithDecl(own)
<1>1. PICK d \in Only(Items, "decl") : d = Item("decl", NewVariable)
  BY NewVariableType
<1>2. << d >> \in Seq(Only(Items, "decl"))
  OBVIOUS
<1>3. << d >> \in Seq(Items) /\ Sorted(<< d >>) = [funcs |-> << >>, decls |-> << d >>, own |-> << >>]
  BY <1>2, SortedAlike
<1>4. own \in Seq(Items) /\ Sorted(own) = [funcs |-> << >>, decls |-> << >>, own |-> own]
  BY SortedAlike
<1>5. << d >> \o own \in Seq(Items) /\ Sorted(<< d >> \o own) = Plus(Sorted(<< d >>), Sorted(own))
  BY <1>3, <1>4, SortedPlus, ConcatProperties
<1>6. << d >> \o << >> = << d >> /\ << >> \o own = own /\ << >> \o << >> = << >>
  BY <1>2, ConcatEmptySeq
<1>7. Plus(Sorted(<< d >>), Sorted(own)) = [funcs |-> << >>, decls |-> << d >>, own |-> own]
  <2>1. PICK a : a = [funcs |-> << >>, decls |-> << d >>, own |-> << >>]
    OBVIOUS
  <2>2. PICK b : b = [funcs |-> << >>, decls |-> << >>, own |-> own]
    OBVIOUS
  <2>3. a.funcs = << >> /\ a.decls = << d >> /\ a.own = << >>
    BY <2>1
  <2>4. b.funcs = << >> /\ b.decls = << >> /\ b.own = own
    BY <2>2
  <2>5. Plus(a, b) = [funcs |-> << >>, decls |-> << d >>, own |-> own]
    BY <1>6, <2>3, <2>4 DEF Plus
  <2> QED
    BY <1>3, <1>4, <2>1, <2>2, <2>5
<1> QED
  BY <1>1, <1>5, <1>7 DEF WithDecl

LEMMA DeclaringIs ==
  ASSUME source \in Sources, Inside, NEW own \in Seq(Only(Items, "item")), NEW more, NEW ds,
         source' = [Here(own) EXCEPT !.locals[Within] = @ \o ds, !.looped = @ \cup more]
  PROVE  source' = [body |-> [source.body EXCEPT ![Within] = @ \o own],
                    locals |-> [source.locals EXCEPT ![Within] = @ \o ds],
                    funcs |-> source.funcs, defined |-> source.defined,
                    looped |-> source.looped \cup more, count |-> source.count + 1]
BY DEF Here, Sources

LEMMA DeclarationGoes ==
  ASSUME StackInv, Goes, ctxt' = ctxt, NEW own \in Seq(Only(Items, "item")),
         NEW looped \in SUBSET Variables, LVarDecl(NewVariable, own), Declares(own, looped)
  PROVE  Goes'
<1>1. Calm /\ InStep /\ Book /\ Inside /\ LirTypes /\ source \in Sources
  BY GoesHas
<1> DEFINE items == << Item("decl", NewVariable) >> \o own
<1>2. /\ current_q' = current_q \o items /\ symbols' = WithVars({NewVariable})
      /\ UNCHANGED << queue_stack, visits, func_stack, functions, prog >>
  BY DEF LVarDecl, Emit
<1>3. items \in Seq(Items) /\ Sorted(items) = WithDecl(own)
  BY <1>1, SortedDecl
<1> HIDE DEF items
<1>4. /\ Notes(WithDecl(own)) /\ source' \in Sources
      /\ symbols' \in [funcs : [Funcs -> SUBSET Variables], globals : SUBSET Variables]
  BY <1>1, <1>2, VariableNoted
<1>5. Notes(Sorted(items))
  BY <1>3, <1>4
<1>6. InStep' /\ Queues' /\ Depth' = Depth
  BY <1>1, <1>2, <1>3, <1>5, InStepEmit
<1>7. LirTypes'
  BY <1>1, <1>2, <1>4, <1>6 DEF LirTypes, Queues
<1> QED
  BY <1>2, <1>4, <1>6, <1>7 DEF Goes

Joined(a, b) == a \o b

LEMMA Joining ==
  ASSUME NEW S, NEW s \in Seq(S), NEW t \in Seq(S), NEW u \in Seq(S)
  PROVE  Joined(Joined(s, t), u) = Joined(s, Joined(t, u)) /\ Joined(s, t) \in Seq(S)
<1>1. (s \o t) \o u = s \o (t \o u)
  BY ConcatAssociative
<1>2. s \o t \in Seq(S)
  BY ConcatProperties
<1> QED
  BY <1>1, <1>2, Zenon DEF Joined

LEMMA Regrouped ==
  ASSUME NEW S, NEW a \in Seq(S), NEW b \in Seq(S), NEW c \in Seq(S), NEW d \in Seq(S), NEW e \in Seq(S)
  PROVE  /\ Joined(Joined(Joined(Joined(a, b), c), d), e) \in Seq(S)
         /\ Joined(b, c) \in Seq(S) /\ Joined(d, e) \in Seq(S)
         /\ Joined(Joined(a, Joined(b, c)), Joined(d, e)) = Joined(Joined(Joined(Joined(a, b), c), d), e)
<1>1. /\ Joined(a, b) \in Seq(S) /\ Joined(b, c) \in Seq(S) /\ Joined(d, e) \in Seq(S)
      /\ Joined(Joined(a, b), c) = Joined(a, Joined(b, c))
  BY Joining
<1>2. PICK g \in Seq(S) : g = Joined(Joined(a, b), c)
  BY <1>1, Joining
<1>3. Joined(g, d) \in Seq(S) /\ Joined(Joined(g, d), e) = Joined(g, Joined(d, e))
  BY Joining
<1>4. Joined(Joined(g, d), e) \in Seq(S)
  BY <1>3, Joining
<1> QED
  BY <1>1, <1>2, <1>3, <1>4

\* The visit of a loop once its init, condition and step have been sorted.
LoopSorted(open, step, body, inits, next, first, decls) ==
  /\ << open >> \o inits \o << step >> \o next \o << body >> \in Seq(Only(Items, "item"))
  /\ Drained(Drained(NewVisit(<< open >>), first), Append(next, body))
       = [funcs |-> << >>, decls |-> decls,
          own |-> << open >> \o inits \o << step >> \o next \o << body >>]

LEMMA LoopVisit ==
  ASSUME NEW open \in Only(Items, "item"), NEW step \in Only(Items, "item"), NEW body \in Only(Items, "item"),
         NEW inits \in Seq(Only(Items, "item")), NEW next \in Seq(Only(Items, "item")),
         NEW first \in Seq(Items), NEW decls \in Seq(Only(Items, "decl")),
         Sorted(first) = [funcs |-> << >>, decls |-> decls, own |-> inits \o << step >>]
  PROVE  LoopSorted(open, step, body, inits, next, first, decls)
<1>0. /\ << open >> \in Seq(Only(Items, "item")) /\ << step >> \in Seq(Only(Items, "item"))
      /\ << body >> \in Seq(Only(Items, "item"))
  OBVIOUS
<1>1. PICK o \in Seq(Only(Items, "item")) : o = << open >>
  BY <1>0
<1>2. PICK s \in Seq(Only(Items, "item")) : s = << step >>
  BY <1>0
<1>3. PICK b \in Seq(Only(Items, "item")) : b = << body >>
  BY <1>0
<1>4. /\ o \o inits \o s \o next \o b \in Seq(Only(Items, "item"))
      /\ inits \o s \in Seq(Only(Items, "item")) /\ next \o b \in Seq(Only(Items, "item"))
      /\ (o \o (inits \o s)) \o (next \o b) = o \o inits \o s \o next \o b
  <2>1. /\ Joined(Joined(Joined(Joined(o, inits), s), next), b) \in Seq(Only(Items, "item"))
        /\ Joined(inits, s) \in Seq(Only(Items, "item")) /\ Joined(next, b) \in Seq(Only(Items, "item"))
        /\ Joined(Joined(o, Joined(inits, s)), Joined(next, b)) = Joined(Joined(Joined(Joined(o, inits), s), next), b)
    BY Regrouped
  <2> QED
    BY <2>1, Zenon DEF Joined
<1>5. Append(next, body) = next \o b
  BY <1>3, AppendIsConcat
<1>6. PICK mine \in Seq(Only(Items, "item")) : mine = inits \o s
  BY <1>4
<1>7. PICK last \in Seq(Only(Items, "item")) : last = next \o b
  BY <1>4
<1>8. /\ Sorted(last) = NewVisit(last) /\ NewVisit(last).own = last
      /\ NewVisit(last).decls = << >> /\ NewVisit(last).funcs = << >>
      /\ NewVisit(o).own = o /\ NewVisit(o).decls = << >> /\ NewVisit(o).funcs = << >>
  BY NewVisitIs
<1>9. PICK f : f = Sorted(first)
  OBVIOUS
<1>10. f.funcs = << >> /\ f.decls = decls /\ f.own = mine
  BY <1>2, <1>6, <1>9
<1>11. /\ << >> \o decls = decls /\ decls \o << >> = decls /\ << >> \o << >> = << >>
  BY ConcatEmptySeq
<1>12. PICK p : p = Plus(NewVisit(o), f)
  OBVIOUS
<1>13. p = [funcs |-> << >>, decls |-> decls, own |-> o \o mine]
  BY <1>8, <1>10, <1>11, <1>12 DEF Plus
<1>14. p.funcs = << >> /\ p.decls = decls /\ p.own = o \o mine
  BY <1>13
<1>15. Plus(p, NewVisit(last)) = [funcs |-> << >>, decls |-> decls, own |-> (o \o mine) \o last]
  BY <1>8, <1>11, <1>14 DEF Plus
<1>16. Drained(Drained(NewVisit(o), first), last) = Plus(p, NewVisit(last))
  BY <1>8, <1>9, <1>12, DrainedIs
<1> QED
  BY <1>1, <1>2, <1>3, <1>4, <1>5, <1>6, <1>7, <1>15, <1>16 DEF LoopSorted

LEMMA LoopGoes ==
  ASSUME StackInv, Goes, ctxt' = Down("loop", NoFunc, "body"),
         NEW own \in Seq(Only(Items, "item")), NEW v, visits' = Append(visits, v),
         queue_stack' = Append(queue_stack, current_q), current_q' = << >>,
         UNCHANGED << func_stack, functions, prog >>,
         \/ v = NewVisit(own) /\ symbols' = symbols /\ Reads(own, source.count + 1)
         \/ /\ v = WithDecl(own) /\ symbols' = WithVars({NewVariable})
            /\ \E looped \in SUBSET Variables : Declares(own, looped)
  PROVE  Goes'
<1>1. Calm /\ InStep /\ Book /\ Inside /\ LirTypes /\ source \in Sources
  BY GoesHas
<1>2. /\ v \in Parts /\ Notes(v) /\ source' \in Sources
      /\ symbols' \in [funcs : [Funcs -> SUBSET Variables], globals : SUBSET Variables]
  <2>1. CASE v = NewVisit(own) /\ symbols' = symbols /\ Reads(own, source.count + 1)
    <3>1. Notes(NewVisit(own)) /\ source' \in Sources /\ NewVisit(own) \in Parts
      BY <1>1, <2>1, ItemsNoted, NewVisitIs
    <3> QED
      BY <1>1, <2>1, <3>1 DEF LirTypes
  <2>2. CASE /\ v = WithDecl(own) /\ symbols' = WithVars({NewVariable})
             /\ \E looped \in SUBSET Variables : Declares(own, looped)
    <3>1. PICK looped \in SUBSET Variables : Declares(own, looped)
      BY <2>2
    <3>2. WithDecl(own) \in Parts
      BY <1>1, WithDeclIs
    <3>3. /\ Notes(WithDecl(own)) /\ source' \in Sources
          /\ symbols' \in [funcs : [Funcs -> SUBSET Variables], globals : SUBSET Variables]
      BY <1>1, <2>2, <3>1, VariableNoted
    <3> QED
      BY <2>2, <3>2, <3>3
  <2> QED
    BY <2>1, <2>2
<1> QED
  BY <1>1, <1>2, PushGoes

LEMMA Listed ==
  ASSUME NEW x, NEW v
  PROVE  /\ [i \in 1 .. Len(<< >>) |-> x] = << >> /\ [i \in 1 .. Len(<< v >>) |-> x] = << x >>
         /\ Range(<< >>) = {} /\ Range(<< v >>) = {v}
<1>1. [i \in 1 .. Len(<< >>) |-> x] = << >>
  OBVIOUS
<1>2. [i \in 1 .. Len(<< v >>) |-> x] = << x >>
  OBVIOUS
<1>3. Range(<< >>) = {}
  BY DEF Range
<1>4. Range(<< v >>) = {v}
  BY DEF Range
<1> QED
  BY <1>1, <1>2, <1>3, <1>4

LEMMA NoVariables ==
  ASSUME LirTypes
  PROVE  WithVars({}) = symbols
<1>1. symbols.funcs \in [Funcs -> SUBSET Variables]
  BY DEF LirTypes
<1>2. symbols = [funcs |-> symbols.funcs, globals |-> symbols.globals]
  BY DEF LirTypes
<1>3. CASE func_stack = << >>
  BY <1>2, <1>3 DEF WithVars
<1>4. CASE func_stack # << >>
  <2>1. PICK f : f = func_stack[Len(func_stack)]
    OBVIOUS
  <2>2. [symbols.funcs EXCEPT ![f] = @ \cup {}] = symbols.funcs
    BY <1>1
  <2>3. WithVars({}) = [funcs |-> [symbols.funcs EXCEPT ![f] = @ \cup {}], globals |-> symbols.globals]
    BY <1>2, <1>4, <2>1 DEF WithVars
  <2> QED
    BY <1>2, <2>2, <2>3
<1> QED
  BY <1>3, <1>4

LoopOwn(inits) ==
  << Item("loop", Next1) >> \o inits \o << Item("step", 0) >> \o << Item("next", Next1) >>
    \o << Item("body", 0) >>

\* The step of both walks into a loop, with what its init emits.
Loops(first, vs, inits, ds, more) ==
  /\ ctxt' = Down("loop", NoFunc, "body")
  /\ LEnterLoop(Item("loop", Next1), first, vs, << Item("next", Next1) >>)
  /\ source' = [Here(LoopOwn(inits)) EXCEPT !.locals[Within] = @ \o ds, !.looped = @ \cup more]

LEMMA LoopIs ==
  ASSUME NEW init, EnterLoop(init), ~errors'
  PROVE  /\ init = "expr" => Loops(<< >> \o << Item("stmt", Next1) >>, {}, << Item("stmt", Next1) >>, << >>, {})
         /\ init # "expr" => Loops(<< Item("decl", NewVariable) >> \o Inits(NewVariable, init),
                                   {NewVariable}, Inits(NewVariable, init), << NewVariable >>,
                                   Looped(NewVariable, init))
<1>1. CASE init = "expr"
  <2>1. [i \in 1 .. Len(<< >>) |-> Item("decl", << Within, Next1 >>)] = << >> /\ Range(<< >>) = {}
    BY Listed
  <2>2. Looped(<< Within, Next1 >>, init) = {}
    BY <1>1 DEF Looped
  <2> QED
    BY <1>1, <2>1, <2>2 DEF EnterLoop, Lowered, Loops, LoopOwn, VEnterLoop
<1>2. CASE init # "expr"
  <2>1. /\ [i \in 1 .. Len(<< << Within, Next1 >> >>) |-> Item("decl", << Within, Next1 >>)]
             = << Item("decl", << Within, Next1 >>) >>
        /\ Range(<< << Within, Next1 >> >>) = {<< Within, Next1 >>}
    BY Listed
  <2> QED
    BY <1>2, <2>1 DEF EnterLoop, Lowered, Loops, LoopOwn, VEnterLoop, NewVariable
<1> QED
  BY <1>1, <1>2

LEMMA LoopItems ==
  ASSUME source \in Sources
  PROVE  /\ Next1 \in Nat
         /\ Item("loop", Next1) \in Only(Items, "item") /\ Item("step", 0) \in Only(Items, "item")
         /\ Item("body", 0) \in Only(Items, "item")
         /\ << Item("next", Next1) >> \in Seq(Only(Items, "item"))
         /\ << Item("stmt", Next1) >> \in Seq(Only(Items, "item"))
<1>1. Next1 \in Nat
  BY DEF Next1, Sources
<1>2. {"loop", "step", "body", "next", "stmt"} \subseteq Brackets
  BY DEF Brackets
<1> QED
  BY <1>1, <1>2, OneItem

LEMMA LoopEntered ==
  ASSUME StackInv, Goes, NEW first \in Seq(Items), NEW inits \in Seq(Only(Items, "item")), NEW ds,
         NEW vs, NEW more, Loops(first, vs, inits, ds, more),
         \/ /\ first = inits /\ vs = {} /\ ds = << >> /\ more = {}
         \/ /\ first = << Item("decl", NewVariable) >> \o inits /\ vs = {NewVariable}
            /\ ds = << NewVariable >> /\ source.looped \cup more \in SUBSET Variables
  PROVE  Goes'
<1>1. Calm /\ InStep /\ Book /\ Inside /\ LirTypes /\ source \in Sources
  BY GoesHas
<1>2. /\ Item("loop", Next1) \in Only(Items, "item") /\ Item("step", 0) \in Only(Items, "item")
      /\ Item("body", 0) \in Only(Items, "item")
      /\ << Item("next", Next1) >> \in Seq(Only(Items, "item"))
  BY <1>1, LoopItems
<1> DEFINE start == Append(first, Item("step", 0))
           own == LoopOwn(inits)
           v == Drained(Drained(NewVisit(<< Item("loop", Next1) >>), start),
                        Append(<< Item("next", Next1) >>, Item("body", 0)))
<1>3. PICK s \in Seq(Only(Items, "item")) : s = << Item("step", 0) >>
  <2>1. << Item("step", 0) >> \in Seq(Only(Items, "item"))
    BY <1>2
  <2> QED
    BY <2>1
<1>4. inits \o s \in Seq(Only(Items, "item"))
  BY ConcatProperties
<1>5. Append(first, Item("step", 0)) = first \o s
  <2>1. PICK e \in Only(Items, "item") : e = Item("step", 0)
    BY <1>2
  <2>2. e \in Items
    BY <2>1 DEF Only
  <2> QED
    BY <1>3, <2>1, <2>2, AppendIsConcat
<1>6. /\ ctxt' = Down("loop", NoFunc, "body") /\ visits' = Append(visits, v)
      /\ queue_stack' = Append(queue_stack, current_q) /\ current_q' = << >>
      /\ UNCHANGED << func_stack, functions, prog >> /\ symbols' = WithVars(vs)
      /\ source' = [Here(own) EXCEPT !.locals[Within] = @ \o ds, !.looped = @ \cup more]
  BY DEF Loops, LEnterLoop
<1>7. start \in Seq(Items) /\ \E decls \in Seq(Only(Items, "decl")) :
        /\ Sorted(start) = [funcs |-> << >>, decls |-> decls, own |-> inits \o s]
        /\ \/ decls = << >> /\ ds = << >>
           \/ decls = << Item("decl", NewVariable) >> /\ ds = << NewVariable >>
  <2>1. CASE first = inits /\ ds = << >>
    <3>1. start = inits \o s
      BY <1>5, <2>1
    <3>2. inits \o s \in Seq(Items) /\ Sorted(inits \o s) = NewVisit(inits \o s)
      BY <1>4, NewVisitIs
    <3>3. << >> \in Seq(Only(Items, "decl"))
      OBVIOUS
    <3> QED
      BY <2>1, <3>1, <3>2, <3>3 DEF NewVisit
  <2>2. CASE first = << Item("decl", NewVariable) >> \o inits /\ ds = << NewVariable >>
    <3>1. PICK d \in Seq(Only(Items, "decl")) : d = << Item("decl", NewVariable) >>
      <4>1. Item("decl", NewVariable) \in Only(Items, "decl")
        BY <1>1, NewVariableType
      <4>2. << Item("decl", NewVariable) >> \in Seq(Only(Items, "decl"))
        BY <4>1
      <4> QED
        BY <4>2
    <3>2. d \in Seq(Items) /\ inits \in Seq(Items) /\ s \in Seq(Items)
      BY SortedAlike
    <3>3. start = d \o (inits \o s)
      <4>1. Joined(Joined(d, inits), s) = Joined(d, Joined(inits, s))
        BY <3>2, Joining
      <4>2. start = Joined(Joined(d, inits), s)
        BY <1>5, <2>2, <3>1 DEF Joined
      <4> QED
        BY <4>1, <4>2, Zenon DEF Joined
    <3>4. PICK i \in Seq(Only(Items, "item")) : i = inits \o s
      BY <1>4
    <3>5. d \o i \in Seq(Items) /\ Sorted(d \o i) = WithDecl(i)
      BY <1>1, <3>1, SortedDecl
    <3> QED
      BY <2>2, <3>1, <3>3, <3>4, <3>5 DEF WithDecl
  <2> QED
    BY <2>1, <2>2
<1> HIDE DEF start
<1>8. PICK decls \in Seq(Only(Items, "decl")) :
        /\ Sorted(start) = [funcs |-> << >>, decls |-> decls, own |-> inits \o s]
        /\ \/ decls = << >> /\ ds = << >>
           \/ decls = << Item("decl", NewVariable) >> /\ ds = << NewVariable >>
  BY <1>7
<1>9. /\ own \in Seq(Only(Items, "item"))
      /\ v = [funcs |-> << >>, decls |-> decls, own |-> own]
  <2>1. PICK o \in Only(Items, "item") : o = Item("loop", Next1)
    BY <1>2
  <2>2. PICK st \in Only(Items, "item") : st = Item("step", 0)
    BY <1>2
  <2>3. PICK b \in Only(Items, "item") : b = Item("body", 0)
    BY <1>2
  <2>4. PICK n \in Seq(Only(Items, "item")) : n = << Item("next", Next1) >>
    BY <1>2
  <2>5. PICK f \in Seq(Items) : f = start
    BY <1>7
  <2>6. Sorted(f) = [funcs |-> << >>, decls |-> decls, own |-> inits \o << st >>]
    BY <1>3, <1>8, <2>2, <2>5
  <2>7. LoopSorted(o, st, b, inits, n, f, decls)
    BY <2>6, LoopVisit
  <2> QED
    BY <2>1, <2>2, <2>3, <2>4, <2>5, <2>7, Zenon DEF LoopOwn, LoopSorted
<1> HIDE DEF own, v
<1>10. \/ v = NewVisit(own) /\ symbols' = symbols /\ Reads(own, source.count + 1)
       \/ /\ v = WithDecl(own) /\ symbols' = WithVars({NewVariable})
          /\ \E looped \in SUBSET Variables : Declares(own, looped)
  <2>1. source' = [body |-> [source.body EXCEPT ![Within] = @ \o own],
                   locals |-> [source.locals EXCEPT ![Within] = @ \o ds],
                   funcs |-> source.funcs, defined |-> source.defined,
                   looped |-> source.looped \cup more, count |-> source.count + 1]
    BY <1>1, <1>6, <1>9, DeclaringIs
  <2>2. CASE vs = {} /\ ds = << >> /\ more = {}
    <3>1. symbols' = symbols
      BY <1>1, <1>6, <2>2, NoVariables
    <3>2. [source.locals EXCEPT ![Within] = @ \o << >>] = source.locals
      <4>1. source.locals \in [Owners -> Seq(Variables)]
        BY <1>1 DEF Sources
      <4> QED
        BY <4>1, NoLonger
    <3>3. source.looped \cup more = source.looped
      BY <2>2
    <3>4. Reads(own, source.count + 1)
      BY <2>1, <2>2, <3>2, <3>3 DEF Reads
    <3>5. v = NewVisit(own)
      BY <1>8, <1>9, <2>2 DEF NewVisit
    <3> QED
      BY <3>1, <3>4, <3>5
  <2>3. CASE vs = {NewVariable} /\ ds = << NewVariable >> /\ source.looped \cup more \in SUBSET Variables
    <3>1. Declares(own, source.looped \cup more)
      BY <2>1, <2>3 DEF Declares
    <3>2. v = WithDecl(own)
      BY <1>8, <1>9, <2>3 DEF WithDecl
    <3> QED
      BY <1>6, <2>3, <3>1, <3>2
  <2> QED
    BY <2>2, <2>3
<1> QED
  BY <1>6, <1>9, <1>10, LoopGoes

LEMMA LoopStep ==
  ASSUME StackInv, Goes, NEW init, EnterLoop(init), ~errors'
  PROVE  Goes'
<1>1. source \in Sources /\ Inside
  BY GoesHas
<1>2. << Item("stmt", Next1) >> \in Seq(Only(Items, "item"))
  BY <1>1, LoopItems
<1>3. CASE init = "expr"
  <2>1. PICK s \in Seq(Only(Items, "item")) : s = << Item("stmt", Next1) >>
    BY <1>2
  <2>2. << >> \o s = s /\ s \in Seq(Items)
    BY ConcatEmptySeq, SortedAlike
  <2>3. Loops(s, {}, s, << >>, {})
    BY <1>3, <2>1, <2>2, LoopIs
  <2> QED
    BY <2>2, <2>3, LoopEntered
<1>4. CASE init # "expr"
  <2>1. PICK s \in Seq(Only(Items, "item")) : s = Inits(NewVariable, init)
    BY <1>1, InitsType
  <2>2. PICK first \in Seq(Items) : first = << Item("decl", NewVariable) >> \o s
    BY <1>1, SortedDecl
  <2>3. Loops(first, {NewVariable}, s, << NewVariable >>, Looped(NewVariable, init))
    BY <1>4, <2>1, <2>2, LoopIs
  <2>4. source.looped \cup Looped(NewVariable, init) \in SUBSET Variables
    BY <1>1, InitsType
  <2> QED
    BY <2>2, <2>3, <2>4, LoopEntered
<1> QED
  BY <1>3, <1>4

(***************************************************************************)
(* Functions                                                               *)
(***************************************************************************)

LEMMA MadeIs ==
  ASSUME source \in Sources, Book, NEW f \in Funcs
  PROVE  /\ Made(f) \in Seq(Only(Items, "func")) /\ Made(f) \in Seq(Items)
         /\ Sorted(Made(f)) = [funcs |-> Made(f), decls |-> << >>, own |-> << >>]
         /\ Met(f) = source.funcs \o Named(Made(f)) /\ Met(f) \in Seq(Funcs)
         /\ Range(Met(f)) = Range(source.funcs) \cup {f}
<1>1. source.funcs \in Seq(Funcs) /\ (functions[f].made <=> f \in Range(source.funcs))
  BY DEF Sources, Book
<1>2. PICK d : d = Item("func", f) /\ d \in Only(Items, "func") /\ d.x = f
  <2>1. f \in Names /\ "func" \in ItemKinds
    BY DEF Names, ItemKinds
  <2> QED
    BY <2>1, ItemIs
<1>3. CASE functions[f].made
  <2>1. Made(f) = << >> /\ Met(f) = source.funcs
    BY <1>1, <1>3 DEF Made, Met
  <2>2. << >> \in Seq(Only(Items, "func")) /\ Named(<< >>) = << >> /\ source.funcs \o << >> = source.funcs
    BY <1>1, ConcatEmptySeq DEF Named
  <2>3. << >> \in Seq(Items) /\ Sorted(<< >>) = [funcs |-> << >>, decls |-> << >>, own |-> << >>]
    BY SortedNothing DEF NewVisit
  <2> QED
    BY <1>1, <1>3, <2>1, <2>2, <2>3
<1>4. CASE ~functions[f].made
  <2>1. Made(f) = << d >> /\ Met(f) = Append(source.funcs, f)
    BY <1>1, <1>2, <1>4 DEF Made, Met
  <2>2. << d >> \in Seq(Only(Items, "func"))
    BY <1>2
  <2>3. << d >> \in Seq(Items) /\ Sorted(<< d >>) = [funcs |-> << d >>, decls |-> << >>, own |-> << >>]
    BY <2>2, SortedAlike
  <2>4. Named(<< d >>) = << f >>
    BY <1>2 DEF Named
  <2>5. Append(source.funcs, f) = source.funcs \o << f >> /\ Append(source.funcs, f) \in Seq(Funcs)
    BY <1>1, AppendIsConcat
  <2>6. Range(Append(source.funcs, f)) = Range(source.funcs) \cup {f}
    <3>1. PICK s \in Seq(Funcs) : s = source.funcs
      BY <1>1
    <3>2. PICK r : r = s \o << f >>
      OBVIOUS
    <3>3. Prolongs(r, s, f)
      BY <3>2, OneMore
    <3> QED
      BY <2>5, <3>1, <3>2, <3>3 DEF Prolongs
  <2> QED
    BY <2>1, <2>2, <2>3, <2>4, <2>5, <2>6
<1> QED
  BY <1>3, <1>4

LEMMA SourceType ==
  ASSUME NEW body \in [Owners -> Seq(Only(Items, "item"))], NEW locals \in [Owners -> Seq(Variables)],
         NEW funcs \in Seq(Funcs), NEW defined \in SUBSET Funcs, NEW looped \in SUBSET Variables,
         NEW count \in Nat, NEW s,
         s = [body |-> body, locals |-> locals, funcs |-> funcs, defined |-> defined,
              looped |-> looped, count |-> count]
  PROVE  s \in Sources
BY DEF Sources

\* What a change of the FunctionLIR of f leaves of the others.
LEMMA NodeChanges ==
  ASSUME LirTypes, NEW f \in Funcs, NEW e \in FunctionNodes, functions' = [functions EXCEPT ![f] = e]
  PROVE  /\ functions' \in [Funcs -> FunctionNodes] /\ functions'[f] = e
         /\ \A g \in Funcs : g # f => functions'[g] = functions[g]
BY DEF LirTypes

LEMMA DeclareGoes ==
  ASSUME StackInv, Goes, NEW f \in Funcs, ctxt' = ctxt, LDeclareFunction(f),
         source' = [source EXCEPT !.funcs = Met(f), !.count = @ + 1]
  PROVE  Goes'
<1>1. Calm /\ InStep /\ Book /\ LirTypes /\ source \in Sources
  BY GoesHas
<1>2. /\ Made(f) \in Seq(Only(Items, "func")) /\ Made(f) \in Seq(Items)
      /\ Sorted(Made(f)) = [funcs |-> Made(f), decls |-> << >>, own |-> << >>]
      /\ Met(f) = source.funcs \o Named(Made(f)) /\ Met(f) \in Seq(Funcs)
      /\ Range(Met(f)) = Range(source.funcs) \cup {f}
  BY <1>1, MadeIs
<1>3. /\ current_q' = current_q \o Made(f)
      /\ functions' = [functions EXCEPT ![f].made = TRUE]
      /\ UNCHANGED << queue_stack, visits, func_stack, symbols, prog >>
  BY DEF LDeclareFunction, Emit
<1>4. PICK e : e = [functions[f] EXCEPT !.made = TRUE]
  OBVIOUS
<1>5. /\ e \in FunctionNodes /\ e.made = TRUE /\ e.has_definition = functions[f].has_definition
      /\ e.locals = functions[f].locals /\ e.body = functions[f].body
  <2>1. functions[f] \in FunctionNodes
    BY <1>1 DEF LirTypes
  <2> QED
    BY <1>4, <2>1 DEF FunctionNodes
<1>6. functions' = [functions EXCEPT ![f] = e]
  BY <1>3, <1>4
<1>7. /\ functions' \in [Funcs -> FunctionNodes] /\ functions'[f] = e
      /\ \A g \in Funcs : g # f => functions'[g] = functions[g]
  BY <1>1, <1>5, <1>6, NodeChanges
<1>8. source' = [body |-> source.body, locals |-> source.locals, funcs |-> Met(f),
                 defined |-> source.defined, looped |-> source.looped, count |-> source.count + 1]
  BY <1>1 DEF Sources
<1>9. source' \in Sources
  <2>1. /\ source.body \in [Owners -> Seq(Only(Items, "item"))] /\ source.locals \in [Owners -> Seq(Variables)]
        /\ source.defined \in SUBSET Funcs /\ source.looped \in SUBSET Variables /\ source.count + 1 \in Nat
    BY <1>1 DEF Sources
  <2>2. PICK c \in Nat : c = source.count + 1
    BY <2>1
  <2> QED
    BY <1>2, <1>8, <2>1, <2>2, SourceType, ZenonT(40)
<1> DEFINE p == Sorted(Made(f))
<1>10. /\ p.own = << >> /\ Named(p.decls) = << >> /\ p.funcs = Made(f)
  <2>1. Named(<< >>) = << >>
    BY DEF Named
  <2> QED
    BY <1>2, <2>1
<1>11. SourceGrows(p, Within)
  <2>1. source.body \in [Owners -> Seq(Only(Items, "item"))] /\ source.locals \in [Owners -> Seq(Variables)]
    BY <1>1 DEF Sources
  <2>2. /\ [source.body EXCEPT ![Within] = @ \o << >>] = source.body
        /\ [source.locals EXCEPT ![Within] = @ \o << >>] = source.locals
    BY <2>1, NoLonger
  <2> HIDE DEF p
  <2> QED
    BY <1>2, <1>8, <1>10, <2>2 DEF SourceGrows
<1> HIDE DEF p
<1>12. \A g \in Funcs :
         /\ functions'[g].made <=> g \in Range(source'.funcs)
         /\ functions'[g].has_definition = functions[g].has_definition
         /\ functions'[g].locals = functions[g].locals /\ functions'[g].body = functions[g].body
  <2> TAKE g \in Funcs
  <2>1. functions[g].made <=> g \in Range(source.funcs)
    BY <1>1 DEF Book
  <2>2. source'.funcs = Met(f)
    BY <1>8
  <2> QED
    BY <1>2, <1>5, <1>7, <2>1, <2>2
<1>13. Notes(p)
  <2>1. source'.defined = source.defined /\ source'.count = source.count + 1 /\ source.count \in Nat
    BY <1>1, <1>8 DEF Sources
  <2> QED
    BY <1>3, <1>10, <1>11, <1>12, <2>1 DEF Notes
<1>14. InStep' /\ Queues' /\ Depth' = Depth
  <2>1. Notes(Sorted(Made(f)))
    BY <1>13 DEF p
  <2> QED
    BY <1>1, <1>2, <1>3, <2>1, InStepEmit
<1>15. LirTypes'
  BY <1>1, <1>3, <1>7, <1>14 DEF LirTypes, Queues
<1> QED
  BY <1>3, <1>9, <1>14, <1>15 DEF Goes

LEMMA Listing ==
  ASSUME NEW S, NEW n \in Nat, NEW s \in [1 .. n -> S]
  PROVE  s \in Seq(S)
OBVIOUS

\* The parameters of f as locals of it.
ParamsOf(f) == [i \in 1 .. Params[f] |-> << f, 0 - i >>]

LEMMA ParamsAre ==
  ASSUME NEW f \in Funcs, NEW ps, ps = ParamsOf(f),
         NEW params, params = [i \in 1 .. Params[f] |-> Item("decl", ps[i])]
  PROVE  /\ Params[f] \in Nat /\ ps \in Seq(Variables) /\ Len(ps) = Params[f]
         /\ params \in Seq(Only(Items, "decl")) /\ Named(params) = ps
         /\ Injective(ps) /\ (\A i \in 1 .. Len(ps) : ps[i][2] <= 0)
         /\ Range(ps) = {ps[i] : i \in 1 .. Params[f]}
<1>1. PICK n \in Nat : n = Params[f]
  BY LIRAssumption, LoweringAssumption
<1>2. ps = [i \in 1 .. n |-> << f, 0 - i >>]
  BY <1>1 DEF ParamsOf
<1>3. \A i \in 1 .. n : ps[i] = << f, 0 - i >> /\ ps[i] \in Variables /\ ps[i][2] <= 0
  BY <1>2 DEF Variables, Owners
<1>4. ps \in Seq(Variables) /\ Len(ps) = n /\ DOMAIN ps = 1 .. n
  <2>1. ps \in [1 .. n -> Variables]
    BY <1>2, <1>3
  <2> QED
    BY <2>1
<1>5. \A i \in 1 .. n : Item("decl", ps[i]) \in Only(Items, "decl") /\ Item("decl", ps[i]).x = ps[i]
  <2> TAKE i \in 1 .. n
  <2>1. ps[i] \in Names /\ "decl" \in ItemKinds
    BY <1>3 DEF Names, ItemKinds
  <2> QED
    BY <2>1, ItemIs
<1>6. params = [i \in 1 .. n |-> Item("decl", ps[i])]
  BY <1>1
<1>7. params \in Seq(Only(Items, "decl"))
  <2>1. params \in [1 .. n -> Only(Items, "decl")]
    BY <1>5, <1>6
  <2> QED
    BY <2>1, Listing
<1>8. Named(params) = ps
  <2>1. DOMAIN params = 1 .. n /\ \A i \in 1 .. n : params[i].x = ps[i]
    BY <1>5, <1>6
  <2>2. Named(params) = [i \in 1 .. n |-> params[i].x]
    BY <2>1 DEF Named
  <2>3. ps = [i \in 1 .. n |-> ps[i]]
    BY <1>2
  <2> QED
    BY <2>1, <2>2, <2>3
<1>9. Injective(ps)
  <2> SUFFICES ASSUME NEW i \in 1 .. n, NEW j \in 1 .. n, ps[i] = ps[j]
               PROVE  i = j
    BY <1>4 DEF Injective
  <2>1. << f, 0 - i >> = << f, 0 - j >>
    BY <1>3
  <2>2. 0 - i = 0 - j
    BY <2>1
  <2> QED
    BY <2>2
<1>10. Range(ps) = {ps[i] : i \in 1 .. n}
  BY <1>4 DEF Range
<1> QED
  BY <1>1, <1>3, <1>4, <1>7, <1>8, <1>9, <1>10

\* The step of both walks into the body of f.
Opening(f, ps, params) ==
  /\ ps = ParamsOf(f) /\ params = [i \in 1 .. Params[f] |-> Item("decl", ps[i])]
  /\ f \notin source.defined
  /\ func_stack' = Append(func_stack, f)
  /\ functions' = [functions EXCEPT ![f].made = TRUE, ![f].has_definition = TRUE]
  /\ symbols' = [symbols EXCEPT !.funcs[f] = {ps[i] : i \in 1 .. Params[f]}]
  /\ prog' = prog
  /\ source' = [source EXCEPT !.funcs = Met(f), !.defined = @ \cup {f}, !.locals[f] = ps, !.count = @ + 1]

LEMMA OpeningTypes ==
  ASSUME LirTypes, source \in Sources, Book, NEW f \in Funcs, NEW ps, NEW params, Opening(f, ps, params)
  PROVE  /\ source' = [body |-> source.body, locals |-> [source.locals EXCEPT ![f] = ps], funcs |-> Met(f),
                       defined |-> source.defined \cup {f}, looped |-> source.looped,
                       count |-> source.count + 1]
         /\ source' \in Sources
         /\ symbols' \in [funcs : [Funcs -> SUBSET Variables], globals : SUBSET Variables]
         /\ symbols'.globals = symbols.globals /\ symbols'.funcs[f] = Range(ps)
         /\ \A g \in Funcs : g # f => symbols'.funcs[g] = symbols.funcs[g]
         /\ functions' \in [Funcs -> FunctionNodes]
         /\ functions'[f].made = TRUE /\ functions'[f].has_definition = TRUE
         /\ \A g \in Funcs : g # f => functions'[g] = functions[g]
<1>1. ps \in Seq(Variables) /\ Range(ps) = {ps[i] : i \in 1 .. Params[f]} /\ Range(ps) \subseteq Variables
  <2>0. ps = ParamsOf(f) /\ params = [i \in 1 .. Params[f] |-> Item("decl", ps[i])]
    BY DEF Opening
  <2>1. ps \in Seq(Variables) /\ Range(ps) = {ps[i] : i \in 1 .. Params[f]} /\ Len(ps) = Params[f]
    BY <2>0, ParamsAre
  <2>2. \A i \in 1 .. Params[f] : ps[i] \in Variables
    BY <2>1
  <2> QED
    BY <2>1, <2>2
<1>2. Met(f) \in Seq(Funcs)
  BY MadeIs
<1>3. source' = [body |-> source.body, locals |-> [source.locals EXCEPT ![f] = ps], funcs |-> Met(f),
                 defined |-> source.defined \cup {f}, looped |-> source.looped,
                 count |-> source.count + 1]
  BY DEF Opening, Sources
<1>4. source' \in Sources
  <2>1. /\ source.body \in [Owners -> Seq(Only(Items, "item"))] /\ source.locals \in [Owners -> Seq(Variables)]
        /\ source.defined \cup {f} \in SUBSET Funcs /\ source.looped \in SUBSET Variables /\ source.count + 1 \in Nat
    BY DEF Sources
  <2>2. PICK c \in Nat : c = source.count + 1
    BY <2>1
  <2>3. PICK l \in [Owners -> Seq(Variables)] : l = [source.locals EXCEPT ![f] = ps]
    BY <1>1, <2>1, OneReplaced
  <2>4. PICK d \in SUBSET Funcs : d = source.defined \cup {f}
    BY <2>1
  <2>5. source' = [body |-> source.body, locals |-> l, funcs |-> Met(f), defined |-> d,
                   looped |-> source.looped, count |-> c]
    BY <1>3, <2>2, <2>3, <2>4
  <2> QED
    BY <1>2, <2>1, <2>5, SourceType
<1>5. /\ symbols' \in [funcs : [Funcs -> SUBSET Variables], globals : SUBSET Variables]
      /\ symbols'.globals = symbols.globals /\ symbols'.funcs[f] = Range(ps)
      /\ \A g \in Funcs : g # f => symbols'.funcs[g] = symbols.funcs[g]
  <2>1. /\ symbols.funcs \in [Funcs -> SUBSET Variables] /\ symbols.globals \in SUBSET Variables
        /\ symbols = [funcs |-> symbols.funcs, globals |-> symbols.globals]
    BY DEF LirTypes
  <2>2. PICK r \in SUBSET Variables : r = Range(ps)
    BY <1>1
  <2>3. PICK a \in [Funcs -> SUBSET Variables] : a = [symbols.funcs EXCEPT ![f] = r]
    BY <2>1, OneReplaced
  <2>4. symbols' = [funcs |-> a, globals |-> symbols.globals]
    BY <1>1, <2>1, <2>2, <2>3 DEF Opening
  <2>5. symbols' \in [funcs : [Funcs -> SUBSET Variables], globals : SUBSET Variables]
    BY ONLY <2>1, <2>4, SymbolsType
  <2>6. symbols'.globals = symbols.globals /\ symbols'.funcs = a
    BY <2>4
  <2>7. a[f] = r /\ \A g \in Funcs : g # f => a[g] = symbols.funcs[g]
    BY <2>1, <2>3
  <2> QED
    BY <2>2, <2>5, <2>6, <2>7
<1>6. /\ functions' \in [Funcs -> FunctionNodes]
      /\ functions'[f].made = TRUE /\ functions'[f].has_definition = TRUE
      /\ \A g \in Funcs : g # f => functions'[g] = functions[g]
  <2>1. functions \in [Funcs -> FunctionNodes] /\ functions[f] \in FunctionNodes
    BY DEF LirTypes
  <2>2. PICK e : e = [[functions[f] EXCEPT !.made = TRUE] EXCEPT !.has_definition = TRUE]
    OBVIOUS
  <2>3. e \in FunctionNodes /\ e.made = TRUE /\ e.has_definition = TRUE
    BY <2>1, <2>2 DEF FunctionNodes
  <2>4. functions' = [functions EXCEPT ![f] = e]
    BY <2>1, <2>2 DEF Opening
  <2> QED
    BY <2>3, <2>4, NodeChanges
<1> QED
  BY <1>3, <1>4, <1>5, <1>6

LEMMA OpeningBook ==
  ASSUME LirTypes, source \in Sources, Book, NEW f \in Funcs, NEW ps, NEW params, Opening(f, ps, params)
  PROVE  Book'
<1>0. source' = [body |-> source.body, locals |-> [source.locals EXCEPT ![f] = ps], funcs |-> Met(f),
                 defined |-> source.defined \cup {f}, looped |-> source.looped,
                 count |-> source.count + 1]
  BY OpeningTypes
<1>1. /\ source'.body = source.body /\ source'.locals = [source.locals EXCEPT ![f] = ps]
      /\ source'.funcs = Met(f) /\ source'.defined = source.defined \cup {f}
      /\ source'.count = source.count + 1
  BY <1>0
<1>2. /\ symbols'.globals = symbols.globals /\ symbols'.funcs[f] = Range(ps)
      /\ \A g \in Funcs : g # f => symbols'.funcs[g] = symbols.funcs[g]
      /\ functions'[f].made = TRUE /\ functions'[f].has_definition = TRUE
      /\ \A g \in Funcs : g # f => functions'[g] = functions[g]
  BY OpeningTypes
<1>3. Injective(ps) /\ \A i \in 1 .. Len(ps) : ps[i][2] <= 0
  <2>1. ps = ParamsOf(f) /\ params = [i \in 1 .. Params[f] |-> Item("decl", ps[i])]
    BY DEF Opening
  <2> QED
    BY <2>1, ParamsAre
<1>4. Range(Met(f)) = Range(source.funcs) \cup {f}
  BY MadeIs
<1>5. /\ source.locals \in [Owners -> Seq(Variables)] /\ source.count \in Nat /\ source.defined \subseteq Funcs
      /\ func_stack \in Seq(Funcs) /\ f # NoFunc
  BY ValidatorAssumption DEF Sources, LirTypes
<1>6. f \in Owners /\ NoFunc \in Owners /\ \A g \in Funcs : g \in Owners
  BY DEF Owners
<1>7. \A o \in Owners : source'.locals[o] = IF o = f THEN ps ELSE source.locals[o]
  BY <1>1, <1>5
<1>8. f \notin source.defined /\ func_stack' = Append(func_stack, f)
  BY DEF Opening
<1>9. /\ Injective(func_stack) /\ \A i \in 1 .. Len(func_stack) : func_stack[i] \in source.defined
  BY DEF Book
<1>10. /\ Injective(func_stack') /\ Len(func_stack') = Len(func_stack) + 1 /\ Len(func_stack) \in Nat
       /\ \A i \in 1 .. Len(func_stack) : func_stack'[i] = func_stack[i]
       /\ func_stack'[Len(func_stack) + 1] = f
  <2>1. PICK s \in Seq(Funcs) : s = func_stack
    BY <1>5
  <2>2. PICK r : r = s \o << f >>
    OBVIOUS
  <2>3. Prolongs(r, s, f)
    BY <2>2, OneMore
  <2>4. r = func_stack'
    BY <1>8, <2>1, <2>2, AppendIsConcat
  <2>5. \A i \in 1 .. Len(s) : s[i] # f
    BY <1>8, <1>9, <2>1
  <2> QED
    BY <1>9, <2>1, <2>3, <2>4, <2>5 DEF Prolongs
<1>11. \A i \in 1 .. Len(func_stack') : func_stack'[i] \in source'.defined
  BY <1>1, <1>9, <1>10
<1>12. ASSUME NEW g \in Funcs
       PROVE  /\ functions'[g].made <=> g \in Range(source'.funcs)
              /\ functions'[g].has_definition <=> g \in source'.defined
              /\ g \notin source'.defined => source'.body[g] = << >>
              /\ g \in source'.defined /\ (\A i \in 1 .. Len(func_stack') : func_stack'[i] # g) => Closed(g)'
              /\ symbols'.funcs[g] = Range(source'.locals[g])
  <2>1. /\ functions[g].made <=> g \in Range(source.funcs)
        /\ functions[g].has_definition <=> g \in source.defined
        /\ g \notin source.defined => source.body[g] = << >>
        /\ g \in source.defined /\ (\A i \in 1 .. Len(func_stack) : func_stack[i] # g) => Closed(g)
        /\ symbols.funcs[g] = Range(source.locals[g])
    BY DEF Book
  <2>2. CASE g = f
    <3>1. Len(func_stack) + 1 \in 1 .. Len(func_stack')
      BY <1>10
    <3>2. source'.locals[g] = ps
      BY <1>6, <1>7, <2>2
    <3> QED
      BY <1>1, <1>2, <1>4, <1>10, <2>2, <3>1, <3>2
  <2>3. CASE g # f
    <3>1. source'.locals[g] = source.locals[g] /\ functions'[g] = functions[g]
      BY <1>2, <1>6, <1>7, <2>3
    <3>2. g \in source'.defined <=> g \in source.defined
      BY <1>1, <2>3
    <3>3. g \in Range(source'.funcs) <=> g \in Range(source.funcs)
      BY <1>1, <1>4, <2>3
    <3>4. ASSUME g \in source'.defined, \A i \in 1 .. Len(func_stack') : func_stack'[i] # g
          PROVE  Closed(g)'
      <4>1. \A i \in 1 .. Len(func_stack) : func_stack[i] # g
        BY <1>10, <3>4
      <4>2. Closed(g)
        BY <2>1, <3>2, <3>4, <4>1
      <4> QED
        BY <1>1, <3>1, <4>2 DEF Closed
    <3> QED
      BY <1>1, <1>2, <2>1, <2>3, <3>1, <3>2, <3>3, <3>4
  <2> QED
    BY <2>2, <2>3
<1>13. symbols'.globals = Range(source'.locals[NoFunc])
  <2>1. source'.locals[NoFunc] = source.locals[NoFunc]
    BY <1>5, <1>6, <1>7
  <2> QED
    BY <1>2, <2>1 DEF Book
<1>14. ASSUME NEW o \in Owners
       PROVE  /\ Injective(source'.locals[o])
              /\ \A i \in 1 .. Len(source'.locals[o]) : source'.locals[o][i][2] <= source'.count
  <2>1. PICK s : s = source'.locals[o]
    OBVIOUS
  <2>2. CASE o = f
    <3>1. s = ps
      BY <1>7, <2>1, <2>2
    <3>2. \A i \in 1 .. Len(s) : s[i][2] <= source'.count
      <4> TAKE i \in 1 .. Len(s)
      <4>1. ps[i][2] <= 0
        BY <1>3, <3>1
      <4>2. ps[i][2] \in Int
        <5>1. ps \in Seq(Variables)
          <6>1. ps = ParamsOf(f) /\ params = [j \in 1 .. Params[f] |-> Item("decl", ps[j])]
            BY DEF Opening
          <6> QED
            BY <6>1, ParamsAre
        <5>2. ps[i] \in Variables
          BY <3>1, <5>1
        <5> QED
          BY <5>2 DEF Variables
      <4> QED
        BY <1>1, <1>5, <3>1, <4>1, <4>2
    <3> QED
      BY <1>3, <2>1, <3>1, <3>2
  <2>3. CASE o # f
    <3>1. s = source.locals[o] /\ s \in Seq(Variables)
      BY <1>5, <1>7, <2>1, <2>3
    <3>2. Injective(s) /\ \A i \in 1 .. Len(s) : s[i][2] <= source.count
      BY <3>1 DEF Book
    <3>3. \A i \in 1 .. Len(s) : s[i][2] <= source'.count
      <4> TAKE i \in 1 .. Len(s)
      <4>1. s[i] \in Variables
        BY <3>1
      <4>2. s[i][2] \in Int
        BY <4>1 DEF Variables
      <4> QED
        BY <1>1, <1>5, <3>2, <4>2
    <3> QED
      BY <2>1, <3>2, <3>3
  <2> QED
    BY <2>2, <2>3
<1> QED
  BY <1>10, <1>11, <1>12, <1>13, <1>14 DEF Book

LEMMA OpeningGoes ==
  ASSUME StackInv, Goes, NEW f \in Funcs, NEW ps, NEW params, Opening(f, ps, params),
         ctxt' = Down("function", f, "body"), LEnterFunction(f, ps)
  PROVE  Goes'
<1>1. Calm /\ InStep /\ Book /\ LirTypes /\ source \in Sources
  BY GoesHas
<1>2. Queues /\ ctxt \in Seq(Nodes) /\ Len(ctxt) = 2 * Depth /\ Depth \in Nat
  BY <1>1, CalmHas
<1>3. /\ params \in Seq(Only(Items, "decl")) /\ Named(params) = ps
  <2>1. ps = ParamsOf(f) /\ params = [i \in 1 .. Params[f] |-> Item("decl", ps[i])]
    BY DEF Opening
  <2> QED
    BY <2>1, ParamsAre
<1>4. params \in Seq(Items) /\ Sorted(params) \in Parts
  BY <1>3, SortedAlike, SortedParts
<1>5. PICK made \in Seq(Only(Items, "func")) :
        /\ made = Made(f) /\ made \in Seq(Items) /\ Met(f) = source.funcs \o Named(made)
  BY <1>1, MadeIs
<1>6. PICK D \in Nat : D = Depth
  BY <1>2
<1>7. PICK v \in Parts : v = NewVisit(<< >>)
  <2>1. << >> \in Seq(Only(Items, "item"))
    OBVIOUS
  <2> QED
    BY <2>1, NewVisitType
<1>8. /\ queue_stack' = Append(queue_stack, current_q \o made) /\ visits' = Append(visits, v)
      /\ current_q' = params
  BY <1>5, <1>7 DEF LEnterFunction, Opening
<1>9. /\ Queues' /\ Depth' = D + 1
      /\ \A j \in 0 .. D : j # D => Content(j)' = Content(j)
      /\ Content(D)' = Plus(Content(D), Sorted(made))
      /\ Content(D + 1)' = Plus(v, Sorted(params))
  BY <1>2, <1>4, <1>5, <1>6, <1>8, ContentPush
<1>10. Plus(v, Sorted(params)) = Sorted(params)
  BY <1>4, <1>7, PlusNothing
<1>11. /\ SameBelow(D) /\ Len(ctxt') = 2 * (D + 1) /\ Opens(D + 1)' /\ HeadOf(D + 1)' = f
  BY <1>2, <1>6, HeadsDown
<1>12. /\ source'.body = source.body /\ source'.locals = [source.locals EXCEPT ![f] = ps]
       /\ source'.funcs = Met(f)
  <2>1. source' = [body |-> source.body, locals |-> [source.locals EXCEPT ![f] = ps], funcs |-> Met(f),
                   defined |-> source.defined \cup {f}, looped |-> source.looped,
                   count |-> source.count + 1]
    BY <1>1, OpeningTypes
  <2> QED
    BY <2>1
<1>13. Book'
  BY <1>1, OpeningBook
<1>14. InStep'
  <2>1. PICK t \in [0 .. D -> Parts], n \in [0 .. D -> Nat] : Sync(t, n)
    BY <1>1, <1>6 DEF InStep
  <2>2. f \notin source.defined /\ func_stack' = Append(func_stack, f)
    BY DEF Opening
  <2>3. Content(D + 1)' = Sorted(params)
    BY <1>9, <1>10
  <2>4. source'.locals = [source.locals EXCEPT ![f] = Named(params)]
    BY <1>3, <1>12
  <2>5. source'.funcs = source.funcs \o Named(made)
    BY <1>5, <1>12
  <2> QED
    <3>1. Enters(D, t, n, f, made, params)
      BY <1>1, <1>3, <1>5, <1>6, <1>9, <1>11, <1>12, <1>13, <2>1, <2>2, <2>3, <2>4, <2>5 DEF Enters
    <3> QED
      BY <3>1, SyncEnter
<1>15. LirTypes' /\ source' \in Sources
  <2>1. /\ source' \in Sources
        /\ symbols' \in [funcs : [Funcs -> SUBSET Variables], globals : SUBSET Variables]
        /\ functions' \in [Funcs -> FunctionNodes]
    BY <1>1, OpeningTypes
  <2>2. func_stack' \in Seq(Funcs) /\ prog' = prog
    BY <1>1 DEF Opening, LirTypes
  <2> QED
    BY <1>1, <1>9, <2>1, <2>2 DEF LirTypes, Queues
<1> QED
  BY <1>6, <1>9, <1>11, <1>14, <1>15 DEF Goes, Queues

\* What is behind the body of a function has all of it.
LEMMA BodyIsContent ==
  ASSUME Calm, InStep, ctxt # << >>, Holder.kind = "function", NEW D, D = Depth
  PROVE  /\ D # 0 /\ Opens(D) /\ Len(func_stack) \in 1 .. Len(func_stack)
         /\ func_stack[Len(func_stack)] \in Funcs
         /\ source.body[func_stack[Len(func_stack)]] = Content(D).own
         /\ source.locals[func_stack[Len(func_stack)]] = Named(Content(D).decls)
<1>1. /\ Queues /\ D \in Nat /\ func_stack \in Seq(Funcs) /\ ctxt \in Seq(Nodes) /\ Len(ctxt) = 2 * D
  BY CalmHas
<1>2. Len(ctxt) # 0
  BY <1>1
<1>3. D # 0 /\ 2 * D - 1 = Len(ctxt) - 1
  BY <1>1, <1>2
<1>4. Opens(D)
  BY <1>3 DEF Opens, Holder
<1>5. PICK t \in [0 .. D -> Parts], n \in [0 .. D -> Nat] : Sync(t, n)
  BY DEF InStep
<1>6. /\ Ledger(t) /\ Levels(n) /\ Matches(t, n)
  BY <1>5 DEF Sync
<1>7. D \in 0 .. D /\ D \in 1 .. D
  BY <1>1, <1>3
<1>8. /\ Len(func_stack) = n[D] /\ n[D] \in 1 .. Len(func_stack)
  BY <1>4, <1>6, <1>7 DEF Levels
<1>9. Owner(n[D]) = func_stack[Len(func_stack)] /\ func_stack[Len(func_stack)] \in Funcs
  BY <1>1, <1>8 DEF Owner
<1>10. Holds(Owner(n[D]), t[D])
  BY <1>6, <1>7 DEF Matches
<1>11. t[D] = Starting(t[D - 1], Content(D))
  BY <1>4, <1>6, <1>7 DEF Ledger, Onto
<1>12. PICK a, b : a = t[D - 1] /\ b = Content(D)
  OBVIOUS
<1>13. t[D].own = b.own /\ t[D].decls = b.decls
  <2>1. t[D] = Starting(a, b)
    BY <1>11, <1>12
  <2>2. Starting(a, b).own = b.own /\ Starting(a, b).decls = b.decls
    BY StartingIs
  <2> QED
    BY <2>1, <2>2
<1> QED
  BY <1>3, <1>4, <1>8, <1>9, <1>10, <1>12, <1>13 DEF Holds

\* The step of LIRSynthesizer behind the body of f, whose content is c.
Finishing(f, c) ==
  /\ f = func_stack[Len(func_stack)]
  /\ functions' = [functions EXCEPT ![f].locals = c.decls, ![f].body = c.own]
  /\ func_stack' = SubSeq(func_stack, 1, Len(func_stack) - 1)
  /\ symbols' = symbols /\ source' = source

LEMMA ClosingBook ==
  ASSUME LirTypes, source \in Sources, Book, NEW f \in Funcs, NEW c \in Parts, Finishing(f, c),
         Len(func_stack) \in 1 .. Len(func_stack),
         source.body[f] = c.own, source.locals[f] = Named(c.decls)
  PROVE  Book' /\ functions' \in [Funcs -> FunctionNodes] /\ func_stack' \in Seq(Funcs)
<1>1. functions \in [Funcs -> FunctionNodes] /\ func_stack \in Seq(Funcs) /\ functions[f] \in FunctionNodes
  BY DEF LirTypes
<1>2. PICK e : e = [[functions[f] EXCEPT !.locals = c.decls] EXCEPT !.body = c.own]
  OBVIOUS
<1>3. /\ e \in FunctionNodes /\ e.locals = c.decls /\ e.body = c.own
      /\ e.made = functions[f].made /\ e.has_definition = functions[f].has_definition
  <2>1. c.decls \in Seq(Only(Items, "decl")) /\ c.own \in Seq(Only(Items, "item"))
    BY DEF Parts
  <2>2. PICK m \in BOOLEAN, h \in BOOLEAN : m = functions[f].made /\ h = functions[f].has_definition
    BY <1>1 DEF FunctionNodes
  <2>3. e = [made |-> m, has_definition |-> h, locals |-> c.decls, body |-> c.own]
    BY <1>1, <1>2, <2>2 DEF FunctionNodes
  <2> QED
    BY <2>1, <2>2, <2>3 DEF FunctionNodes
<1>4. functions' = [functions EXCEPT ![f] = e]
  BY <1>1, <1>2 DEF Finishing
<1>5. /\ functions' \in [Funcs -> FunctionNodes] /\ functions'[f] = e
      /\ \A g \in Funcs : g # f => functions'[g] = functions[g]
  BY <1>3, <1>4, NodeChanges
<1>6. PICK k \in Nat : k + 1 = Len(func_stack)
  <2>1. Len(func_stack) - 1 \in Nat /\ (Len(func_stack) - 1) + 1 = Len(func_stack)
    BY <1>1
  <2> QED
    BY <2>1
<1>7. /\ func_stack' \in Seq(Funcs) /\ Len(func_stack') = k
      /\ \A i \in 1 .. k : func_stack'[i] = func_stack[i]
  <2>1. func_stack' = SubSeq(func_stack, 1, k) /\ k \in 0 .. Len(func_stack)
    BY <1>6 DEF Finishing
  <2> QED
    BY <1>1, <2>1, Front
<1>8. /\ Injective(func_stack) /\ \A i \in 1 .. Len(func_stack) : func_stack[i] \in source.defined
  BY DEF Book
<1>9. /\ Injective(func_stack') /\ \A i \in 1 .. Len(func_stack') : func_stack'[i] \in source.defined
  <2>1. Injective(func_stack')
    BY <1>6, <1>7, <1>8 DEF Injective
  <2>2. \A i \in 1 .. Len(func_stack') : func_stack'[i] \in source.defined
    BY <1>6, <1>7, <1>8
  <2> QED
    BY <2>1, <2>2
<1>10. source' = source /\ symbols' = symbols
  BY DEF Finishing
<1>11. ASSUME NEW g \in Funcs
       PROVE  /\ functions'[g].made <=> g \in Range(source.funcs)
              /\ functions'[g].has_definition <=> g \in source.defined
              /\ g \in source.defined /\ (\A i \in 1 .. Len(func_stack') : func_stack'[i] # g)
                   => functions'[g].body = source.body[g] /\ Named(functions'[g].locals) = source.locals[g]
  <2>1. /\ functions[g].made <=> g \in Range(source.funcs)
        /\ functions[g].has_definition <=> g \in source.defined
        /\ g \in source.defined /\ (\A i \in 1 .. Len(func_stack) : func_stack[i] # g) => Closed(g)
    BY DEF Book
  <2>2. CASE g = f
    BY <1>3, <1>5, <2>1, <2>2
  <2>3. CASE g # f
    <3>1. functions'[g] = functions[g]
      BY <1>5, <2>3
    <3>2. ASSUME \A i \in 1 .. Len(func_stack') : func_stack'[i] # g
          PROVE  \A i \in 1 .. Len(func_stack) : func_stack[i] # g
      <4> TAKE i \in 1 .. Len(func_stack)
      <4>1. CASE i = Len(func_stack)
        BY <2>3, <4>1 DEF Finishing
      <4>2. CASE i # Len(func_stack)
        <5>1. i \in 1 .. k
          BY <1>6, <4>2
        <5> QED
          BY <1>7, <3>2, <5>1
      <4> QED
        BY <4>1, <4>2
    <3> QED
      BY <2>1, <3>1, <3>2 DEF Closed
  <2> QED
    BY <2>2, <2>3
<1>12. Book'
  BY <1>9, <1>10, <1>11 DEF Book, Closed
<1> QED
  BY <1>5, <1>7, <1>12

LEMMA FinishingGoes ==
  ASSUME StackInv, Goes, InBody("function"), ctxt' = Above(2), LExitFunction, source' = source
  PROVE  Goes'
<1>1. Calm /\ InStep /\ Book /\ LirTypes /\ source \in Sources
  BY GoesHas
<1>2. Queues /\ ctxt \in Seq(Nodes) /\ Len(ctxt) = 2 * Depth /\ Depth \in Nat
  BY <1>1, CalmHas
<1>3. ctxt # << >> /\ Holder.kind = "function"
  BY DEF InBody
<1>4. PICK D \in Nat : D = Depth
  BY <1>2
<1>5. PICK f, c : f = func_stack[Len(func_stack)] /\ c = Content(D)
  OBVIOUS
<1>6. /\ D # 0 /\ Opens(D) /\ Len(func_stack) \in 1 .. Len(func_stack) /\ f \in Funcs
      /\ source.body[f] = c.own /\ source.locals[f] = Named(c.decls)
  BY <1>1, <1>3, <1>4, <1>5, BodyIsContent
<1>7. D \in 0 .. D /\ D - 1 \in 0 .. D - 1 /\ D \in Nat \ {0}
  BY <1>4, <1>6
<1>8. c \in Parts /\ c.funcs \in Seq(Only(Items, "func"))
  <2>1. c \in Parts
    BY <1>2, <1>4, <1>5, <1>7, ContentIs
  <2> QED
    BY <2>1 DEF Parts
<1>9. c.funcs \in Seq(Items)
  BY <1>8, SortedAlike
<1>10. Drained(Visit, current_q) = c
  BY <1>4, <1>5, <1>6 DEF Visit, Content, Depth
<1>11. /\ Finishing(f, c) /\ PopQueue(c.funcs) /\ prog' = prog
  BY <1>5, <1>10 DEF LExitFunction, Finishing
<1>12. Book' /\ functions' \in [Funcs -> FunctionNodes] /\ func_stack' \in Seq(Funcs)
  BY <1>1, <1>6, <1>8, <1>11, ClosingBook
<1>13. /\ Queues' /\ Depth' = D - 1
       /\ \A j \in 0 .. D - 1 : j # D - 1 => Content(j)' = Content(j)
       /\ Content(D - 1)' = Plus(Content(D - 1), Sorted(c.funcs))
  <2>1. PICK q \in Seq(Items) : q = c.funcs
    BY <1>9
  <2> QED
    BY <1>2, <1>4, <1>6, <1>11, <2>1, ContentPop
<1>14. SameBelow(D - 1) /\ Len(ctxt') = 2 * (D - 1)
  BY <1>2, <1>4, <1>7, HeadsUp
<1>15. InStep'
  <2>1. PICK t \in [0 .. D -> Parts], n \in [0 .. D -> Nat] : Sync(t, n)
    BY <1>1, <1>4 DEF InStep
  <2>2. func_stack' = SubSeq(func_stack, 1, Len(func_stack) - 1)
    BY <1>11 DEF Finishing
  <2>3. Leaves(D, t, n)
    BY <1>1, <1>4, <1>5, <1>6, <1>12, <1>13, <1>14, <2>1, <2>2 DEF Leaves
  <2> QED
    BY <2>3, SyncLeave
<1>16. LirTypes'
  <2>1. symbols' = symbols
    BY <1>11 DEF Finishing
  <2> QED
    BY <1>1, <1>11, <1>12, <1>13, <2>1 DEF LirTypes, Queues
<1> QED
  BY <1>1, <1>4, <1>13, <1>14, <1>15, <1>16 DEF Goes, Queues

LEMMA LabelsType ==
  ASSUME NEW vs \in SUBSET CaseVals, NEW labels \in Labels(vs)
  PROVE  labels \in Seq(Only(Items, "item"))
<1>1. IsFiniteSet(vs)
  BY ValidatorAssumption, FS_Subset
<1>2. PICK n \in Nat : n = Cardinality(vs)
  BY <1>1, FS_CardinalityType
<1>3. \A v \in vs : Item("case", v) \in Only(Items, "item")
  <2> TAKE v \in vs
  <2>1. v \in Names /\ "case" \in ItemKinds /\ "case" \in Brackets
    BY DEF Names, ItemKinds, Brackets
  <2> QED
    BY <2>1, ItemIs
<1>4. labels \in [1 .. n -> {Item("case", v) : v \in vs}]
  BY <1>2 DEF Labels
<1>5. labels \in [1 .. n -> Only(Items, "item")]
  BY <1>3, <1>4
<1> QED
  BY <1>5, Listing

(***************************************************************************)
(* Every step                                                              *)
(***************************************************************************)

\* After an error only the Validator goes on.
Quits == errors' /\ UNCHANGED lvars /\ \E c \in Nat : source' = [source EXCEPT !.count = c]
Continues == ~errors /\ ~errors' /\ ~validated' /\ Goes' /\ prog' = prog
Moves == ~validated /\ (Quits \/ Continues)

Going == StackInv /\ source \in Sources /\ errors \in BOOLEAN /\ (~errors /\ ~validated => Goes)

LEMMA MovesFunctions ==
  ASSUME Going, NEW f \in Funcs, DeclareFunction(f) \/ RepeatMark(f) \/ EnterFunction(f) \/ ExitFunction
  PROVE  Moves
<1>0. source.count \in Nat /\ source.count + 1 \in Nat
  BY DEF Going, Sources
<1>1. CASE DeclareFunction(f)
  <2>1. ~validated /\ errors' = errors /\ validated' = validated /\ ctxt' = ctxt
    BY <1>1 DEF DeclareFunction, VDeclareFunction, Walking
  <2>2. CASE errors'
    BY <1>0, <1>1, <2>1, <2>2 DEF DeclareFunction, Lowered, Moves, Quits
  <2>3. CASE ~errors'
    <3>1. LDeclareFunction(f) /\ source' = [source EXCEPT !.funcs = Met(f), !.count = @ + 1]
      BY <1>1, <2>3 DEF DeclareFunction, Lowered
    <3>2. Goes'
      BY <2>1, <2>3, <3>1, DeclareGoes DEF Going
    <3> QED
      BY <2>1, <2>3, <3>1, <3>2 DEF Moves, Continues, LDeclareFunction
  <2> QED
    BY <2>2, <2>3
<1>2. CASE RepeatMark(f)
  <2>1. ~validated /\ errors'
    BY <1>2 DEF RepeatMark, VDuplicate, Walking
  <2> QED
    BY <1>0, <1>2, <2>1 DEF RepeatMark, Lowered, Moves, Quits
<1>3. CASE EnterFunction(f)
  <2> DEFINE ps == [i \in 1 .. Params[f] |-> << f, 0 - i >>]
             s == [source EXCEPT !.funcs = Met(f), !.defined = @ \cup {f}, !.locals[f] = ps, !.count = @ + 1]
  <2>1. /\ ~validated /\ errors' = errors /\ validated' = validated /\ ctxt' = Down("function", f, "body")
        /\ f \notin source.defined
    BY <1>3 DEF EnterFunction, VEnterFunction, Walking
  <2>2. Lowered(LEnterFunction(f, ps), s)
    BY <1>3 DEF EnterFunction
  <2>3. CASE errors'
    <3>1. s.count = source.count + 1
      BY DEF Going, Sources
    <3> HIDE DEF s, ps
    <3> QED
      BY <1>0, <2>1, <2>2, <2>3, <3>1 DEF Lowered, Moves, Quits
  <2>4. CASE ~errors'
    <3>1. LEnterFunction(f, ps) /\ source' = s
      BY <2>2, <2>4 DEF Lowered
    <3>2. ps = ParamsOf(f)
      BY DEF ParamsOf
    <3>3. PICK qs : qs = ps
      OBVIOUS
    <3>4. PICK params : params = [i \in 1 .. Params[f] |-> Item("decl", qs[i])]
      OBVIOUS
    <3>5. Opening(f, qs, params) /\ LEnterFunction(f, qs)
      BY <2>1, <3>1, <3>2, <3>3, <3>4 DEF Opening, LEnterFunction
    <3>6. Goes'
      BY <2>1, <2>4, <3>5, OpeningGoes DEF Going
    <3> QED
      BY <2>1, <2>4, <3>1, <3>6 DEF Moves, Continues, LEnterFunction
  <2> QED
    BY <2>3, <2>4
<1>4. CASE ExitFunction
  <2>1. ~validated /\ (errors => errors') /\ validated' = validated /\ ctxt' = Above(2) /\ InBody("function")
    BY <1>4 DEF ExitFunction, VExitFunction, Walking
  <2>2. Lowered(LExitFunction, source)
    BY <1>4 DEF ExitFunction
  <2>3. CASE errors'
    BY <1>0, <2>1, <2>2, <2>3 DEF Lowered, Moves, Quits
  <2>4. CASE ~errors'
    <3>1. LExitFunction /\ source' = source
      BY <2>2, <2>4 DEF Lowered
    <3>2. Goes'
      BY <2>1, <2>4, <3>1, FinishingGoes DEF Going
    <3>3. prog' = prog
      BY <3>1 DEF LExitFunction
    <3> QED
      BY <2>1, <2>4, <3>2, <3>3 DEF Moves, Continues
  <2> QED
    BY <2>3, <2>4
<1> QED
  BY <1>1, <1>2, <1>3, <1>4

LEMMA Settles ==
  ASSUME Going, ~validated, errors', UNCHANGED lvars, NEW s, source' = [source EXCEPT !.count = s.count],
         s.count \in Nat
  PROVE  Moves
BY DEF Moves, Quits

LEMMA Advances ==
  ASSUME Going, ~validated, errors => errors', ~errors', ~validated', Goes', prog' = prog
  PROVE  Moves
BY DEF Moves, Continues, Going

\* The visit of a statement with the items it emits.
Emits(items) ==
  /\ ~validated /\ (errors => errors') /\ validated' = validated /\ ctxt' = ctxt
  /\ Lowered(LStatement(items), Here(items))

LEMMA CountHere ==
  ASSUME source \in Sources, NEW items
  PROVE  Here(items).count \in Nat /\ Closing(items).count \in Nat
BY DEF Sources, Here, Closing

LEMMA MovesEmits ==
  ASSUME Going, NEW items \in Seq(Only(Items, "item")), Emits(items)
  PROVE  Moves
<1>1. Here(items).count \in Nat
  BY CountHere DEF Going
<1>2. CASE errors'
  <2>1. UNCHANGED lvars /\ source' = [source EXCEPT !.count = Here(items).count] /\ ~validated
    BY <1>2 DEF Emits, Lowered
  <2> QED
    BY <1>1, <1>2, <2>1, Settles
<1>3. CASE ~errors'
  <2>1. LStatement(items) /\ source' = Here(items) /\ ctxt' = ctxt /\ ~errors /\ ~validated
    BY <1>3 DEF Emits, Lowered
  <2>2. Goes'
    BY <2>1, StatementGoes DEF Going
  <2>3. prog' = prog
    BY <2>1 DEF LStatement
  <2> QED
    BY <1>3, <2>1, <2>2, <2>3, Advances DEF Emits
<1> QED
  BY <1>2, <1>3

LEMMA MovesStatements ==
  ASSUME Going, ExprStmt \/ Break \/ Continue \/ Return
  PROVE  Moves
<1>1. \E k \in {"stmt", "break", "continue", "return"} : Emits(<< Item(k, Next1) >>)
  <2>1. CASE ExprStmt
    <3>1. Emits(<< Item("stmt", Next1) >>)
      BY <2>1 DEF ExprStmt, Statement, Stays, Walking, Emits
    <3> QED
      BY <3>1
  <2>2. CASE Break
    <3>1. Emits(<< Item("break", Next1) >>)
      BY <2>2 DEF Break, Statement, Stays, Walking, Emits
    <3> QED
      BY <3>1
  <2>3. CASE Continue
    <3>1. Emits(<< Item("continue", Next1) >>)
      BY <2>3 DEF Continue, Statement, Stays, Walking, Emits
    <3> QED
      BY <3>1
  <2>4. CASE Return
    <3>1. Emits(<< Item("return", Next1) >>)
      BY <2>4 DEF Return, Statement, Stays, Walking, Emits
    <3> QED
      BY <3>1
  <2> QED
    BY <2>1, <2>2, <2>3, <2>4
<1>2. PICK k \in {"stmt", "break", "continue", "return"} : Emits(<< Item(k, Next1) >>)
  BY <1>1
<1>3. PICK items \in Seq(Only(Items, "item")) : items = << Item(k, Next1) >>
  <2>1. k \in Brackets /\ Next1 \in Nat
    BY LoopItems DEF Brackets, Going
  <2>2. << Item(k, Next1) >> \in Seq(Only(Items, "item"))
    BY <2>1, OneItem
  <2> QED
    BY <2>2
<1> QED
  BY <1>2, <1>3, MovesEmits

LEMMA MovesLabels ==
  ASSUME Going, NEW vs \in SUBSET CaseVals, Case(vs) \/ Default
  PROVE  Moves
<1>1. CASE Case(vs)
  <2>1. PICK labels \in Labels(vs) : Lowered(LStatement(labels), Here(labels))
    BY <1>1 DEF Case
  <2>2. ~validated /\ (errors => errors') /\ validated' = validated /\ ctxt' = ctxt
    <3>1. VCase(vs) \/ \E before \in SUBSET vs : VRepeatedCase(vs, before)
      BY <1>1 DEF Case
    <3>2. CASE VCase(vs)
      BY ONLY <3>2 DEF VCase, Walking
    <3>3. ASSUME NEW before \in SUBSET vs, VRepeatedCase(vs, before)
          PROVE  ~validated /\ errors' /\ validated' = validated /\ ctxt' = ctxt
      BY ONLY <3>3 DEF VRepeatedCase, Walking
    <3> QED
      BY <3>1, <3>2, <3>3
  <2>3. labels \in Seq(Only(Items, "item"))
    BY LabelsType
  <2>4. Emits(labels)
    BY <2>1, <2>2 DEF Emits
  <2> QED
    BY <2>3, <2>4, MovesEmits
<1>2. CASE Default
  <2>1. PICK items \in Seq(Only(Items, "item")) : items = << Item("default", Next1) >>
    <3>1. "default" \in Brackets /\ Next1 \in Nat
      BY LoopItems DEF Brackets, Going
    <3>2. << Item("default", Next1) >> \in Seq(Only(Items, "item"))
      BY <3>1, OneItem
    <3> QED
      BY <3>2
  <2>2. ~validated /\ (errors => errors') /\ validated' = validated /\ ctxt' = ctxt
    <3>1. VDefault \/ Stays(FALSE)
      BY <1>2 DEF Default
    <3>2. CASE VDefault
      BY ONLY <3>2 DEF VDefault, Walking
    <3>3. CASE Stays(FALSE)
      BY ONLY <3>3 DEF Stays, Walking
    <3> QED
      BY <3>1, <3>2, <3>3
  <2>3. Lowered(LStatement(items), Here(items))
    BY <1>2, <2>1 DEF Default
  <2>4. Emits(items)
    BY <2>2, <2>3 DEF Emits
  <2> QED
    BY <2>4, MovesEmits
<1> QED
  BY <1>1, <1>2

LEMMA MovesVariables ==
  ASSUME Going, NEW init, VarDecl(init)
  PROVE  Moves
<1> DEFINE s == [Here(Inits(NewVariable, init)) EXCEPT
                   !.locals[Within] = Append(@, NewVariable), !.looped = @ \cup Looped(NewVariable, init)]
<1>1. /\ ~validated /\ (errors => errors') /\ validated' = validated /\ ctxt' = ctxt
      /\ Lowered(LVarDecl(NewVariable, Inits(NewVariable, init)), s)
  BY DEF VarDecl, Stays, Walking, NewVariable
<1>2. CASE errors'
  <2>1. s.count \in Nat
    BY DEF Going, Sources, Here
  <2>2. UNCHANGED lvars /\ source' = [source EXCEPT !.count = s.count]
    BY <1>1, <1>2 DEF Lowered
  <2> HIDE DEF s
  <2> QED
    BY <1>1, <1>2, <2>1, <2>2, Settles
<1>3. CASE ~errors'
  <2>1. LVarDecl(NewVariable, Inits(NewVariable, init)) /\ source' = s
    BY <1>1, <1>3 DEF Lowered
  <2>2. Goes /\ StackInv /\ source \in Sources
    BY <1>1, <1>3 DEF Going
  <2>3. Inside
    BY <2>2, GoesHas
  <2>4. PICK own \in Seq(Only(Items, "item")), looped \in SUBSET Variables :
          own = Inits(NewVariable, init) /\ looped = source.looped \cup Looped(NewVariable, init)
    BY <2>2, <2>3, InitsType
  <2>5. Declares(own, looped)
    <3>1. source.locals \in [Owners -> Seq(Variables)] /\ Within \in Owners /\ NewVariable \in Variables
      BY <2>2, <2>3, NewVariableType DEF Sources
    <3>2. Append(source.locals[Within], NewVariable) = source.locals[Within] \o << NewVariable >>
      BY <3>1, AppendIsConcat
    <3>3. source' = [body |-> [source.body EXCEPT ![Within] = @ \o own],
                     locals |-> [source.locals EXCEPT ![Within] = Append(@, NewVariable)],
                     funcs |-> source.funcs, defined |-> source.defined,
                     looped |-> looped, count |-> source.count + 1]
      BY <2>1, <2>2, <2>4 DEF Here, Sources
    <3> QED
      BY <3>2, <3>3 DEF Declares
  <2>6. Goes'
    BY <1>1, <2>1, <2>2, <2>4, <2>5, DeclarationGoes
  <2>7. prog' = prog
    BY <2>1 DEF LVarDecl
  <2> QED
    BY <1>1, <1>3, <2>6, <2>7, Advances
<1> QED
  BY <1>2, <1>3

\* The visit of an if, a switch or a label, down to its body.
Starts(kind, part, open) ==
  /\ ~validated /\ (errors => errors') /\ validated' = validated /\ ctxt' = Down(kind, NoFunc, part)
  /\ Lowered(LEnter(open), Here(<< open >>))

LEMMA MovesStarts ==
  ASSUME Going, NEW kind, kind # "function", NEW part, NEW open \in Only(Items, "item"),
         Starts(kind, part, open)
  PROVE  Moves
<1>1. Here(<< open >>).count \in Nat
  BY CountHere DEF Going
<1>2. CASE errors'
  <2>1. UNCHANGED lvars /\ source' = [source EXCEPT !.count = Here(<< open >>).count] /\ ~validated
    BY <1>2 DEF Starts, Lowered
  <2> QED
    BY <1>1, <1>2, <2>1, Settles
<1>3. CASE ~errors'
  <2>1. /\ LEnter(open) /\ source' = Here(<< open >>) /\ ctxt' = Down(kind, NoFunc, part)
        /\ ~errors /\ ~validated
    BY <1>3 DEF Starts, Lowered
  <2>2. Goes'
    BY <2>1, EnterGoes DEF Going
  <2>3. prog' = prog
    BY <2>1 DEF LEnter
  <2> QED
    BY <1>3, <2>1, <2>2, <2>3, Advances DEF Starts
<1> QED
  BY <1>2, <1>3

LEMMA MovesBodies ==
  ASSUME Going, EnterIf \/ EnterLabel \/ EnterSwitch
  PROVE  Moves
<1>1. /\ Item("if", Next1) \in Only(Items, "item") /\ Item("label", Next1) \in Only(Items, "item")
      /\ Item("switch", Next1) \in Only(Items, "item")
  <2>1. {"if", "label", "switch"} \subseteq Brackets /\ Next1 \in Nat
    BY LoopItems DEF Brackets, Going
  <2> QED
    BY <2>1, OneItem
<1>2. CASE EnterIf
  <2>1. Starts("if", "then", Item("if", Next1))
    BY <1>2 DEF EnterIf, VEnterIf, Walking, Starts
  <2> QED
    BY <1>1, <2>1, MovesStarts
<1>3. CASE EnterLabel
  <2>1. Starts("label", "body", Item("label", Next1))
    BY <1>3 DEF EnterLabel, VEnterLabel, Walking, Starts
  <2> QED
    BY <1>1, <2>1, MovesStarts
<1>4. CASE EnterSwitch
  <2>1. Starts("switch", "body", Item("switch", Next1))
    BY <1>4 DEF EnterSwitch, VEnterSwitch, Walking, Starts
  <2> QED
    BY <1>1, <2>1, MovesStarts
<1> QED
  BY <1>2, <1>3, <1>4

LEMMA MovesElse ==
  ASSUME Going, Else
  PROVE  Moves
<1>1. PICK sep \in Only(Items, "item") : sep = Item("else", 0)
  <2>1. "else" \in Brackets
    BY DEF Brackets
  <2> QED
    BY <2>1, OneItem
<1>2. /\ ~validated /\ errors' = errors /\ validated' = validated /\ InBody("if")
      /\ ctxt' = Above(2) \o << Node("if", NoFunc, "else"), Inner >>
      /\ Lowered(LElse(sep), Closing(<< sep >>))
  BY <1>1 DEF Else, VElse, Walking
<1>3. ctxt # << >> /\ Holder.kind = "if"
  BY <1>2 DEF InBody
<1>4. Closing(<< sep >>).count \in Nat
  BY CountHere DEF Going
<1>5. CASE errors'
  <2>1. UNCHANGED lvars /\ source' = [source EXCEPT !.count = Closing(<< sep >>).count]
    BY <1>2, <1>5 DEF Lowered
  <2> QED
    BY <1>2, <1>4, <1>5, <2>1, Settles
<1>6. CASE ~errors'
  <2>1. LElse(sep) /\ source' = Closing(<< sep >>)
    BY <1>2, <1>6 DEF Lowered
  <2>2. Goes'
    BY <1>2, <1>3, <1>6, <2>1, ElseGoes DEF Going
  <2>3. prog' = prog
    BY <2>1 DEF LElse
  <2> QED
    BY <1>2, <1>6, <2>2, <2>3, Advances
<1> QED
  BY <1>5, <1>6

LEMMA MovesExits ==
  ASSUME Going, ExitIf \/ ExitLabel \/ ExitSwitch \/ ExitLoop
  PROVE  Moves
<1>1. PICK kind \in {"if", "switch", "loop", "label"} :
        /\ ~validated /\ errors' = errors /\ validated' = validated /\ InBody(kind) /\ ctxt' = Above(2)
        /\ \/ Lowered(LExit(End), Closing(<< End >>))
           \/ Lowered(LExitLabel, source)
  <2>1. CASE ExitIf
    BY <2>1 DEF ExitIf, VExit, Walking
  <2>2. CASE ExitLabel
    BY <2>2 DEF ExitLabel, VExit, Walking
  <2>3. CASE ExitSwitch
    BY <2>3 DEF ExitSwitch, VExitSwitch, Walking
  <2>4. CASE ExitLoop
    BY <2>4 DEF ExitLoop, VExit, Walking
  <2> QED
    BY <2>1, <2>2, <2>3, <2>4
<1>2. CASE errors'
  <2>1. PICK c \in Nat : UNCHANGED lvars /\ source' = [source EXCEPT !.count = c]
    <3>1. Closing(<< End >>).count \in Nat /\ source.count \in Nat
      BY CountHere DEF Going, Sources
    <3>2. CASE Lowered(LExit(End), Closing(<< End >>))
      BY <1>2, <3>1, <3>2 DEF Lowered
    <3>3. CASE Lowered(LExitLabel, source)
      BY <1>2, <3>1, <3>3 DEF Lowered
    <3> QED
      BY <1>1, <3>2, <3>3
  <2> QED
    BY <1>1, <1>2, <2>1 DEF Moves, Quits
<1>3. CASE ~errors'
  <2>1. \/ LExit(End) /\ source' = Closing(<< End >>)
        \/ LExitLabel /\ source' = source
    BY <1>1, <1>3 DEF Lowered
  <2>2. Goes /\ StackInv
    BY <1>1, <1>3 DEF Going
  <2>3. Goes'
    BY <1>1, <2>1, <2>2, ExitGoes
  <2>4. prog' = prog
    BY <2>1 DEF LExit, LExitLabel
  <2> QED
    BY <1>1, <1>3, <2>3, <2>4, Advances
<1> QED
  BY <1>2, <1>3

LEMMA MovesLoop ==
  ASSUME Going, NEW init, EnterLoop(init)
  PROVE  Moves
<1>1. ~validated /\ errors' = errors /\ validated' = validated
  BY DEF EnterLoop, VEnterLoop, Walking
<1>2. CASE errors'
  <2>1. UNCHANGED lvars /\ \E c \in Nat : source' = [source EXCEPT !.count = c]
    <3>1. source.count + 1 \in Nat
      BY DEF Going, Sources
    <3> QED
      BY <1>2, <3>1 DEF EnterLoop, Lowered, Here, Going, Sources
  <2> QED
    BY <1>1, <1>2, <2>1 DEF Moves, Quits
<1>3. CASE ~errors'
  <2>1. Goes'
    BY <1>1, <1>3, LoopStep DEF Going
  <2>2. prog' = prog
    BY <1>3 DEF EnterLoop, Lowered, LEnterLoop
  <2> QED
    BY <1>1, <1>3, <2>1, <2>2, Advances
<1> QED
  BY <1>2, <1>3

LEMMA NextMoves ==
  ASSUME Going, Next
  PROVE  Moves \/ ExitProgram \/ Finished
<1>1. CASE \E f \in Funcs : DeclareFunction(f) \/ RepeatMark(f) \/ EnterFunction(f)
  BY <1>1, MovesFunctions
<1>2. CASE ExitFunction
  <2>1. CASE Funcs = {}
    <3>1. InBody("function") /\ ~validated /\ (errors => errors') /\ validated' = validated
      BY <1>2 DEF ExitFunction, VExitFunction, Walking
    <3>2. Lowered(LExitFunction, source) /\ ctxt' = Above(2)
      BY <1>2 DEF ExitFunction, VExitFunction
    <3>3. CASE errors'
      BY <3>1, <3>2, <3>3 DEF Lowered, Moves, Quits, Going, Sources
    <3>4. CASE ~errors'
      <4>1. Goes'
        BY <3>1, <3>2, <3>4, FinishingGoes DEF Lowered, Going
      <4>2. prog' = prog
        BY <3>2, <3>4 DEF Lowered, LExitFunction
      <4> QED
        BY <3>1, <3>4, <4>1, <4>2, Advances
    <3> QED
      BY <3>3, <3>4
  <2>2. CASE Funcs # {}
    BY <1>2, <2>2, MovesFunctions
  <2> QED
    BY <2>1, <2>2
<1>3. CASE \E init \in DeclInits : VarDecl(init)
  BY <1>3, MovesVariables
<1>4. CASE ExprStmt \/ Break \/ Continue \/ Return
  BY <1>4, MovesStatements
<1>5. CASE \E ty \in {v.ty : v \in CaseVals} : \E vs \in SUBSET {v \in CaseVals : v.ty = ty} \ {{}} : Case(vs)
  BY <1>5, MovesLabels
<1>6. CASE Default
  <2>1. {} \in SUBSET CaseVals
    OBVIOUS
  <2> QED
    BY <1>6, <2>1, MovesLabels
<1>7. CASE EnterIf \/ EnterLabel \/ EnterSwitch
  BY <1>7, MovesBodies
<1>8. CASE Else
  BY <1>8, MovesElse
<1>9. CASE ExitIf \/ ExitLabel \/ ExitSwitch \/ ExitLoop
  BY <1>9, MovesExits
<1>10. CASE \E init \in LoopInits : EnterLoop(init)
  BY <1>10, MovesLoop
<1> QED
  BY <1>1, <1>2, <1>3, <1>4, <1>5, <1>6, <1>7, <1>8, <1>9, <1>10 DEF Next

(***************************************************************************)
(* The end of the program                                                  *)
(***************************************************************************)

LEMMA InjectiveCount ==
  ASSUME NEW S, NEW s \in Seq(S), Injective(s)
  PROVE  Cardinality(Range(s)) = Len(s)
<1>1. PICK n \in Nat : n = Len(s) /\ DOMAIN s = 1 .. n
  OBVIOUS
<1>2. Range(s) = {s[i] : i \in 1 .. n}
  BY <1>1 DEF Range
<1>3. s \in [1 .. n -> Range(s)]
  BY <1>1, <1>2
<1>4. \A i, j \in 1 .. n : s[i] = s[j] => i = j
  BY <1>1 DEF Injective
<1>5. \A x \in Range(s) : \E i \in 1 .. n : s[i] = x
  BY <1>2
<1>6. s \in Bijection(1 .. n, Range(s))
  <2>1. IsInjective(s)
    BY <1>1, <1>4 DEF IsInjective
  <2> QED
    BY <1>3, <1>5, <2>1 DEF Bijection, Injection, Surjection
<1>7. ExistsBijection(1 .. n, Range(s))
  BY <1>6 DEF ExistsBijection
<1> QED
  BY <1>1, <1>7, FS_CountingElements

LEMMA VarsAre ==
  ASSUME NEW items \in Seq(Only(Items, "decl")), NEW locals \in Seq(Variables), Injective(locals),
         Named(items) = locals
  PROVE  Vars(items) = Range(locals) /\ Len(items) = Cardinality(Range(locals))
<1>1. PICK n \in Nat : n = Len(items) /\ DOMAIN items = 1 .. n
  OBVIOUS
<1>2. locals = [i \in 1 .. n |-> items[i].x]
  BY <1>1 DEF Named
<1>3. DOMAIN locals = 1 .. n /\ Len(locals) = n /\ \A i \in 1 .. n : locals[i] = items[i].x
  BY <1>1, <1>2
<1>4. Vars(items) = Range(locals)
  BY <1>1, <1>3 DEF Vars, Range
<1>5. Cardinality(Range(locals)) = Len(locals)
  BY InjectiveCount
<1> QED
  BY <1>1, <1>3, <1>4, <1>5

\* What both walks have of the program at its end.
LEMMA EndKnows ==
  ASSUME Calm, InStep, ctxt = << >>
  PROVE  /\ func_stack = << >> /\ Book /\ Drained(NewVisit(<< >>), current_q) \in Parts
         /\ source.body[NoFunc] = Drained(NewVisit(<< >>), current_q).own
         /\ source.locals[NoFunc] = Named(Drained(NewVisit(<< >>), current_q).decls)
         /\ source.funcs = Named(Drained(NewVisit(<< >>), current_q).funcs)
<1>1. Queues /\ Depth \in Nat /\ func_stack \in Seq(Funcs) /\ Len(ctxt) = 2 * Depth
  BY CalmHas
<1>2. Depth = 0 /\ 0 \in 0 .. Depth
  <2>1. Len(ctxt) = 0
    OBVIOUS
  <2> QED
    BY <1>1, <2>1
<1>3. PICK t \in [0 .. Depth -> Parts], n \in [0 .. Depth -> Nat] : Sync(t, n)
  BY DEF InStep
<1>4. Ledger(t) /\ Levels(n) /\ Matches(t, n) /\ Book
  BY <1>3 DEF Sync
<1>5. PICK v : v = Drained(NewVisit(<< >>), current_q)
  OBVIOUS
<1>6. Content(0) = v /\ v \in Parts
  <2>1. Content(0) = v
    BY <1>2, <1>5 DEF Content
  <2>2. Content(0) \in Parts
    BY <1>1, <1>2, ContentIs
  <2> QED
    BY <2>1, <2>2
<1>7. t[0] = v
  BY <1>4, <1>6 DEF Ledger
<1>8. n[0] = 0 /\ Len(func_stack) = 0
  BY <1>2, <1>4 DEF Levels
<1>9. func_stack = << >>
  BY <1>1, <1>8, EmptySeq
<1>10. Holds(Owner(n[0]), t[0]) /\ source.funcs = Named(t[0].funcs)
  BY <1>2, <1>4 DEF Matches
<1>11. Owner(n[0]) = NoFunc
  BY <1>8 DEF Owner
<1> QED
  BY <1>4, <1>5, <1>6, <1>7, <1>9, <1>10, <1>11 DEF Holds

LEMMA AllClosed ==
  ASSUME LirTypes, source \in Sources, Book, func_stack = << >>, NEW f \in Funcs, functions[f].has_definition
  PROVE  /\ functions[f].body = source.body[f] /\ Named(functions[f].locals) = source.locals[f]
         /\ functions[f].locals \in Seq(Only(Items, "decl"))
         /\ source.locals[f] \in Seq(Variables) /\ Injective(source.locals[f])
         /\ symbols.funcs[f] = Range(source.locals[f])
<1>1. f \in source.defined /\ \A i \in 1 .. Len(func_stack) : func_stack[i] # f
  BY DEF Book
<1>2. Closed(f) /\ symbols.funcs[f] = Range(source.locals[f])
  BY <1>1 DEF Book
<1>3. f \in Owners
  BY DEF Owners
<1>4. Injective(source.locals[f])
  BY <1>3 DEF Book
<1>5. source.locals[f] \in Seq(Variables)
  BY <1>3 DEF Sources
<1>6. functions[f].locals \in Seq(Only(Items, "decl"))
  BY DEF LirTypes, FunctionNodes
<1> QED
  BY <1>2, <1>4, <1>5, <1>6 DEF Closed

LEMMA EndShows ==
  ASSUME StackInv, Goes, ctxt = << >>, LExitProgram,
         source' = [source EXCEPT !.body[NoFunc] = Append(@, Item("return", 0))]
  PROVE  /\ SourceOrderKept' /\ StorageWhereDeclared'
         /\ LirTypes' /\ source' \in Sources /\ Len(queue_stack') = Depth'
<1>1. Calm /\ InStep /\ LirTypes /\ source \in Sources
  BY GoesHas
<1>2. PICK v : v = Drained(NewVisit(<< >>), current_q)
  OBVIOUS
<1>3. /\ func_stack = << >> /\ Book /\ v \in Parts
      /\ source.body[NoFunc] = v.own /\ source.locals[NoFunc] = Named(v.decls)
      /\ source.funcs = Named(v.funcs)
  BY <1>1, <1>2, EndKnows
<1>4. PICK end \in Only(Items, "item") : end = Item("return", 0)
  <2>1. "return" \in Brackets
    BY DEF Brackets
  <2> QED
    BY <2>1, OneItem
<1>5. /\ prog' = [done |-> TRUE, functions |-> v.funcs, globals |-> v.decls, progitems |-> Append(v.own, end)]
      /\ current_q' = << >>
      /\ UNCHANGED << queue_stack, visits, func_stack, symbols, functions >>
  BY <1>2, <1>4 DEF LExitProgram
<1>6. /\ prog'.functions = v.funcs /\ prog'.globals = v.decls /\ prog'.progitems = Append(v.own, end)
  BY <1>5
<1>7. /\ v.funcs \in Seq(Only(Items, "func")) /\ v.decls \in Seq(Only(Items, "decl"))
      /\ v.own \in Seq(Only(Items, "item")) /\ Append(v.own, end) \in Seq(Only(Items, "item"))
  <2>1. /\ v.funcs \in Seq(Only(Items, "func")) /\ v.decls \in Seq(Only(Items, "decl"))
        /\ v.own \in Seq(Only(Items, "item"))
    BY <1>3 DEF Parts
  <2> QED
    BY <2>1, Appended
<1>8. NoFunc \in Owners /\ \A f \in Funcs : f \in Owners /\ f # NoFunc
  BY ValidatorAssumption DEF Owners
<1>9. /\ source.body \in [Owners -> Seq(Only(Items, "item"))] /\ source.locals \in [Owners -> Seq(Variables)]
      /\ source.funcs \in Seq(Funcs) /\ source.defined \in SUBSET Funcs /\ source.looped \in SUBSET Variables
      /\ source.count \in Nat
  BY <1>1 DEF Sources
<1>10. source' = [body |-> [source.body EXCEPT ![NoFunc] = Append(v.own, end)], locals |-> source.locals,
                  funcs |-> source.funcs, defined |-> source.defined, looped |-> source.looped,
                  count |-> source.count]
  BY <1>1, <1>3, <1>4 DEF Sources
<1>11. /\ source'.locals = source.locals /\ source'.funcs = source.funcs
       /\ source'.body = [source.body EXCEPT ![NoFunc] = Append(v.own, end)]
  BY <1>10
<1>12. source'.body[NoFunc] = Append(v.own, end) /\ \A f \in Funcs : source'.body[f] = source.body[f]
  BY <1>8, <1>9, <1>11
<1>13. source' \in Sources
  <2>1. PICK b \in [Owners -> Seq(Only(Items, "item"))] : b = [source.body EXCEPT ![NoFunc] = Append(v.own, end)]
    BY <1>7, <1>9, OneReplaced
  <2>2. source' = [body |-> b, locals |-> source.locals, funcs |-> source.funcs, defined |-> source.defined,
                   looped |-> source.looped, count |-> source.count]
    BY <1>10, <2>1
  <2>3. PICK d \in SUBSET Funcs : d = source.defined
    BY <1>9
  <2>4. PICK w \in SUBSET Variables : w = source.looped
    BY <1>9
  <2>5. PICK c \in Nat : c = source.count
    BY <1>9
  <2>6. PICK fs \in Seq(Funcs) : fs = source.funcs
    BY <1>9
  <2>7. PICK ls \in [Owners -> Seq(Variables)] : ls = source.locals
    BY <1>9
  <2>8. source' = [body |-> b, locals |-> ls, funcs |-> fs, defined |-> d, looped |-> w, count |-> c]
    BY <2>2, <2>3, <2>4, <2>5, <2>6, <2>7
  <2> QED
    BY ONLY <2>8, SourceType
<1>14. LirTypes'
  <2>1. prog' \in [done : BOOLEAN, functions : Seq(Only(Items, "func")),
                   globals : Seq(Only(Items, "decl")), progitems : Seq(Only(Items, "item"))]
    BY <1>5, <1>7
  <2>2. current_q' \in Seq(Items)
    BY <1>5
  <2> QED
    BY <1>1, <1>5, <2>1, <2>2 DEF LirTypes
<1>15. Len(queue_stack') = Depth'
  BY <1>1, <1>5 DEF Calm, Depth
<1>16. SourceOrderKept'
  <2>1. ASSUME NEW f \in Funcs, functions'[f].has_definition
        PROVE  functions'[f].body = source'.body[f] /\ Named(functions'[f].locals) = source'.locals[f]
    BY <1>1, <1>3, <1>5, <1>11, <1>12, <2>1, AllClosed
  <2>2. /\ Named(prog'.functions) = source'.funcs /\ Named(prog'.globals) = source'.locals[NoFunc]
        /\ prog'.progitems = source'.body[NoFunc]
    BY <1>3, <1>6, <1>11, <1>12
  <2> QED
    BY <2>1, <2>2 DEF SourceOrderKept, Defined, Named
<1>17. StorageWhereDeclared'
  <2>1. ASSUME NEW f \in LFuncs, functions'[f].has_definition
        PROVE  /\ Vars(functions'[f].locals) = symbols'.funcs[f]
               /\ Len(functions'[f].locals) = Cardinality(symbols'.funcs[f])
    <3>1. f \in Funcs /\ functions' = functions /\ symbols' = symbols
      BY <1>5, LoweringAssumption
    <3>2. /\ Named(functions[f].locals) = source.locals[f]
          /\ functions[f].locals \in Seq(Only(Items, "decl"))
          /\ source.locals[f] \in Seq(Variables) /\ Injective(source.locals[f])
          /\ symbols.funcs[f] = Range(source.locals[f])
      BY <1>1, <1>3, <2>1, <3>1, AllClosed
    <3>3. /\ Vars(functions[f].locals) = Range(source.locals[f])
          /\ Len(functions[f].locals) = Cardinality(Range(source.locals[f]))
      BY <3>2, VarsAre
    <3> QED
      BY <3>1, <3>2, <3>3
  <2>2. Vars(v.decls) = symbols.globals /\ Len(v.decls) = Cardinality(symbols.globals)
    <3>1. /\ symbols.globals = Range(source.locals[NoFunc]) /\ Injective(source.locals[NoFunc])
          /\ source.locals[NoFunc] \in Seq(Variables)
      BY <1>3, <1>8, <1>9 DEF Book
    <3>2. Vars(v.decls) = Range(source.locals[NoFunc]) /\ Len(v.decls) = Cardinality(Range(source.locals[NoFunc]))
      BY <1>3, <1>7, <3>1, VarsAre
    <3> QED
      BY <3>1, <3>2
  <2> QED
    BY <1>5, <1>6, <2>1, <2>2 DEF StorageWhereDeclared
<1> QED
  BY <1>13, <1>14, <1>15, <1>16, <1>17


(***************************************************************************)
(* The invariant: the types; that the queues are as deep as the visits; and *)
(* while no error has been found, that what the visits have hoisted is what *)
(* the source has                                                          *)
(***************************************************************************)

Inv ==
  /\ ValInv /\ LirTypes /\ source \in Sources /\ Len(queue_stack) = Depth
  /\ prog.done => validated
  /\ ~errors /\ ~validated => Goes
  /\ SourceOrderKept /\ StorageWhereDeclared

LEMMA InitTypes ==
  ASSUME Init
  PROVE  ValInv /\ LirTypes /\ source \in Sources
<1>1. StackInv
  <2>1. << >> \in Seq(Nodes) /\ << >> \in Seq(Trackers) /\ Len(<< >>) = 0
    OBVIOUS
  <2>2. Alternates(<< >>)
    BY <2>1 DEF Alternates
  <2>3. SwitchNodes(<< >>) = {}
    BY <2>1 DEF SwitchNodes
  <2>4. Len(switches) = Cardinality(SwitchNodes(ctxt))
    BY <2>1, <2>3, FS_EmptySet DEF Init, VInit
  <2> QED
    BY <2>1, <2>2, <2>4 DEF Init, VInit, StackInv, TrackersInStep, SwitchNodes
<1>2. ValInv
  BY <1>1 DEF Init, VInit, ValInv
<1>3. LirTypes
  <2>1. LFuncs = Funcs
    BY LoweringAssumption
  <2>2. NoFunction \in FunctionNodes
    BY DEF NoFunction, FunctionNodes
  <2>3. functions \in [Funcs -> FunctionNodes]
    BY <2>1, <2>2 DEF Init, LInit
  <2>4. symbols \in [funcs : [Funcs -> SUBSET Variables], globals : SUBSET Variables]
    BY <2>1 DEF Init, LInit
  <2>5. prog \in [done : BOOLEAN, functions : Seq(Only(Items, "func")),
                  globals : Seq(Only(Items, "decl")), progitems : Seq(Only(Items, "item"))]
    BY DEF Init, LInit
  <2>6. /\ current_q \in Seq(Items) /\ queue_stack \in Seq(Seq(Items))
        /\ visits \in Seq(Parts) /\ func_stack \in Seq(Funcs)
    BY DEF Init, LInit
  <2> QED
    BY <2>3, <2>4, <2>5, <2>6 DEF LirTypes
<1>4. source \in Sources
  BY DEF Init, Sources
<1> QED
  BY <1>2, <1>3, <1>4

LEMMA InitSync ==
  ASSUME Init
  PROVE  InStep
<1>1. PICK v : v = NewVisit(<< >>)
  OBVIOUS
<1>2. /\ v \in Parts /\ v.own = << >> /\ v.decls = << >> /\ v.funcs = << >>
      /\ Named(v.decls) = << >> /\ Named(v.funcs) = << >>
  <2>1. << >> \in Seq(Only(Items, "item"))
    OBVIOUS
  <2> QED
    BY <1>1, <2>1, NewVisitIs
<1>3. /\ current_q = << >> /\ visits = << >> /\ func_stack = << >>
      /\ symbols = [funcs |-> [f \in Funcs |-> {}], globals |-> {}]
      /\ functions = [f \in Funcs |-> NoFunction]
      /\ source = [body |-> [f \in Owners |-> << >>], locals |-> [f \in Owners |-> << >>],
                   funcs |-> << >>, defined |-> {}, looped |-> {}, count |-> 0]
  BY LoweringAssumption DEF Init, LInit
<1>4. Depth = 0
  BY <1>3 DEF Depth
<1>5. PICK t \in [0 .. 0 -> Parts] : t[0] = v
  <2>1. [j \in 0 .. 0 |-> v] \in [0 .. 0 -> Parts] /\ [j \in 0 .. 0 |-> v][0] = v
    BY <1>2
  <2> QED
    BY <2>1
<1>6. PICK n \in [0 .. 0 -> Nat] : n[0] = 0
  <2>1. [j \in 0 .. 0 |-> 0] \in [0 .. 0 -> Nat] /\ [j \in 0 .. 0 |-> 0][0] = 0
    OBVIOUS
  <2> QED
    BY <2>1
<1>7. Ledger(t)
  <2>1. Content(0) = Drained(NewVisit(<< >>), << >>)
    BY <1>3, <1>4 DEF Content
  <2>2. Content(0) = v
    BY <1>1, <1>2, <2>1, DrainedIs, SortedNothing, PlusNothing
  <2> QED
    BY <1>4, <1>5, <2>2 DEF Ledger
<1>8. Levels(n)
  BY <1>3, <1>4, <1>6 DEF Levels
<1>9. NoFunc \in Owners /\ Funcs \subseteq Owners
  BY DEF Owners
<1>10. Matches(t, n)
  <2>1. Holds(NoFunc, t[0])
    BY <1>2, <1>3, <1>5, <1>9 DEF Holds
  <2>2. source.funcs = Named(t[0].funcs)
    BY <1>2, <1>3, <1>5
  <2> QED
    BY <1>4, <1>6, <2>1, <2>2 DEF Matches, Owner
<1>11. Book
  <2>1. Range(<< >>) = {} /\ Injective(<< >>) /\ Len(<< >>) = 0
    BY DEF Range, Injective
  <2>2. ~NoFunction.made /\ ~NoFunction.has_definition
    BY DEF NoFunction
  <2>3. \A f \in Funcs : functions[f] = NoFunction /\ symbols.funcs[f] = {}
    BY <1>3
  <2>4. \A o \in Owners : source.body[o] = << >> /\ source.locals[o] = << >>
    BY <1>3
  <2>5. symbols.globals = {} /\ source.funcs = << >> /\ source.defined = {}
    BY <1>3
  <2> QED
    BY <1>3, <1>9, <2>1, <2>2, <2>3, <2>4, <2>5 DEF Book
<1>12. Sync(t, n)
  BY <1>7, <1>8, <1>10, <1>11 DEF Sync
<1> QED
  BY <1>4, <1>5, <1>6, <1>12 DEF InStep


LEMMA InitInv ==
  ASSUME Init
  PROVE  Inv
<1>1. ValInv /\ LirTypes /\ source \in Sources
  BY InitTypes
<1>2. /\ ctxt = << >> /\ queue_stack = << >> /\ visits = << >> /\ ~prog.done
  BY DEF Init, VInit, LInit
<1>3. Depth = 0 /\ Len(queue_stack) = 0 /\ Len(ctxt) = 2 * Depth
  BY <1>2 DEF Depth
<1>4. InStep
  BY InitSync
<1>5. Goes
  BY <1>1, <1>3, <1>4 DEF Goes
<1>6. SourceOrderKept /\ StorageWhereDeclared
  BY <1>2 DEF SourceOrderKept, StorageWhereDeclared
<1> QED
  BY <1>1, <1>2, <1>3, <1>5, <1>6 DEF Inv

LEMMA CountChanges ==
  ASSUME source \in Sources, NEW c \in Nat, source' = [source EXCEPT !.count = c]
  PROVE  source' \in Sources
<1> DEFINE s == source
<1>1. /\ s.body \in [Owners -> Seq(Only(Items, "item"))] /\ s.locals \in [Owners -> Seq(Variables)]
      /\ s.funcs \in Seq(Funcs) /\ s.defined \in SUBSET Funcs /\ s.looped \in SUBSET Variables
  BY DEF Sources
<1>2. source' = [body |-> s.body, locals |-> s.locals, funcs |-> s.funcs, defined |-> s.defined,
                 looped |-> s.looped, count |-> c]
  BY DEF Sources
<1> HIDE DEF s
<1> QED
  BY ONLY <1>1, <1>2, SourceType, c \in Nat

\* A step of the walk once there is an error.
LEMMA QuitsKeeps ==
  ASSUME Inv, ValInv', ~validated, Quits
  PROVE  Inv'
<1>1. source' \in Sources
  BY CountChanges DEF Quits, Inv
<1>2. LirTypes' /\ Len(queue_stack') = Depth' /\ prog' = prog
  BY DEF Quits, lvars, Inv, LirTypes, Depth
<1>3. ~prog'.done
  BY <1>2 DEF Inv
<1>4. SourceOrderKept' /\ StorageWhereDeclared'
  BY <1>3 DEF SourceOrderKept, StorageWhereDeclared
<1> QED
  BY <1>1, <1>2, <1>3, <1>4 DEF Inv, Quits

LEMMA ContinuesKeeps ==
  ASSUME Inv, ValInv', ~validated, Continues
  PROVE  Inv'
<1>1. ~prog'.done
  BY DEF Continues, Inv
<1>2. SourceOrderKept' /\ StorageWhereDeclared'
  BY <1>1 DEF SourceOrderKept, StorageWhereDeclared
<1>3. LirTypes' /\ (source \in Sources)' /\ Len(queue_stack') = Depth' /\ Goes'
  BY DEF Continues, Goes
<1> QED
  BY <1>1, <1>2, <1>3 DEF Inv

LEMMA EndKeeps ==
  ASSUME Inv, ValInv', ExitProgram
  PROVE  Inv'
<1>1. ctxt = << >> /\ ~validated /\ validated' /\ (~errors' => ~errors)
  BY DEF ExitProgram, VExitProgram, Walking
<1> DEFINE s == [source EXCEPT !.body[NoFunc] = Append(@, Item("return", 0))]
<1>2. Lowered(LExitProgram, s)
  BY DEF ExitProgram
<1>3. CASE errors'
  <2>1. /\ UNCHANGED lvars
        /\ source' = [source EXCEPT !.count = s.count]
    BY <1>2, <1>3 DEF Lowered
  <2>2. s.count = source.count /\ source.count \in Nat
    BY DEF Inv, Sources
  <2>3. Quits
    BY <1>3, <2>1, <2>2 DEF Quits
  <2> QED
    BY <1>1, <2>3, QuitsKeeps
<1>4. CASE ~errors'
  <2>1. LExitProgram /\ source' = s
    BY <1>2, <1>4 DEF Lowered
  <2>2. StackInv /\ Goes
    BY <1>1, <1>4 DEF Inv, ValInv
  <2>3. /\ SourceOrderKept' /\ StorageWhereDeclared' /\ LirTypes' /\ (source \in Sources)'
        /\ Len(queue_stack') = Depth'
    BY <1>1, <2>1, <2>2, EndShows
  <2> QED
    BY <1>1, <2>3 DEF Inv
<1> QED
  BY <1>3, <1>4

LEMMA InvStep ==
  ASSUME Inv, [Next]_vars
  PROVE  Inv'
<1>1. CASE UNCHANGED vars
  <2> USE <1>1 DEF vars, vvars, lvars
  <2>1. ValInv'
    BY DEF Inv, ValInv, StackInv, Alternates, TrackersInStep
  <2>2. LirTypes' /\ (source \in Sources)' /\ Len(queue_stack') = Depth' /\ Depth' = Depth
    BY DEF Inv, LirTypes, Depth
  <2>3. ASSUME NEW t, Ledger(t) PROVE Ledger(t)'
    BY <2>2, <2>3 DEF Ledger, Content, Opens
  <2>4. ASSUME NEW n, Levels(n) PROVE Levels(n)'
    BY <2>2, <2>4 DEF Levels, Opens, HeadOf
  <2>5. ASSUME NEW t, NEW n, Matches(t, n) PROVE Matches(t, n)'
    BY <2>2, <2>5 DEF Matches, Opens, Holds, Owner
  <2>6. Book => Book'
    BY DEF Book, Closed
  <2>7. InStep => InStep'
    BY <2>2, <2>3, <2>4, <2>5, <2>6 DEF InStep, Sync
  <2>8. Goes => Goes'
    BY <2>2, <2>7 DEF Goes
  <2>9. /\ functions' = functions /\ prog' = prog /\ source' = source /\ symbols' = symbols
        /\ SourceOrderKept /\ StorageWhereDeclared
    BY DEF Inv
  <2>10. SourceOrderKept'
    BY ONLY <2>9 DEF SourceOrderKept, Defined
  <2>11. StorageWhereDeclared'
    BY ONLY <2>9 DEF StorageWhereDeclared
  <2> QED
    BY <2>1, <2>2, <2>8, <2>10, <2>11 DEF Inv
<1>2. CASE Next
  <2>1. ValInv /\ ValInv'
    BY <1>2, VisitSteps, VStepKeeps DEF Inv
  <2>2. Going
    BY DEF Going, Inv, ValInv
  <2>3. CASE Moves
    BY <2>1, <2>3, QuitsKeeps, ContinuesKeeps DEF Moves
  <2>4. CASE ExitProgram
    BY <2>1, <2>4, EndKeeps
  <2>5. CASE Finished
    BY <1>1, <2>5 DEF Finished
  <2> QED
    BY <1>2, <2>2, <2>3, <2>4, <2>5, NextMoves
<1> QED
  BY <1>1, <1>2

LEMMA InvAlways == Spec => []Inv
<1>1. Init => Inv
  BY InitInv
<1>2. Inv /\ [Next]_vars => Inv'
  BY InvStep
<1> QED
  BY <1>1, <1>2, PTL DEF Spec


LEMMA NodesTyped ==
  ASSUME Inv
  PROVE  TypeOK
<1>1. ValidatorTypeOK
  <2>1. ctxt \in Seq(Nodes) /\ switches \in Seq(Trackers)
    BY DEF Inv, ValInv, StackInv
  <2>2. \A i \in 1 .. Len(ctxt) : ctxt[i] \in Nodes
    BY <2>1
  <2>3. \A i \in 1 .. Len(switches) : switches[i] \in Trackers
    BY <2>1
  <2> QED
    BY <2>2, <2>3 DEF Inv, ValInv, Nodes, Trackers, Owners, ValidatorTypeOK
<1>2. LIRTypeOK
  <2>1. LirTypes /\ Len(visits) = Len(queue_stack)
    BY DEF Inv, Depth
  <2>2. \A i \in 1 .. Len(current_q) : current_q[i] \in Items
    BY <2>1 DEF LirTypes
  <2>3. \A i \in 1 .. Len(current_q) : DOMAIN current_q[i] = {"k", "x"}
    BY <2>2 DEF Items
  <2>4. \A i \in 1 .. Len(func_stack) : func_stack[i] \in LFuncs
    BY <2>1, LoweringAssumption DEF LirTypes
  <2>5. \A f \in LFuncs : DOMAIN functions[f] = DOMAIN NoFunction
    <3>1. \A f \in LFuncs : functions[f] \in FunctionNodes
      BY <2>1, LoweringAssumption DEF LirTypes
    <3> QED
      BY <3>1 DEF FunctionNodes, NoFunction
  <2>6. prog.done \in BOOLEAN
    BY <2>1 DEF LirTypes
  <2> QED
    BY <2>1, <2>3, <2>4, <2>5, <2>6 DEF LIRTypeOK
<1> QED
  BY <1>1, <1>2 DEF TypeOK

(***************************************************************************)
(* Whatever the program, and wherever its errors are                       *)
(***************************************************************************)

\* However functions, statements and errors nest, the context stack of the
\* Validator and the queues of the LIRSynthesizer keep their nodes, the queues
\* are as many as the visits in progress, and switches, pushed and popped by
\* hand (lib/semantics/validator.cpp:519), holds one tracker for each switch
\* being visited: a case is never held against the cases of another switch.
THEOREM VisitsAgree == Spec => []VisitsInStep
<1>1. Inv => VisitsInStep
  BY NodesTyped DEF Inv, ValInv, StackInv, VisitsInStep
<1> QED
  BY <1>1, InvAlways, PTL

\* The queues of the LIRSynthesizer lose, repeat and reorder nothing
\* (lib/lowering/lir/synthesizer.cpp:397-470, 541-842): once a program has
\* been lowered, the body of every function it defines is its statements in
\* the order of the source, without those of the functions nested in it; its
\* locals are its parameters and its variables in the order of their
\* declarations, wherever in it they stood; and the functions of the program
\* are those the source names, each once, in the order it names them.
THEOREM OrderKept == Spec => []SourceOrderKept
<1>1. Inv => SourceOrderKept
  BY DEF Inv
<1> QED
  BY <1>1, InvAlways, PTL

\* The two ways a variable takes, its declaration through the queues and its
\* symbol through func_stack (insert_varsym), end at the same function: the
\* locals of a function, and the globals, are the variables that its map
\* of symbols has, and each is declared once.
THEOREM StorageKept == Spec => []StorageWhereDeclared
<1>1. Inv => StorageWhereDeclared
  BY DEF Inv
<1> QED
  BY <1>1, InvAlways, PTL

(***************************************************************************)
(* The brackets of a body: where a position of it lies is found by counting *)
(* what opens and what ends between                                        *)
(***************************************************************************)

Openers == {"if", "loop", "switch"}
Leavable == {"loop", "switch"}
Opened(b, j, n) == {m \in j .. n : b[m].k \in {"if", "loop", "switch"}}
Ended(b, j, n) == {m \in j .. n : b[m].k = "end"}
More(b, j, n) == Cardinality(Opened(b, j, n)) > Cardinality(Ended(b, j, n))
PlainFrom(c, l, i) == \A m \in l + 1 .. i : c[m].k \notin Openers \cup {"end"}

\* c begins as b does, up to before position i.
Begins(b, c, i) == \A m \in 1 .. i - 1 : c[m] = b[m]

LEMMA AroundIs ==
  ASSUME NEW b, NEW i, NEW kinds, NEW j
  PROVE  j \in Around(b, i, kinds) <=>
           /\ j \in 1 .. i - 1 /\ b[j].k \in kinds
           /\ \A n \in j .. i - 1 : More(b, j, n)
BY DEF Around, More, Opened, Ended

LEMMA CountsAre ==
  ASSUME NEW b, NEW j \in Nat, NEW n \in Nat
  PROVE  /\ IsFiniteSet(Opened(b, j, n)) /\ Cardinality(Opened(b, j, n)) \in Nat
         /\ IsFiniteSet(Ended(b, j, n)) /\ Cardinality(Ended(b, j, n)) \in Nat
<1>1. IsFiniteSet(j .. n)
  BY FS_Interval
<1>2. Opened(b, j, n) \subseteq j .. n /\ Ended(b, j, n) \subseteq j .. n
  BY DEF Opened, Ended
<1> QED
  BY <1>1, <1>2, FS_Subset, FS_CardinalityType

LEMMA CountsSame ==
  ASSUME NEW b, NEW c, NEW i \in Nat, Begins(b, c, i), NEW j \in 1 .. i - 1, NEW n \in j .. i - 1
  PROVE  Opened(c, j, n) = Opened(b, j, n) /\ Ended(c, j, n) = Ended(b, j, n)
<1>1. \A m \in j .. n : c[m] = b[m]
  BY DEF Begins
<1> QED
  BY <1>1 DEF Opened, Ended

\* What lies around a position depends on what is before it.
LEMMA AroundBegins ==
  ASSUME NEW b, NEW c, NEW i \in Nat, Begins(b, c, i), NEW kinds
  PROVE  Around(c, i, kinds) = Around(b, i, kinds)
<1>1. ASSUME NEW j \in 1 .. i - 1
      PROVE  j \in Around(c, i, kinds) <=> j \in Around(b, i, kinds)
  <2>1. \A n \in j .. i - 1 : More(c, j, n) <=> More(b, j, n)
    BY CountsSame DEF More
  <2>2. c[j] = b[j]
    BY DEF Begins
  <2> QED
    BY <2>1, <2>2, AroundIs
<1> QED
  BY <1>1, AroundIs

\* Items that neither open nor end anything.
LEMMA CountsPlain ==
  ASSUME NEW b, NEW c, NEW l \in Nat, NEW i \in Nat, l <= i, Begins(b, c, l + 1),
         PlainFrom(c, l, i),
         NEW j \in 1 .. l
  PROVE  Opened(c, j, i) = Opened(b, j, l) /\ Ended(c, j, i) = Ended(b, j, l)
<1>1. \A m \in j .. i : IF m <= l THEN m \in j .. l /\ c[m] = b[m]
                                  ELSE c[m].k \notin Openers \cup {"end"}
  BY DEF Begins, PlainFrom
<1>2. \A m \in j .. l : m \in j .. i
  OBVIOUS
<1>3. \A m : m \in Opened(c, j, i) <=> m \in Opened(b, j, l)
  BY <1>1, <1>2 DEF Opened, Openers
<1>4. \A m : m \in Ended(c, j, i) <=> m \in Ended(b, j, l)
  BY <1>1, <1>2 DEF Ended
<1> QED
  BY <1>3, <1>4

LEMMA AroundPlain ==
  ASSUME NEW b, NEW c, NEW l \in Nat, NEW i \in Nat, l <= i, Begins(b, c, l + 1),
         PlainFrom(c, l, i), NEW kinds
  PROVE  Around(c, i + 1, kinds) = Around(b, l + 1, kinds)
<1>1. ASSUME NEW j \in Around(c, i + 1, kinds)
      PROVE  j \in Around(b, l + 1, kinds)
  <2>1. j \in 1 .. i /\ c[j].k \in kinds /\ \A n \in j .. i : More(c, j, n)
    BY <1>1, AroundIs
  <2>2. j <= l
    <3> SUFFICES ASSUME j > l PROVE FALSE
      BY <2>1
    <3>1. c[j].k \notin Openers \cup {"end"} /\ j \in j .. j /\ j \in j .. i /\ j \in Nat
      BY <2>1 DEF PlainFrom
    <3>2. Opened(c, j, j) = {}
      BY <3>1 DEF Opened, Openers
    <3>3. Cardinality(Opened(c, j, j)) = 0 /\ Cardinality(Ended(c, j, j)) \in Nat
      BY <3>1, <3>2, FS_EmptySet, CountsAre
    <3> QED
      BY <2>1, <3>1, <3>3 DEF More
  <2>3. \A n \in j .. l : More(b, j, n)
    <3> TAKE n \in j .. l
    <3>1. l + 1 \in Nat /\ j \in 1 .. (l + 1) - 1 /\ n \in j .. (l + 1) - 1 /\ n \in j .. i
      BY <2>1, <2>2
    <3>2. Opened(c, j, n) = Opened(b, j, n) /\ Ended(c, j, n) = Ended(b, j, n)
      BY <3>1, CountsSame
    <3> QED
      BY <2>1, <3>1, <3>2 DEF More
  <2>4. c[j] = b[j] /\ j \in 1 .. (l + 1) - 1 /\ (l + 1) - 1 = l
    BY <2>1, <2>2 DEF Begins
  <2> QED
    BY <2>1, <2>3, <2>4, AroundIs
<1>2. ASSUME NEW j \in Around(b, l + 1, kinds)
      PROVE  j \in Around(c, i + 1, kinds)
  <2>1. j \in 1 .. l /\ b[j].k \in kinds /\ \A n \in j .. l : More(b, j, n)
    <3>1. (l + 1) - 1 = l
      OBVIOUS
    <3> QED
      BY <1>2, <3>1, AroundIs
  <2>2. \A n \in j .. i : More(c, j, n)
    <3> TAKE n \in j .. i
    <3>1. CASE n <= l
      <4>1. l + 1 \in Nat /\ j \in 1 .. (l + 1) - 1 /\ n \in j .. (l + 1) - 1 /\ n \in j .. l
        BY <2>1, <3>1
      <4>2. Opened(c, j, n) = Opened(b, j, n) /\ Ended(c, j, n) = Ended(b, j, n)
        BY <4>1, CountsSame
      <4> QED
        BY <2>1, <4>1, <4>2 DEF More
    <3>2. CASE ~(n <= l)
      <4>1. n \in Nat /\ l <= n /\ l \in j .. l /\ PlainFrom(c, l, n)
        BY <2>1, <3>2 DEF PlainFrom
      <4>2. Opened(c, j, n) = Opened(b, j, l) /\ Ended(c, j, n) = Ended(b, j, l)
        BY <2>1, <4>1, CountsPlain
      <4> QED
        BY <2>1, <4>1, <4>2 DEF More
    <3> QED
      BY <3>1, <3>2
  <2>3. c[j] = b[j] /\ j \in 1 .. (i + 1) - 1 /\ (i + 1) - 1 = i
    BY <2>1 DEF Begins
  <2> QED
    BY <2>1, <2>2, <2>3, AroundIs
<1> QED
  BY <1>1, <1>2

\* One item that opens, or ends, something.
LEMMA CountsOne ==
  ASSUME NEW b, NEW c, NEW l \in Nat, Begins(b, c, l + 1), NEW j \in 1 .. l
  PROVE  /\ c[l + 1].k \in Openers =>
              /\ Cardinality(Opened(c, j, l + 1)) = Cardinality(Opened(b, j, l)) + 1
              /\ Cardinality(Ended(c, j, l + 1)) = Cardinality(Ended(b, j, l))
         /\ c[l + 1].k = "end" =>
              /\ Cardinality(Opened(c, j, l + 1)) = Cardinality(Opened(b, j, l))
              /\ Cardinality(Ended(c, j, l + 1)) = Cardinality(Ended(b, j, l)) + 1
<1>1. \A m : m \in j .. l + 1 <=> m \in j .. l \/ m = l + 1
  OBVIOUS
<1>2. \A m \in j .. l : c[m] = b[m]
  BY DEF Begins
<1>3. l + 1 \notin Opened(b, j, l) /\ l + 1 \notin Ended(b, j, l)
  BY DEF Opened, Ended
<1>4. /\ IsFiniteSet(Opened(b, j, l)) /\ IsFiniteSet(Ended(b, j, l))
  BY CountsAre
<1>5. ASSUME c[l + 1].k \in Openers
      PROVE  Opened(c, j, l + 1) = Opened(b, j, l) \cup {l + 1} /\ Ended(c, j, l + 1) = Ended(b, j, l)
  BY <1>1, <1>2, <1>5 DEF Opened, Ended, Openers
<1>6. ASSUME c[l + 1].k = "end"
      PROVE  Opened(c, j, l + 1) = Opened(b, j, l) /\ Ended(c, j, l + 1) = Ended(b, j, l) \cup {l + 1}
  BY <1>1, <1>2, <1>6 DEF Opened, Ended, Openers
<1>7. /\ Cardinality(Opened(b, j, l) \cup {l + 1}) = Cardinality(Opened(b, j, l)) + 1
      /\ Cardinality(Ended(b, j, l) \cup {l + 1}) = Cardinality(Ended(b, j, l)) + 1
  BY <1>3, <1>4, FS_AddElement
<1> QED
  BY <1>5, <1>6, <1>7

\* What is around position l + 1 before and after an item stands there.
LEMMA AroundOne ==
  ASSUME NEW b, NEW c, NEW l \in Nat, Begins(b, c, l + 1), NEW kinds, NEW j \in 1 .. l
  PROVE  j \in Around(c, l + 2, kinds) <=> j \in Around(b, l + 1, kinds) /\ More(c, j, l + 1)
<1>1. (l + 2) - 1 = l + 1 /\ (l + 1) - 1 = l /\ j \in 1 .. l + 1
  OBVIOUS
<1>2. \A n : n \in j .. l + 1 <=> n \in j .. l \/ n = l + 1
  OBVIOUS
<1>3. \A n \in j .. l : More(c, j, n) <=> More(b, j, n)
  <2> TAKE n \in j .. l
  <2>1. l + 1 \in Nat /\ j \in 1 .. (l + 1) - 1 /\ n \in j .. (l + 1) - 1
    OBVIOUS
  <2> QED
    BY <2>1, CountsSame DEF More
<1>4. c[j] = b[j]
  BY DEF Begins
<1>5. j \in Around(c, l + 2, kinds) <=> c[j].k \in kinds /\ \A n \in j .. l + 1 : More(c, j, n)
  BY <1>1, AroundIs
<1>6. j \in Around(b, l + 1, kinds) <=> b[j].k \in kinds /\ \A n \in j .. l : More(b, j, n)
  BY <1>1, AroundIs
<1> QED
  BY <1>2, <1>3, <1>4, <1>5, <1>6

LEMMA AroundOpens ==
  ASSUME NEW b, NEW c, NEW l \in Nat, Begins(b, c, l + 1), c[l + 1].k \in Openers, NEW kinds
  PROVE  \A j : j \in Around(c, l + 2, kinds) <=>
                  j \in Around(b, l + 1, kinds) \/ (j = l + 1 /\ c[j].k \in kinds)
<1>1. \A j \in Around(c, l + 2, kinds) : j \in 1 .. l + 1 /\ c[j].k \in kinds
  <2>1. (l + 2) - 1 = l + 1
    OBVIOUS
  <2> QED
    BY <2>1, AroundIs
<1>2. \A j \in Around(b, l + 1, kinds) : j \in 1 .. l /\ More(b, j, l)
  <2>1. (l + 1) - 1 = l /\ \A j \in 1 .. l : l \in j .. l
    OBVIOUS
  <2> QED
    BY <2>1, AroundIs
<1>3. ASSUME NEW j \in 1 .. l
      PROVE  j \in Around(c, l + 2, kinds) <=> j \in Around(b, l + 1, kinds)
  <2>1. /\ Cardinality(Opened(c, j, l + 1)) = Cardinality(Opened(b, j, l)) + 1
        /\ Cardinality(Ended(c, j, l + 1)) = Cardinality(Ended(b, j, l))
    BY CountsOne
  <2>2. Cardinality(Opened(b, j, l)) \in Nat /\ Cardinality(Ended(b, j, l)) \in Nat
    BY CountsAre
  <2>3. More(b, j, l) => More(c, j, l + 1)
    BY <2>1, <2>2 DEF More
  <2> QED
    BY <1>2, <2>3, AroundOne
<1>4. l + 1 \in Around(c, l + 2, kinds) <=> c[l + 1].k \in kinds
  <2>1. (l + 2) - 1 = l + 1 /\ l + 1 \in 1 .. l + 1 /\ l + 1 \in Nat
        /\ \A n : n \in l + 1 .. l + 1 <=> n = l + 1
    OBVIOUS
  <2>2. Opened(c, l + 1, l + 1) = {l + 1} /\ Ended(c, l + 1, l + 1) = {}
    BY <2>1 DEF Opened, Ended, Openers
  <2>3. Cardinality(Opened(c, l + 1, l + 1)) = 1 /\ Cardinality(Ended(c, l + 1, l + 1)) = 0
    BY <2>2, FS_EmptySet, FS_Singleton
  <2>4. More(c, l + 1, l + 1)
    BY <2>3 DEF More
  <2> QED
    BY <2>1, <2>4, AroundIs
<1>5. \A j : j \in 1 .. l + 1 <=> j \in 1 .. l \/ j = l + 1
  OBVIOUS
<1> QED
  BY <1>1, <1>2, <1>3, <1>4, <1>5

LEMMA AroundEnds ==
  ASSUME NEW b, NEW c, NEW l \in Nat, Begins(b, c, l + 1), c[l + 1].k = "end", NEW kinds
  PROVE  \A j : j \in Around(c, l + 2, kinds) <=>
                  /\ j \in Around(b, l + 1, kinds)
                  /\ Cardinality(Opened(b, j, l)) # Cardinality(Ended(b, j, l)) + 1
<1>1. \A j \in Around(c, l + 2, kinds) : j \in 1 .. l + 1 /\ More(c, j, l + 1)
  <2>1. (l + 2) - 1 = l + 1 /\ \A j \in 1 .. l + 1 : l + 1 \in j .. l + 1
    OBVIOUS
  <2> QED
    BY <2>1, AroundIs
<1>2. \A j \in Around(b, l + 1, kinds) : j \in 1 .. l /\ More(b, j, l)
  <2>1. (l + 1) - 1 = l /\ \A j \in 1 .. l : l \in j .. l
    OBVIOUS
  <2> QED
    BY <2>1, AroundIs
<1>3. ASSUME NEW j \in 1 .. l
      PROVE  j \in Around(c, l + 2, kinds) <=>
               /\ j \in Around(b, l + 1, kinds)
               /\ Cardinality(Opened(b, j, l)) # Cardinality(Ended(b, j, l)) + 1
  <2>1. /\ Cardinality(Opened(c, j, l + 1)) = Cardinality(Opened(b, j, l))
        /\ Cardinality(Ended(c, j, l + 1)) = Cardinality(Ended(b, j, l)) + 1
    BY CountsOne
  <2>2. Cardinality(Opened(b, j, l)) \in Nat /\ Cardinality(Ended(b, j, l)) \in Nat
    BY CountsAre
  <2>3. More(b, j, l) => (More(c, j, l + 1)
                            <=> Cardinality(Opened(b, j, l)) # Cardinality(Ended(b, j, l)) + 1)
    BY <2>1, <2>2 DEF More
  <2> QED
    BY <1>2, <2>3, AroundOne
<1>4. ~More(c, l + 1, l + 1)
  <2>1. l + 1 \in Nat /\ \A n : n \in l + 1 .. l + 1 <=> n = l + 1
    OBVIOUS
  <2>2. Opened(c, l + 1, l + 1) = {}
    BY <2>1 DEF Opened, Openers
  <2>3. Cardinality(Opened(c, l + 1, l + 1)) = 0 /\ Cardinality(Ended(c, l + 1, l + 1)) \in Nat
    BY <2>1, <2>2, FS_EmptySet, CountsAre
  <2> QED
    BY <2>3 DEF More
<1>5. \A j : j \in 1 .. l + 1 <=> j \in 1 .. l \/ j = l + 1
  OBVIOUS
<1> QED
  BY <1>1, <1>2, <1>3, <1>4, <1>5

(***************************************************************************)
(* The statements being visited, and the brackets that stand for them      *)
(***************************************************************************)

\* s2 is s and one more, e.
Grown(s, s2, e) ==
  /\ Len(s2) = Len(s) + 1 /\ s2[Len(s) + 1] = e
  /\ \A i \in 1 .. Len(s) : s2[i] = s[i]

\* c is b and one item more, of kind k.
OneAfter(b, c, k) == Len(c) = Len(b) + 1 /\ Begins(b, c, Len(b) + 1) /\ c[Len(b) + 1].k = k

\* p2 is p and the position of what stands behind b.
Pointed(b, p, p2) == Grown(p, p2, Len(b) + 1)

\* K: the kinds of the statements, the innermost last.
LeavableAt(K) == {l \in 1 .. Len(K) : K[l] \in Leavable}
OpenersFrom(K, l) == {m \in l .. Len(K) : K[m] \in Openers}

\* The loop or switch that is the l-th statement opens at p[l] in b; from there
\* on, so much more is opened than ended as there are brackets from the l-th
\* statement on; nothing else is around the end of b.
Held(b, K, p) ==
  /\ Len(p) = Len(K)
  /\ \A l \in LeavableAt(K) :
       /\ p[l] \in 1 .. Len(b) /\ b[p[l]].k = K[l]
       /\ Cardinality(Opened(b, p[l], Len(b)))
            = Cardinality(Ended(b, p[l], Len(b))) + Cardinality(OpenersFrom(K, l))
       /\ \A m \in LeavableAt(K) : l < m => p[l] < p[m]
  /\ Around(b, Len(b) + 1, Leavable) = {p[l] : l \in LeavableAt(K)}

LEMMA OpenersCount ==
  ASSUME NEW K \in Seq(Kinds), NEW l \in Nat
  PROVE  IsFiniteSet(OpenersFrom(K, l)) /\ Cardinality(OpenersFrom(K, l)) \in Nat
<1>1. Len(K) \in Nat
  OBVIOUS
<1>2. IsFiniteSet(l .. Len(K)) /\ OpenersFrom(K, l) \subseteq l .. Len(K)
  BY <1>1, FS_Interval DEF OpenersFrom
<1> QED
  BY <1>2, FS_Subset, FS_CardinalityType

LEMMA OneStatementMore ==
  ASSUME NEW K \in Seq(Kinds), NEW K2 \in Seq(Kinds), NEW k, Grown(K, K2, k)
  PROVE  /\ LeavableAt(K2) = LeavableAt(K) \cup {l \in {Len(K) + 1} : k \in Leavable}
         /\ \A l \in 1 .. Len(K) :
              Cardinality(OpenersFrom(K2, l)) =
                Cardinality(OpenersFrom(K, l)) + IF k \in Openers THEN 1 ELSE 0
         /\ Cardinality(OpenersFrom(K2, Len(K) + 1)) = IF k \in Openers THEN 1 ELSE 0
<1>1. PICK n \in Nat : n = Len(K) /\ Len(K2) = n + 1
  BY DEF Grown
<1>2. K2[n + 1] = k /\ \A i \in 1 .. n : K2[i] = K[i]
  BY <1>1 DEF Grown
<1>3. \A i : i \in 1 .. n + 1 <=> i \in 1 .. n \/ i = n + 1
  OBVIOUS
<1>4. LeavableAt(K2) = LeavableAt(K) \cup {l \in {n + 1} : k \in Leavable}
  BY <1>1, <1>2, <1>3 DEF LeavableAt
<1>5. ASSUME NEW l \in 1 .. n
      PROVE  Cardinality(OpenersFrom(K2, l)) =
               Cardinality(OpenersFrom(K, l)) + IF k \in Openers THEN 1 ELSE 0
  <2>1. \A i : i \in l .. n + 1 <=> i \in l .. n \/ i = n + 1
    OBVIOUS
  <2>2. \A i \in l .. n : i \in 1 .. n
    OBVIOUS
  <2>3. OpenersFrom(K2, l) = OpenersFrom(K, l) \cup {m \in {n + 1} : k \in Openers}
    BY <1>1, <1>2, <2>1, <2>2 DEF OpenersFrom
  <2>4. IsFiniteSet(OpenersFrom(K, l)) /\ Cardinality(OpenersFrom(K, l)) \in Nat
    <3>1. l \in Nat
      OBVIOUS
    <3> QED
      BY <3>1, OpenersCount
  <2>5. n + 1 \notin OpenersFrom(K, l)
    BY <1>1 DEF OpenersFrom
  <2>6. CASE k \in Openers
    <3>1. OpenersFrom(K2, l) = OpenersFrom(K, l) \cup {n + 1}
      BY <2>3, <2>6
    <3> QED
      BY <2>4, <2>5, <2>6, <3>1, FS_AddElement
  <2>7. CASE k \notin Openers
    <3>1. OpenersFrom(K2, l) = OpenersFrom(K, l)
      BY <2>3, <2>7
    <3> QED
      BY <2>4, <2>7, <3>1
  <2> QED
    BY <2>6, <2>7
<1>6. Cardinality(OpenersFrom(K2, n + 1)) = IF k \in Openers THEN 1 ELSE 0
  <2>1. \A i : i \in n + 1 .. n + 1 <=> i = n + 1
    OBVIOUS
  <2>2. OpenersFrom(K2, n + 1) = {m \in {n + 1} : k \in Openers}
    BY <1>1, <1>2, <2>1 DEF OpenersFrom
  <2>3. CASE k \in Openers
    <3>1. OpenersFrom(K2, n + 1) = {n + 1}
      BY <2>2, <2>3
    <3> QED
      BY <2>3, <3>1, FS_Singleton
  <2>4. CASE k \notin Openers
    <3>1. OpenersFrom(K2, n + 1) = {}
      BY <2>2, <2>4
    <3> QED
      BY <2>4, <3>1, FS_EmptySet
  <2> QED
    BY <2>3, <2>4
<1> QED
  BY <1>1, <1>4, <1>5, <1>6

LEMMA HeldPlain ==
  ASSUME NEW T, NEW b \in Seq(T), NEW c \in Seq(T), NEW K, NEW p, Held(b, K, p),
         Len(b) <= Len(c), Begins(b, c, Len(b) + 1),
         PlainFrom(c, Len(b), Len(c))
  PROVE  Held(c, K, p)
<1>1. PICK n \in Nat, m \in Nat : n = Len(b) /\ m = Len(c) /\ n <= m
  OBVIOUS
<1>2. Begins(b, c, n + 1) /\ PlainFrom(c, n, m)
  BY <1>1
<1>3. Around(c, m + 1, Leavable) = Around(b, n + 1, Leavable)
  BY <1>1, <1>2, AroundPlain
<1>4. ASSUME NEW l \in LeavableAt(K)
      PROVE  /\ p[l] \in 1 .. m /\ c[p[l]].k = K[l]
             /\ Opened(c, p[l], m) = Opened(b, p[l], n) /\ Ended(c, p[l], m) = Ended(b, p[l], n)
  <2>1. p[l] \in 1 .. n /\ b[p[l]].k = K[l]
    BY <1>1 DEF Held
  <2>2. PICK j \in 1 .. n : j = p[l]
    BY <2>1
  <2>3. Opened(c, j, m) = Opened(b, j, n) /\ Ended(c, j, m) = Ended(b, j, n)
    BY <1>1, <1>2, CountsPlain
  <2>4. c[j] = b[j]
    BY <1>2 DEF Begins
  <2> QED
    BY <1>1, <2>1, <2>2, <2>3, <2>4
<1> QED
  BY <1>1, <1>3, <1>4 DEF Held

\* A statement that is no bracket.
LEMMA HeldUnmarked ==
  ASSUME NEW b, NEW K \in Seq(Kinds), NEW K2 \in Seq(Kinds), NEW k, k \notin Openers,
         NEW p, NEW p2, NEW x
  PROVE  /\ Held(b, K, p) /\ Grown(K, K2, k) /\ Grown(p, p2, x) => Held(b, K2, p2)
         /\ Held(b, K2, p2) /\ Grown(K, K2, k) /\ Grown(p, p2, x) /\ Len(p) \in Nat => Held(b, K, p)
<1> SUFFICES ASSUME Grown(K, K2, k), Grown(p, p2, x)
             PROVE  /\ Held(b, K, p) => Held(b, K2, p2)
                    /\ Held(b, K2, p2) /\ Len(p) \in Nat => Held(b, K, p)
  OBVIOUS
<1>1. LeavableAt(K2) = LeavableAt(K) /\ LeavableAt(K) \subseteq 1 .. Len(K)
  BY OneStatementMore DEF LeavableAt, Leavable, Openers
<1>2. \A l \in LeavableAt(K) : K2[l] = K[l]
  BY <1>1 DEF Grown
<1>3. \A l \in LeavableAt(K) : Cardinality(OpenersFrom(K2, l)) = Cardinality(OpenersFrom(K, l))
  <2> TAKE l \in LeavableAt(K)
  <2>1. l \in 1 .. Len(K) /\ l \in Nat
    BY <1>1
  <2>2. Cardinality(OpenersFrom(K2, l)) = Cardinality(OpenersFrom(K, l)) + 0
    BY <2>1, OneStatementMore
  <2>3. Cardinality(OpenersFrom(K, l)) \in Nat
    BY <2>1, OpenersCount
  <2> QED
    BY <2>2, <2>3
<1>4. Len(K) \in Nat /\ Len(K2) = Len(K) + 1 /\ Len(p2) = Len(p) + 1
  BY DEF Grown
<1>5. ASSUME Len(p) = Len(K) PROVE \A l \in LeavableAt(K) : p2[l] = p[l]
  BY <1>1, <1>5 DEF Grown
<1>6. ASSUME Held(b, K, p) PROVE Held(b, K2, p2)
  <2>1. Len(p) = Len(K) /\ \A l \in LeavableAt(K) : p2[l] = p[l]
    BY <1>5, <1>6 DEF Held
  <2> QED
    BY <1>1, <1>2, <1>3, <1>4, <1>6, <2>1 DEF Held
<1>7. ASSUME Held(b, K2, p2), Len(p) \in Nat PROVE Held(b, K, p)
  <2>1. Len(p2) = Len(K2)
    BY <1>7 DEF Held
  <2>2. Len(p) = Len(K)
    BY <1>4, <1>7, <2>1
  <2>3. \A l \in LeavableAt(K) : p2[l] = p[l]
    BY <1>5, <2>2
  <2> QED
    BY <1>1, <1>2, <1>3, <1>7, <2>2, <2>3 DEF Held
<1> QED
  BY <1>6, <1>7

LEMMA HeldOpens ==
  ASSUME NEW T, NEW b \in Seq(T), NEW c \in Seq(T), NEW k \in Openers, OneAfter(b, c, k),
         NEW K \in Seq(Kinds), NEW K2 \in Seq(Kinds), Grown(K, K2, k),
         NEW p, NEW p2, Pointed(b, p, p2), Held(b, K, p)
  PROVE  Held(c, K2, p2)
<1>1. PICK n \in Nat, d \in Nat : /\ n = Len(b) /\ Len(c) = n + 1 /\ Begins(b, c, n + 1)
                                  /\ d = Len(K) /\ Len(K2) = d + 1
  <2>1. Len(b) \in Nat /\ Len(K) \in Nat
    OBVIOUS
  <2> QED
    BY <2>1 DEF Grown, OneAfter
<1>2. c[n + 1].k = k /\ c[n + 1].k \in Openers /\ K2[d + 1] = k /\ p2[d + 1] = n + 1
  BY <1>1 DEF Grown, OneAfter, Pointed, Held
<1>3. LeavableAt(K2) = LeavableAt(K) \cup {l \in {d + 1} : k \in Leavable}
  BY <1>1, OneStatementMore
<1>4. ASSUME NEW l \in LeavableAt(K)
      PROVE  /\ l \in 1 .. d /\ K2[l] = K[l] /\ p2[l] = p[l] /\ p[l] \in 1 .. n /\ p[l] \in 1 .. n + 1
             /\ c[p[l]].k = K2[l]
             /\ Cardinality(Opened(c, p[l], n + 1))
                  = Cardinality(Ended(c, p[l], n + 1)) + Cardinality(OpenersFrom(K2, l))
  <2>1. l \in 1 .. d /\ l \in Nat /\ K2[l] = K[l] /\ p2[l] = p[l]
    BY <1>1 DEF LeavableAt, Grown, Pointed, Held
  <2>2. /\ p[l] \in 1 .. n /\ b[p[l]].k = K[l]
        /\ Cardinality(Opened(b, p[l], n)) = Cardinality(Ended(b, p[l], n)) + Cardinality(OpenersFrom(K, l))
    BY <1>1 DEF Held
  <2>3. PICK j \in 1 .. n : j = p[l]
    BY <2>2
  <2>4. /\ Cardinality(Opened(c, j, n + 1)) = Cardinality(Opened(b, j, n)) + 1
        /\ Cardinality(Ended(c, j, n + 1)) = Cardinality(Ended(b, j, n))
    <3>1. Begins(b, c, n + 1) /\ c[n + 1].k \in Openers
      BY <1>1, <1>2
    <3> QED
      BY ONLY <3>1, n \in Nat, j \in 1 .. n, CountsOne
  <2>5. c[j] = b[j]
    BY <1>1 DEF Begins
  <2>6. Cardinality(OpenersFrom(K2, l)) = Cardinality(OpenersFrom(K, l)) + 1
    BY <1>1, <2>1, OneStatementMore
  <2>7. Cardinality(OpenersFrom(K, l)) \in Nat /\ Cardinality(Ended(b, j, n)) \in Nat
    <3>1. j \in Nat
      OBVIOUS
    <3> QED
      BY <2>1, <3>1, OpenersCount, CountsAre
  <2>8. p[l] \in 1 .. n + 1
    BY <2>2
  <2> QED
    BY <2>1, <2>2, <2>3, <2>4, <2>5, <2>6, <2>7, <2>8
<1>5. /\ Cardinality(Opened(c, n + 1, n + 1)) = 1 /\ Cardinality(Ended(c, n + 1, n + 1)) = 0
      /\ Cardinality(OpenersFrom(K2, d + 1)) = 1
  <2>1. \A m : m \in n + 1 .. n + 1 <=> m = n + 1
    OBVIOUS
  <2>2. Opened(c, n + 1, n + 1) = {n + 1} /\ Ended(c, n + 1, n + 1) = {}
    BY <1>2, <2>1 DEF Opened, Ended, Openers
  <2>3. Cardinality(OpenersFrom(K2, d + 1)) = 1
    BY <1>1, OneStatementMore
  <2> QED
    BY <2>2, <2>3, FS_EmptySet, FS_Singleton
<1>6. ASSUME NEW l \in LeavableAt(K2)
      PROVE  /\ p2[l] \in 1 .. n + 1 /\ c[p2[l]].k = K2[l]
             /\ Cardinality(Opened(c, p2[l], n + 1))
                  = Cardinality(Ended(c, p2[l], n + 1)) + Cardinality(OpenersFrom(K2, l))
             /\ \A m \in LeavableAt(K2) : l < m => p2[l] < p2[m]
  <2>1. CASE l \in LeavableAt(K)
    <3>1. \A m \in LeavableAt(K) : l < m => p2[l] < p2[m]
      BY <1>4, <2>1 DEF Held
    <3>2. p2[l] < n + 1
      BY <1>4, <2>1
    <3> QED
      BY <1>2, <1>3, <1>4, <2>1, <3>1, <3>2
  <2>2. CASE l = d + 1
    <3>1. \A m \in LeavableAt(K2) : ~(l < m)
      BY <1>3, <1>4, <2>2
    <3>2. p2[l] \in 1 .. n + 1 /\ c[p2[l]].k = K2[l]
      BY <1>2, <2>2
    <3> QED
      BY <1>2, <1>5, <2>2, <3>1, <3>2
  <2> QED
    BY <1>3, <2>1, <2>2
<1>7. Around(c, (n + 1) + 1, Leavable) = {p2[l] : l \in LeavableAt(K2)}
  <2>1. \A j : j \in Around(c, n + 2, Leavable) <=>
                 j \in Around(b, n + 1, Leavable) \/ (j = n + 1 /\ c[j].k \in Leavable)
    <3>1. c[n + 1].k \in Openers /\ Begins(b, c, n + 1)
      BY <1>1, <1>2
    <3> QED
      BY ONLY <3>1, n \in Nat, AroundOpens
  <2>2. Around(b, n + 1, Leavable) = {p2[l] : l \in LeavableAt(K)}
    BY <1>1, <1>4 DEF Held
  <2>3. (n + 1) + 1 = n + 2
    OBVIOUS
  <2>4. \A j : j \in {p2[l] : l \in LeavableAt(K2)} <=>
                 (\E l \in LeavableAt(K) : j = p2[l]) \/ (k \in Leavable /\ j = n + 1)
    BY <1>2, <1>3
  <2>5. \A j : j \in Around(c, n + 2, Leavable) <=> j \in {p2[l] : l \in LeavableAt(K2)}
    BY <1>2, <2>1, <2>2, <2>4
  <2> QED
    BY <2>3, <2>5
<1>8. Len(p2) = Len(K2)
  BY <1>1 DEF Held, Grown, Pointed
<1> QED
  BY <1>1, <1>6, <1>7, <1>8 DEF Held

LEMMA AroundSwitches ==
  ASSUME NEW b, NEW i, NEW j
  PROVE  /\ j \in Around(b, i, {"switch"}) <=> j \in Around(b, i, Leavable) /\ b[j].k \in {"switch"}
         /\ j \in Around(b, i, {"loop"}) <=> j \in Around(b, i, Leavable) /\ b[j].k \in {"loop"}
<1>1. b[j].k \in {"switch"} \/ b[j].k \in {"loop"} => b[j].k \in Leavable
  BY DEF Leavable
<1>2. /\ j \in Around(b, i, {"switch"}) <=>
           j \in 1 .. i - 1 /\ b[j].k \in {"switch"} /\ \A n \in j .. i - 1 : More(b, j, n)
      /\ j \in Around(b, i, {"loop"}) <=>
           j \in 1 .. i - 1 /\ b[j].k \in {"loop"} /\ \A n \in j .. i - 1 : More(b, j, n)
      /\ j \in Around(b, i, Leavable) <=>
           j \in 1 .. i - 1 /\ b[j].k \in Leavable /\ \A n \in j .. i - 1 : More(b, j, n)
  BY AroundIs
<1> QED
  BY <1>1, <1>2

\* If it is a switch that ends, it is the innermost one, and opened at x.
SwitchEnds(b, c, k, x) ==
  /\ Around(c, Len(b) + 2, {"switch"}) = Around(b, Len(b) + 1, {"switch"}) \ {j \in {x} : k = "switch"}
  /\ k = "switch" => /\ x \in Around(b, Len(b) + 1, {"switch"})
                     /\ \A j \in Around(b, Len(b) + 1, {"switch"}) : j <= x

\* What ends is the innermost bracket, here the one that opened at x.
LEMMA HeldEnds ==
  ASSUME NEW T, NEW b \in Seq(T), NEW c \in Seq(T), OneAfter(b, c, "end"),
         NEW K \in Seq(Kinds), NEW K2 \in Seq(Kinds), NEW k \in Openers, Grown(K2, K, k), NEW p, NEW p2, NEW x, Grown(p2, p, x), Len(p2) \in Nat, Held(b, K, p)
  PROVE  Held(c, K2, p2) /\ SwitchEnds(b, c, k, x)
<1>1. PICK n \in Nat, d \in Nat : /\ n = Len(b) /\ Len(c) = n + 1 /\ Begins(b, c, n + 1)
                                  /\ d = Len(K2) /\ Len(K) = d + 1
  <2>1. Len(b) \in Nat /\ Len(K2) \in Nat
    OBVIOUS
  <2> QED
    BY <2>1 DEF Grown, OneAfter
<1>2. c[n + 1].k = "end" /\ K[d + 1] = k /\ Len(p2) = d /\ p[d + 1] = x
  BY <1>1 DEF Grown, OneAfter, Held
<1>3. LeavableAt(K) = LeavableAt(K2) \cup {l \in {d + 1} : k \in Leavable}
  BY <1>1, OneStatementMore
<1>4. ASSUME NEW l \in LeavableAt(K)
      PROVE  /\ p[l] \in 1 .. n /\ b[p[l]].k = K[l]
             /\ Cardinality(Opened(b, p[l], n))
                  = Cardinality(Ended(b, p[l], n)) + Cardinality(OpenersFrom(K, l))
             /\ Cardinality(Ended(b, p[l], n)) \in Nat /\ Cardinality(OpenersFrom(K, l)) \in Nat
             /\ \A m \in LeavableAt(K) : l < m => p[l] < p[m]
  <2>1. /\ p[l] \in 1 .. n /\ b[p[l]].k = K[l]
        /\ Cardinality(Opened(b, p[l], n)) = Cardinality(Ended(b, p[l], n)) + Cardinality(OpenersFrom(K, l))
        /\ \A m \in LeavableAt(K) : l < m => p[l] < p[m]
    BY <1>1 DEF Held
  <2>2. l \in Nat /\ p[l] \in Nat
    BY <2>1 DEF LeavableAt
  <2> QED
    BY <2>1, <2>2, OpenersCount, CountsAre
<1>5. ASSUME NEW l \in LeavableAt(K2)
      PROVE  /\ l \in 1 .. d /\ l \in LeavableAt(K) /\ K2[l] = K[l] /\ p2[l] = p[l]
             /\ Cardinality(OpenersFrom(K, l)) = Cardinality(OpenersFrom(K2, l)) + 1
             /\ Cardinality(OpenersFrom(K2, l)) \in Nat \ {0}
  <2>1. l \in 1 .. d /\ l \in Nat /\ l \in LeavableAt(K) /\ K2[l] = K[l] /\ p2[l] = p[l]
    BY <1>1, <1>2, <1>3 DEF LeavableAt, Grown
  <2>2. Cardinality(OpenersFrom(K, l)) = Cardinality(OpenersFrom(K2, l)) + 1
    BY <1>1, <2>1, OneStatementMore
  <2>3. l \in OpenersFrom(K2, l)
    BY <1>1, <2>1 DEF OpenersFrom, LeavableAt, Leavable, Openers
  <2>4. IsFiniteSet(OpenersFrom(K2, l)) /\ Cardinality(OpenersFrom(K2, l)) \in Nat
    BY <2>1, OpenersCount
  <2>5. Cardinality(OpenersFrom(K2, l)) # 0
    BY <2>3, <2>4, FS_EmptySet
  <2> QED
    BY <2>1, <2>2, <2>4, <2>5
<1>6. k \in Leavable => Cardinality(OpenersFrom(K, d + 1)) = 1
  BY <1>1, OneStatementMore
<1>7. \A l \in LeavableAt(K) :
        Cardinality(Opened(b, p[l], n)) # Cardinality(Ended(b, p[l], n)) + 1 <=> l \in LeavableAt(K2)
  <2> TAKE l \in LeavableAt(K)
  <2>1. CASE l \in LeavableAt(K2)
    <3>1. PICK e \in Nat, r \in Nat : /\ e = Cardinality(Ended(b, p[l], n)) /\ r = Cardinality(OpenersFrom(K, l))
                                      /\ Cardinality(Opened(b, p[l], n)) = e + r
      BY <1>4
    <3>2. PICK r2 \in Nat \ {0} : r = r2 + 1
      BY <1>5, <2>1, <3>1
    <3>3. e + r # e + 1
      BY <3>1, <3>2
    <3> QED
      BY <2>1, <3>1, <3>3
  <2>2. CASE l \notin LeavableAt(K2)
    <3>1. l = d + 1 /\ k \in Leavable
      BY <1>3, <2>2
    <3> QED
      BY <1>4, <1>6, <2>2, <3>1
  <2> QED
    BY <2>1, <2>2
<1>8. Around(b, n + 1, Leavable) = {p[l] : l \in LeavableAt(K)}
  BY <1>1 DEF Held
<1>9. Around(c, n + 2, Leavable) = {p2[l] : l \in LeavableAt(K2)}
  <2>1. \A j : j \in Around(c, n + 2, Leavable) <=>
                 /\ j \in Around(b, n + 1, Leavable)
                 /\ Cardinality(Opened(b, j, n)) # Cardinality(Ended(b, j, n)) + 1
    <3>1. Begins(b, c, n + 1) /\ c[n + 1].k = "end"
      BY <1>1, <1>2
    <3> QED
      BY ONLY <3>1, n \in Nat, AroundEnds
  <2>2. \A l \in LeavableAt(K2) : l \in LeavableAt(K) /\ p2[l] = p[l]
    BY <1>5
  <2>3. \A j : j \in Around(c, n + 2, Leavable) <=> \E l \in LeavableAt(K2) : j = p2[l]
    BY <1>7, <1>8, <2>1, <2>2
  <2> QED
    BY <2>3
<1>10. ASSUME NEW l \in LeavableAt(K2)
       PROVE  /\ p2[l] \in 1 .. n + 1 /\ c[p2[l]].k = K2[l]
              /\ Cardinality(Opened(c, p2[l], n + 1))
                   = Cardinality(Ended(c, p2[l], n + 1)) + Cardinality(OpenersFrom(K2, l))
              /\ \A m \in LeavableAt(K2) : l < m => p2[l] < p2[m]
  <2>1. PICK j \in 1 .. n : j = p[l] /\ j = p2[l]
    BY <1>4, <1>5
  <2>2. /\ Cardinality(Opened(c, j, n + 1)) = Cardinality(Opened(b, j, n))
        /\ Cardinality(Ended(c, j, n + 1)) = Cardinality(Ended(b, j, n)) + 1
    <3>1. Begins(b, c, n + 1) /\ c[n + 1].k = "end"
      BY <1>1, <1>2
    <3> QED
      BY ONLY <3>1, n \in Nat, j \in 1 .. n, CountsOne
  <2>3. c[j] = b[j] /\ j \in 1 .. n + 1
    BY <1>1 DEF Begins
  <2>4. \A m \in LeavableAt(K2) : l < m => p2[l] < p2[m]
    BY <1>4, <1>5
  <2>5. Cardinality(Opened(c, j, n + 1))
          = Cardinality(Ended(c, j, n + 1)) + Cardinality(OpenersFrom(K2, l))
    BY <1>4, <1>5, <2>1, <2>2
  <2> QED
    BY <1>4, <1>5, <2>1, <2>3, <2>4, <2>5
<1>11. Held(c, K2, p2)
  <2>1. (n + 1) + 1 = n + 2
    OBVIOUS
  <2> QED
    BY <1>1, <1>2, <1>9, <1>10, <2>1 DEF Held
<1>12. \A j \in Around(b, n + 1, Leavable) :
         /\ j \in Around(c, n + 2, Leavable) <=> ~(k \in Leavable /\ j = x)
         /\ c[j] = b[j] /\ (k \in Leavable => j <= x)
  <2> TAKE j \in Around(b, n + 1, Leavable)
  <2>1. PICK l \in LeavableAt(K) : j = p[l]
    BY <1>8
  <2>2. j \in 1 .. n /\ c[j] = b[j]
    BY <1>1, <1>4, <2>1 DEF Begins
  <2>3. \A m \in LeavableAt(K2) : m \in LeavableAt(K) /\ m \in 1 .. d /\ p2[m] = p[m]
    BY <1>5
  <2>4. ASSUME k \in Leavable
        PROVE  /\ d + 1 \in LeavableAt(K) /\ p[d + 1] = x /\ p[d + 1] \in 1 .. n
               /\ \A m \in LeavableAt(K2) : p[m] < x /\ p[m] \in 1 .. n
    <3>1. d + 1 \in LeavableAt(K) /\ p[d + 1] = x
      BY <1>2, <1>3, <2>4
    <3>2. p[d + 1] \in 1 .. n
      BY <1>4, <3>1
    <3>3. ASSUME NEW m \in LeavableAt(K2) PROVE p[m] < x /\ p[m] \in 1 .. n
      <4>1. m \in LeavableAt(K) /\ m < d + 1
        BY <2>3
      <4> QED
        BY <1>4, <3>1, <4>1
    <3> QED
      BY <3>1, <3>2, <3>3
  <2>5. CASE k \in Leavable
    <3>1. CASE l \in LeavableAt(K2)
      <4>1. j \in Around(c, n + 2, Leavable)
        BY <1>9, <2>1, <2>3, <3>1
      <4>2. j < x /\ x \in 1 .. n
        BY <2>1, <2>4, <2>5, <3>1
      <4> QED
        BY <2>2, <4>1, <4>2
    <3>2. CASE l = d + 1
      <4>1. j = x /\ x \in 1 .. n
        BY <2>1, <2>4, <2>5, <3>2
      <4>2. \A m \in LeavableAt(K2) : p2[m] # x
        <5>1. \A m \in LeavableAt(K2) : p[m] < x /\ p[m] \in 1 .. n /\ p2[m] = p[m]
          BY <2>3, <2>4, <2>5
        <5> QED
          BY ONLY <4>1, <5>1, n \in Nat
      <4> QED
        BY <1>9, <2>2, <2>5, <4>1, <4>2
    <3> QED
      BY <1>3, <3>1, <3>2
  <2>6. CASE k \notin Leavable
    <3>1. l \in LeavableAt(K2)
      BY <1>3, <2>6
    <3> QED
      BY <1>9, <2>1, <2>2, <2>3, <2>6, <3>1
  <2> QED
    BY <2>5, <2>6
<1>13. Around(c, n + 2, Leavable) \subseteq Around(b, n + 1, Leavable)
  BY <1>5, <1>8, <1>9
<1>14. /\ Around(c, n + 2, {"switch"}) = {j \in Around(c, n + 2, Leavable) : c[j].k \in {"switch"}}
       /\ Around(b, n + 1, {"switch"}) = {j \in Around(b, n + 1, Leavable) : b[j].k \in {"switch"}}
  <2>1. \A j : /\ j \in Around(c, n + 2, {"switch"}) <=>
                    j \in Around(c, n + 2, Leavable) /\ c[j].k \in {"switch"}
               /\ j \in Around(b, n + 1, {"switch"}) <=>
                    j \in Around(b, n + 1, Leavable) /\ b[j].k \in {"switch"}
    BY AroundSwitches
  <2> QED
    BY <2>1
<1>15. k \in Leavable => x \in Around(b, n + 1, Leavable) /\ b[x].k = k
  BY <1>2, <1>3, <1>4, <1>8
<1>16. k = "switch" => k \in Leavable
  BY DEF Leavable
<1>17. Around(c, n + 2, {"switch"}) = Around(b, n + 1, {"switch"}) \ {j \in {x} : k = "switch"}
  <2>1. ASSUME NEW j
        PROVE  j \in Around(c, n + 2, {"switch"}) <=>
                 j \in Around(b, n + 1, {"switch"}) /\ ~(j = x /\ k = "switch")
    <3>1. CASE j \notin Around(b, n + 1, Leavable)
      BY <1>13, <1>14, <3>1
    <3>2. CASE j \in Around(b, n + 1, Leavable)
      <4>1. c[j] = b[j] /\ (j \in Around(c, n + 2, Leavable) <=> ~(k \in Leavable /\ j = x))
        BY <1>12, <3>2
      <4>2. j = x /\ k \in Leavable => b[j].k = k
        BY <1>15
      <4> QED
        BY <1>14, <1>16, <3>2, <4>1, <4>2
    <3> QED
      BY <3>1, <3>2
  <2> QED
    BY <2>1
<1>18. k = "switch" => /\ x \in Around(b, n + 1, {"switch"})
                       /\ \A j \in Around(b, n + 1, {"switch"}) : j <= x
  BY <1>12, <1>14, <1>15, <1>16
<1> QED
  <2>1. Len(b) + 1 = n + 1 /\ Len(b) + 2 = n + 2
    BY <1>1
  <2> QED
    BY <1>11, <1>17, <1>18, <2>1 DEF SwitchEnds

(***************************************************************************)
(* The trackers, and the labels they have been given                       *)
(***************************************************************************)

\* The innermost switch around position n opens at P.
Nearest(b, n, P) == P \in Around(b, n, {"switch"}) /\ \A o \in Around(b, n, {"switch"}) : o <= P

SameLabel(b, n, i) == b[n].k = b[i].k /\ (b[i].k = "case" => b[n].x = b[i].x)

PlacedAt(b, i) ==
  /\ b[i].k = "break" => Around(b, i, Leavable) # {}
  /\ b[i].k = "continue" => Around(b, i, {"loop"}) # {}
  /\ b[i].k \in {"case", "default"} =>
       \E P : Nearest(b, i, P) /\ \A n \in 1 .. i - 1 : SameLabel(b, n, i) => ~Nearest(b, n, P)

Placed(b) == \A i \in 1 .. Len(b) : PlacedAt(b, i)

\* The switches around the end of b open at q, the innermost last; the tracker
\* of each knows the labels that are its own.
Tracked(b, q, s) ==
  /\ Len(q) = Len(s)
  /\ \A i, j \in 1 .. Len(q) : i < j => q[i] < q[j]
  /\ Around(b, Len(b) + 1, {"switch"}) = {q[i] : i \in 1 .. Len(q)}
  /\ \A i \in 1 .. Len(q), n \in 1 .. Len(b) : Nearest(b, n, q[i]) =>
       /\ b[n].k = "case" => b[n].x \in s[i].cases
       /\ b[n].k = "default" => s[i].dflt

LEMMA NearestBegins ==
  ASSUME NEW b, NEW c, NEW i \in Nat, Begins(b, c, i), NEW n \in Nat, n <= i, NEW P
  PROVE  Nearest(c, n, P) <=> Nearest(b, n, P)
<1>1. Begins(b, c, n)
  BY DEF Begins
<1>2. Around(c, n, {"switch"}) = Around(b, n, {"switch"})
  BY <1>1, AroundBegins
<1> QED
  BY <1>2 DEF Nearest

LEMMA PlacedBegins ==
  ASSUME NEW b, NEW c, NEW l \in Nat, Begins(b, c, l + 1), NEW i \in 1 .. l, PlacedAt(b, i)
  PROVE  PlacedAt(c, i)
<1>1. i \in Nat /\ l + 1 \in Nat /\ i <= l + 1 /\ Begins(b, c, i) /\ c[i] = b[i]
  BY DEF Begins
<1>2. /\ Around(c, i, Leavable) = Around(b, i, Leavable)
      /\ Around(c, i, {"loop"}) = Around(b, i, {"loop"})
  BY <1>1, AroundBegins
<1>3. \A P : Nearest(c, i, P) <=> Nearest(b, i, P)
  BY <1>1, NearestBegins
<1>4. \A n \in 1 .. i - 1 : c[n] = b[n]
  BY DEF Begins
<1>5. \A n \in 1 .. i - 1 : \A P : Nearest(c, n, P) <=> Nearest(b, n, P)
  <2> TAKE n \in 1 .. i - 1
  <2>1. n \in Nat /\ n <= l + 1
    OBVIOUS
  <2> QED
    BY <1>1, <2>1, NearestBegins
<1>6. \A n \in 1 .. i - 1 : SameLabel(c, n, i) <=> SameLabel(b, n, i)
  BY <1>1, <1>4 DEF SameLabel
<1> QED
  BY <1>1, <1>2, <1>3, <1>5, <1>6 DEF PlacedAt

\* Items that are no labels.
LEMMA TrackedKept ==
  ASSUME NEW T, NEW b \in Seq(T), NEW c \in Seq(T), NEW q, NEW s, Tracked(b, q, s),
         Len(b) <= Len(c), Begins(b, c, Len(b) + 1),
         \A m \in Len(b) + 1 .. Len(c) : c[m].k \notin {"case", "default"},
         Around(c, Len(c) + 1, {"switch"}) = Around(b, Len(b) + 1, {"switch"})
  PROVE  Tracked(c, q, s)
<1>1. PICK l \in Nat, m \in Nat : l = Len(b) /\ m = Len(c) /\ l <= m /\ Begins(b, c, l + 1)
  OBVIOUS
<1>2. ASSUME NEW i \in 1 .. Len(q), NEW n \in 1 .. m, Nearest(c, n, q[i])
      PROVE  /\ c[n].k = "case" => c[n].x \in s[i].cases
             /\ c[n].k = "default" => s[i].dflt
  <2>1. CASE n <= l
    <3>1. n \in 1 .. l /\ n \in Nat /\ n <= l + 1 /\ l + 1 \in Nat /\ c[n] = b[n]
      BY <1>1, <2>1 DEF Begins
    <3>2. Nearest(b, n, q[i])
      BY <1>1, <1>2, <3>1, NearestBegins
    <3> QED
      BY <1>1, <3>1, <3>2 DEF Tracked
  <2>2. CASE ~(n <= l)
    <3>1. n \in l + 1 .. m
      BY <2>2
    <3> QED
      BY <1>1, <3>1
  <2> QED
    BY <2>1, <2>2
<1> QED
  BY <1>1, <1>2 DEF Tracked

\* A switch opens: its tracker is new.
LEMMA TrackedOpens ==
  ASSUME NEW T, NEW b \in Seq(T), NEW c \in Seq(T), OneAfter(b, c, "switch"),
         NEW q \in Seq(Nat), NEW q2 \in Seq(Nat), Pointed(b, q, q2), NEW s, NEW s2, NEW t, Grown(s, s2, t), Tracked(b, q, s)
  PROVE  Tracked(c, q2, s2)
<1>1. PICK l \in Nat, d \in Nat : /\ l = Len(b) /\ Len(c) = l + 1 /\ Begins(b, c, l + 1)
                                  /\ d = Len(q) /\ Len(q2) = d + 1
  <2>1. Len(b) \in Nat /\ Len(q) \in Nat
    OBVIOUS
  <2> QED
    BY <2>1 DEF Grown, Pointed, OneAfter
<1>2. /\ c[l + 1].k = "switch" /\ q2[d + 1] = l + 1 /\ \A i \in 1 .. d : q2[i] = q[i]
      /\ Len(s) = d /\ Len(s2) = d + 1 /\ \A i \in 1 .. d : s2[i] = s[i]
  BY <1>1 DEF Grown, Pointed, OneAfter, Tracked
<1>3. Around(b, l + 1, {"switch"}) = {q[i] : i \in 1 .. d}
  BY <1>1 DEF Tracked
<1>4. \A i : i \in 1 .. d + 1 <=> i \in 1 .. d \/ i = d + 1
  OBVIOUS
<1>5. \A j : j \in Around(c, l + 2, {"switch"}) <=> j \in Around(b, l + 1, {"switch"}) \/ j = l + 1
  <2>1. c[l + 1].k \in Openers /\ c[l + 1].k \in {"switch"}
    BY <1>2 DEF Openers
  <2>2. \A j : j \in Around(c, l + 2, {"switch"}) <=>
                 j \in Around(b, l + 1, {"switch"}) \/ (j = l + 1 /\ c[j].k \in {"switch"})
    <3>1. c[l + 1].k \in Openers /\ Begins(b, c, l + 1)
      BY <1>1, <2>1
    <3>2. PICK kinds : kinds = {"switch"}
      OBVIOUS
    <3>3. \A j : j \in Around(c, l + 2, kinds) <=>
                   j \in Around(b, l + 1, kinds) \/ (j = l + 1 /\ c[j].k \in kinds)
      BY ONLY <3>1, l \in Nat, AroundOpens
    <3> QED
      BY <3>2, <3>3
  <2> QED
    BY <2>1, <2>2
<1>6. \A i \in 1 .. d : q[i] \in 1 .. l
  <2>1. (l + 1) - 1 = l
    OBVIOUS
  <2>2. \A j \in Around(b, l + 1, {"switch"}) : j \in 1 .. l
    BY <2>1, AroundIs
  <2> QED
    BY <1>3, <2>2
<1>7. Around(c, (l + 1) + 1, {"switch"}) = {q2[i] : i \in 1 .. d + 1}
  <2>1. (l + 1) + 1 = l + 2
    OBVIOUS
  <2>2. \A j : j \in {q2[i] : i \in 1 .. d + 1} <=> (\E i \in 1 .. d : j = q[i]) \/ j = l + 1
    BY <1>2, <1>4
  <2>3. \A j : j \in Around(c, l + 2, {"switch"}) <=> j \in {q2[i] : i \in 1 .. d + 1}
    BY <1>3, <1>5, <2>2
  <2> QED
    BY <2>1, <2>3
<1>8. \A i, j \in 1 .. d + 1 : i < j => q2[i] < q2[j]
  <2> TAKE i \in 1 .. d + 1, j \in 1 .. d + 1
  <2>1. CASE j \in 1 .. d
    <3>1. i < j => i \in 1 .. d
      BY <2>1
    <3> QED
      BY <1>1, <1>2, <2>1, <3>1 DEF Tracked
  <2>2. CASE j = d + 1
    <3> SUFFICES ASSUME i < j PROVE q2[i] < q2[j]
      OBVIOUS
    <3>1. i \in 1 .. d /\ q2[i] = q[i] /\ q2[j] = l + 1
      BY <1>2, <2>2
    <3>2. q[i] \in 1 .. l
      BY <1>6, <3>1
    <3> QED
      BY <3>1, <3>2
  <2> QED
    BY <1>4, <2>1, <2>2
<1>9. ASSUME NEW i \in 1 .. d + 1, NEW n \in 1 .. l + 1, Nearest(c, n, q2[i])
      PROVE  /\ c[n].k = "case" => c[n].x \in s2[i].cases
             /\ c[n].k = "default" => s2[i].dflt
  <2>1. CASE n = l + 1
    BY <1>2, <2>1
  <2>2. CASE n # l + 1
    <3>1. n \in 1 .. l /\ n \in Nat /\ n <= l + 1 /\ l + 1 \in Nat /\ c[n] = b[n]
      BY <1>1, <2>2 DEF Begins
    <3>2. q2[i] # l + 1
      <4>1. q2[i] \in 1 .. n - 1
        BY <1>9, AroundIs DEF Nearest
      <4> QED
        BY <3>1, <4>1
    <3>3. i \in 1 .. d /\ q2[i] = q[i] /\ s2[i] = s[i]
      BY <1>2, <1>4, <3>2
    <3>4. Nearest(b, n, q[i])
      BY <1>1, <1>9, <3>1, <3>3, NearestBegins
    <3> QED
      BY <1>1, <3>1, <3>3, <3>4 DEF Tracked
  <2> QED
    BY <2>1, <2>2
<1> QED
  BY <1>1, <1>2, <1>7, <1>8, <1>9 DEF Tracked

\* A switch ends: the innermost switch is the last of q.
LEMMA TrackedEnds ==
  ASSUME NEW T, NEW b \in Seq(T), NEW c \in Seq(T), OneAfter(b, c, "end"),
         NEW q \in Seq(Nat), NEW q2 \in Seq(Nat), NEW y, Grown(q2, q, y),
         NEW s, NEW s2, NEW t, Grown(s2, s, t), Len(s2) \in Nat, Tracked(b, q, s), NEW x,
         x \in Around(b, Len(b) + 1, {"switch"}),
         \A j \in Around(b, Len(b) + 1, {"switch"}) : j <= x,
         Around(c, Len(b) + 2, {"switch"}) = Around(b, Len(b) + 1, {"switch"}) \ {x}
  PROVE  Tracked(c, q2, s2)
<1>1. PICK l \in Nat, d \in Nat : /\ l = Len(b) /\ Len(c) = l + 1 /\ Begins(b, c, l + 1)
                                  /\ d = Len(q2) /\ Len(q) = d + 1
  <2>1. Len(q2) \in Nat /\ Len(b) \in Nat
    OBVIOUS
  <2> QED
    BY <2>1 DEF Grown, OneAfter
<1>2. /\ c[l + 1].k = "end" /\ \A i \in 1 .. d : q[i] = q2[i]
      /\ Len(s2) = d /\ \A i \in 1 .. d : s[i] = s2[i]
  BY <1>1 DEF Grown, OneAfter, Tracked
<1>3. Around(b, l + 1, {"switch"}) = {q[i] : i \in 1 .. d + 1}
  BY <1>1 DEF Tracked
<1>4. /\ \A i : i \in 1 .. d + 1 <=> i \in 1 .. d \/ i = d + 1
      /\ \A i \in 1 .. d : i < d + 1
  OBVIOUS
<1>5. \A i \in 1 .. d + 1 : q[i] \in Nat
  BY <1>1
<1>6. \A i, j \in 1 .. d + 1 : i < j => q[i] < q[j]
  BY <1>1 DEF Tracked
<1>7. x = q[d + 1]
  <2>1. PICK i \in 1 .. d + 1 : x = q[i]
    BY <1>1, <1>3
  <2>2. q[d + 1] <= x
    BY <1>1, <1>3, <1>4
  <2>3. i = d + 1 \/ q[i] < q[d + 1]
    BY <1>4, <1>6
  <2> QED
    BY <1>4, <1>5, <2>1, <2>2, <2>3
<1>8. \A i \in 1 .. d : q[i] # x
  BY <1>4, <1>5, <1>6, <1>7
<1>9. Around(c, (l + 1) + 1, {"switch"}) = {q2[i] : i \in 1 .. d}
  <2>1. (l + 1) + 1 = l + 2
    OBVIOUS
  <2>2. Around(c, l + 2, {"switch"}) = Around(b, l + 1, {"switch"}) \ {x}
    BY <1>1
  <2>3. \A j : j \in {q2[i] : i \in 1 .. d} <=> j \in {q[i] : i \in 1 .. d + 1} /\ j # x
    BY <1>2, <1>4, <1>7, <1>8
  <2> QED
    BY <1>3, <2>1, <2>2, <2>3
<1>10. \A i, j \in 1 .. d : i < j => q2[i] < q2[j]
  BY <1>2, <1>4, <1>6
<1>11. ASSUME NEW i \in 1 .. d, NEW n \in 1 .. l + 1, Nearest(c, n, q2[i])
       PROVE  /\ c[n].k = "case" => c[n].x \in s2[i].cases
              /\ c[n].k = "default" => s2[i].dflt
  <2>1. CASE n = l + 1
    BY <1>2, <2>1
  <2>2. CASE n # l + 1
    <3>1. n \in 1 .. l /\ n \in Nat /\ n <= l + 1 /\ l + 1 \in Nat /\ c[n] = b[n]
      <4>1. n \in 1 .. l /\ n \in 1 .. (l + 1) - 1 /\ n \in Nat /\ n <= l + 1 /\ l + 1 \in Nat
        BY ONLY <2>2, l \in Nat, n \in 1 .. l + 1
      <4> QED
        BY <1>1, <4>1 DEF Begins
    <3>2. Nearest(b, n, q[i]) /\ s2[i] = s[i] /\ i \in 1 .. d + 1
      BY <1>1, <1>2, <1>4, <1>11, <3>1, NearestBegins
    <3> QED
      BY <1>1, <3>1, <3>2 DEF Tracked
  <2> QED
    BY <2>1, <2>2
<1> QED
  BY <1>1, <1>2, <1>9, <1>10, <1>11 DEF Tracked

\* From b to c the labels of the innermost switch, whose tracker goes from t
\* to t2.
Labelled(b, c, t, t2) ==
  /\ t.cases \subseteq t2.cases /\ (t.dflt => t2.dflt)
  /\ \A m \in Len(b) + 1 .. Len(c) :
       /\ c[m].k \in {"case", "default"}
       /\ c[m].k = "case" => c[m].x \in t2.cases \ t.cases
       /\ c[m].k = "default" => t2.dflt /\ ~t.dflt
       /\ \A n \in Len(b) + 1 .. m - 1 : ~SameLabel(c, n, m)

\* s2 is s but for its last.
LastIs(s, s2, t) ==
  Len(s2) = Len(s) /\ \A i \in 1 .. Len(s) : s2[i] = IF i = Len(s) THEN t ELSE s[i]

LEMMA TrackedLabels ==
  ASSUME NEW T, NEW b \in Seq(T), NEW c \in Seq(T), Len(b) <= Len(c), Begins(b, c, Len(b) + 1),
         NEW q \in Seq(Nat), Len(q) \in Nat \ {0}, NEW s, NEW s2, NEW t, NEW t2, s[Len(s)] = t,
         LastIs(s, s2, t2), Labelled(b, c, t, t2), Tracked(b, q, s)
  PROVE  Tracked(c, q, s2) /\ \A m \in Len(b) + 1 .. Len(c) : PlacedAt(c, m)
<1>1. PICK l \in Nat, h \in Nat, d \in Nat \ {0} :
        /\ l = Len(b) /\ h = Len(c) /\ l <= h /\ Begins(b, c, l + 1) /\ d = Len(q)
  OBVIOUS
<1>2. /\ Len(s) = d /\ Len(s2) = d /\ s[d] = t /\ s2[d] = t2 /\ d \in 1 .. d
      /\ \A i \in 1 .. d : i # d => s2[i] = s[i]
  BY <1>1 DEF LastIs, Tracked
<1>3. /\ t.cases \subseteq t2.cases /\ (t.dflt => t2.dflt)
      /\ \A m \in l + 1 .. h :
           /\ c[m].k \in {"case", "default"}
           /\ c[m].k = "case" => c[m].x \in t2.cases \ t.cases
           /\ c[m].k = "default" => t2.dflt /\ ~t.dflt
           /\ \A n \in l + 1 .. m - 1 : ~SameLabel(c, n, m)
  BY <1>1 DEF Labelled
<1>4. PlainFrom(c, l, h)
  BY <1>3 DEF PlainFrom, Openers
<1>5. \A m \in l .. h : Around(c, m + 1, {"switch"}) = Around(b, l + 1, {"switch"})
  <2> TAKE m \in l .. h
  <2>1. m \in Nat /\ l <= m /\ PlainFrom(c, l, m)
    BY <1>4 DEF PlainFrom
  <2> QED
    BY <1>1, <2>1, AroundPlain
<1>6. Around(b, l + 1, {"switch"}) = {q[i] : i \in 1 .. d}
  BY <1>1 DEF Tracked
<1>7. /\ \A i, j \in 1 .. d : i < j => q[i] < q[j]
      /\ \A i \in 1 .. d : q[i] \in Nat
      /\ \A i \in 1 .. d : i = d \/ i < d
  BY <1>1 DEF Tracked
<1>8. \A m \in l + 1 .. h : \A P : Nearest(c, m, P) <=> P = q[d]
  <2> TAKE m \in l + 1 .. h
  <2>1. Around(c, m, {"switch"}) = {q[i] : i \in 1 .. d}
    <3>1. m - 1 \in l .. h /\ (m - 1) + 1 = m
      OBVIOUS
    <3> QED
      BY <1>5, <1>6, <3>1
  <2>2. \A i \in 1 .. d : q[i] <= q[d] /\ (q[d] <= q[i] => q[i] = q[d])
    BY <1>2, <1>7
  <2> QED
    BY <1>2, <2>1, <2>2 DEF Nearest
<1>9. \A n \in 1 .. l : c[n] = b[n] /\ \A P : Nearest(c, n, P) <=> Nearest(b, n, P)
  <2> TAKE n \in 1 .. l
  <2>1. n \in Nat /\ n <= l + 1 /\ l + 1 \in Nat /\ c[n] = b[n]
    BY <1>1 DEF Begins
  <2> QED
    BY <1>1, <2>1, NearestBegins
<1>10. \A i \in 1 .. d, n \in 1 .. l : Nearest(b, n, q[i]) =>
         /\ b[n].k = "case" => b[n].x \in s[i].cases
         /\ b[n].k = "default" => s[i].dflt
  BY <1>1 DEF Tracked
<1>11. ASSUME NEW i \in 1 .. d, NEW n \in 1 .. h, Nearest(c, n, q[i])
       PROVE  /\ c[n].k = "case" => c[n].x \in s2[i].cases
              /\ c[n].k = "default" => s2[i].dflt
  <2>1. CASE n <= l
    <3>1. n \in 1 .. l
      BY <2>1
    <3>2. /\ c[n].k = "case" => c[n].x \in s[i].cases
          /\ c[n].k = "default" => s[i].dflt
      BY <1>9, <1>10, <1>11, <3>1
    <3> QED
      BY <1>2, <1>3, <3>2
  <2>2. CASE ~(n <= l)
    <3>1. n \in l + 1 .. h
      BY <2>2
    <3>2. q[i] = q[d]
      BY <1>8, <1>11, <3>1
    <3>3. i = d
      BY <1>2, <1>7, <3>2
    <3> QED
      BY <1>2, <1>3, <3>1, <3>3
  <2> QED
    BY <2>1, <2>2
<1>12. Tracked(c, q, s2)
  <2>1. Around(c, h + 1, {"switch"}) = {q[i] : i \in 1 .. d}
    BY <1>1, <1>5, <1>6
  <2> QED
    BY <1>1, <1>2, <1>7, <1>11, <2>1 DEF Tracked
<1>13. ASSUME NEW m \in l + 1 .. h PROVE PlacedAt(c, m)
  <2>1. c[m].k \in {"case", "default"} /\ Nearest(c, m, q[d])
    BY <1>3, <1>8
  <2>2. ASSUME NEW n \in 1 .. m - 1, SameLabel(c, n, m), Nearest(c, n, q[d])
        PROVE  FALSE
    <3>1. CASE n <= l
      <4>1. n \in 1 .. l
        BY <3>1
      <4>2. /\ c[n].k = "case" => c[n].x \in t.cases
            /\ c[n].k = "default" => t.dflt
        BY <1>2, <1>9, <1>10, <2>2, <4>1
      <4> QED
        BY <1>3, <2>1, <2>2, <4>2 DEF SameLabel
    <3>2. CASE ~(n <= l)
      <4>1. n \in l + 1 .. m - 1
        BY <3>2
      <4> QED
        BY <1>3, <2>2, <4>1
    <3> QED
      BY <3>1, <3>2
  <2> QED
    BY <2>1, <2>2 DEF PlacedAt
<1> QED
  BY <1>1, <1>12, <1>13

(***************************************************************************)
(* A body, the statements that are being visited in it and their trackers  *)
(***************************************************************************)

Located(b, K, s) == \E p \in Seq(Nat), q \in Seq(Nat) : Held(b, K, p) /\ Tracked(b, q, s)

Extends(b, c) == Len(b) <= Len(c) /\ Begins(b, c, Len(b) + 1)

\* Items that open and end nothing and are no labels, in place between the
\* statements of kinds K.
Harmless(b, c, K) ==
  \A m \in Len(b) + 1 .. Len(c) :
    /\ c[m].k \notin Openers \cup {"end", "case", "default"}
    /\ c[m].k = "break" => LeavableAt(K) # {}
    /\ c[m].k = "continue" => \E l \in 1 .. Len(K) : K[l] = "loop"

LEMMA PlacedMore ==
  ASSUME NEW T, NEW b \in Seq(T), NEW c \in Seq(T), Extends(b, c), Placed(b),
         \A m \in Len(b) + 1 .. Len(c) : PlacedAt(c, m)
  PROVE  Placed(c)
<1>1. PICK l \in Nat, h \in Nat : l = Len(b) /\ h = Len(c) /\ l <= h /\ Begins(b, c, l + 1)
  BY DEF Extends
<1>2. \A m \in 1 .. l : PlacedAt(c, m)
  <2> TAKE m \in 1 .. l
  <2>1. PlacedAt(b, m)
    BY <1>1 DEF Placed
  <2> QED
    BY <1>1, <2>1, PlacedBegins
<1>3. \A m \in 1 .. h : m \in 1 .. l \/ m \in l + 1 .. h
  OBVIOUS
<1> QED
  BY <1>1, <1>2, <1>3 DEF Placed

LEMMA LocatedPlain ==
  ASSUME NEW T, NEW b \in Seq(T), NEW c \in Seq(T), Extends(b, c), NEW K, NEW s,
         Located(b, K, s), Placed(b), Harmless(b, c, K)
  PROVE  Located(c, K, s) /\ Placed(c)
<1>1. PICK p \in Seq(Nat), q \in Seq(Nat) : Held(b, K, p) /\ Tracked(b, q, s)
  BY DEF Located
<1>2. PICK l \in Nat, h \in Nat : l = Len(b) /\ h = Len(c) /\ l <= h /\ Begins(b, c, l + 1)
  BY DEF Extends
<1>3. PlainFrom(c, l, h) /\ \A m \in l + 1 .. h : c[m].k \notin {"case", "default"}
  BY <1>2 DEF PlainFrom, Harmless
<1>4. Held(c, K, p)
  <2>1. Len(b) <= Len(c) /\ Begins(b, c, Len(b) + 1) /\ PlainFrom(c, Len(b), Len(c))
    BY <1>2, <1>3
  <2> QED
    BY <1>1, <2>1, HeldPlain
<1>5. Tracked(c, q, s)
  <2>1. Around(c, h + 1, {"switch"}) = Around(b, l + 1, {"switch"})
    <3>1. l <= h /\ Begins(b, c, l + 1) /\ PlainFrom(c, l, h)
      BY <1>2, <1>3
    <3>2. \A kinds : Around(c, h + 1, kinds) = Around(b, l + 1, kinds)
      BY ONLY <3>1, l \in Nat, h \in Nat, AroundPlain
    <3> QED
      BY <3>2
  <2>2. /\ Len(b) <= Len(c) /\ Begins(b, c, Len(b) + 1)
        /\ \A m \in Len(b) + 1 .. Len(c) : c[m].k \notin {"case", "default"}
        /\ Around(c, Len(c) + 1, {"switch"}) = Around(b, Len(b) + 1, {"switch"})
    BY <1>2, <1>3, <2>1
  <2> QED
    BY <1>1, <2>2, TrackedKept
<1>6. ASSUME NEW m \in l + 1 .. h PROVE PlacedAt(c, m)
  <2>1. PICK i \in Nat : m = i + 1 /\ l <= i /\ i \in l .. h
    <3>1. m - 1 \in Nat /\ m = (m - 1) + 1 /\ l <= m - 1 /\ m - 1 \in l .. h
      OBVIOUS
    <3> QED
      BY <3>1
  <2>2. PlainFrom(c, l, i)
    BY <1>3, <2>1 DEF PlainFrom
  <2>3. /\ Around(c, m, Leavable) = Around(b, l + 1, Leavable)
        /\ Around(c, m, {"loop"}) = Around(b, l + 1, {"loop"})
    BY <1>2, <2>1, <2>2, AroundPlain
  <2>4. Around(b, l + 1, Leavable) = {p[j] : j \in LeavableAt(K)}
    BY <1>1, <1>2 DEF Held
  <2>5. /\ c[m].k \notin {"case", "default"}
        /\ c[m].k = "break" => LeavableAt(K) # {}
        /\ c[m].k = "continue" => \E j \in 1 .. Len(K) : K[j] = "loop"
    BY <1>2 DEF Harmless
  <2>6. ASSUME NEW j \in 1 .. Len(K), K[j] = "loop" PROVE Around(b, l + 1, {"loop"}) # {}
    <3>1. j \in LeavableAt(K)
      BY <2>6 DEF LeavableAt, Leavable
    <3>2. p[j] \in Around(b, l + 1, Leavable) /\ b[p[j]].k \in {"loop"}
      BY <1>1, <2>4, <2>6, <3>1 DEF Held
    <3> QED
      BY <3>2, AroundSwitches
  <2> QED
    BY <2>3, <2>4, <2>5, <2>6 DEF PlacedAt
<1>7. Placed(c)
  BY <1>2, <1>6, PlacedMore
<1> QED
  BY <1>1, <1>4, <1>5, <1>7 DEF Located

LEMMA LocatedLabels ==
  ASSUME NEW T, NEW b \in Seq(T), NEW c \in Seq(T), Extends(b, c), NEW K, NEW s, NEW s2,
         NEW t, NEW t2, Len(s) \in Nat \ {0}, s[Len(s)] = t, LastIs(s, s2, t2), Labelled(b, c, t, t2),
         Located(b, K, s), Placed(b)
  PROVE  Located(c, K, s2) /\ Placed(c)
<1>1. PICK p \in Seq(Nat), q \in Seq(Nat) : Held(b, K, p) /\ Tracked(b, q, s)
  BY DEF Located
<1>2. Len(b) <= Len(c) /\ Begins(b, c, Len(b) + 1)
  BY DEF Extends
<1>3. Len(q) \in Nat \ {0}
  BY <1>1 DEF Tracked
<1>4. Tracked(c, q, s2) /\ \A m \in Len(b) + 1 .. Len(c) : PlacedAt(c, m)
  BY <1>1, <1>2, <1>3, TrackedLabels
<1>5. PlainFrom(c, Len(b), Len(c))
  BY DEF PlainFrom, Labelled, Openers
<1>6. Held(c, K, p)
  BY <1>1, <1>2, <1>5, HeldPlain
<1>7. Placed(c)
  BY <1>4, PlacedMore
<1> QED
  BY <1>1, <1>4, <1>6, <1>7 DEF Located

LEMMA OneAfterPlaced ==
  ASSUME NEW T, NEW b \in Seq(T), NEW c \in Seq(T), NEW k \in Openers \cup {"end"}, OneAfter(b, c, k),
         Placed(b)
  PROVE  Placed(c)
<1>1. Extends(b, c)
  BY DEF Extends, OneAfter
<1>2. \A m \in Len(b) + 1 .. Len(c) : PlacedAt(c, m)
  <2>1. \A m \in Len(b) + 1 .. Len(c) : m = Len(b) + 1
    BY DEF OneAfter
  <2> QED
    BY <2>1 DEF OneAfter, PlacedAt, Openers
<1> QED
  BY <1>1, <1>2, PlacedMore

LEMMA LocatedOpens ==
  ASSUME NEW T, NEW b \in Seq(T), NEW c \in Seq(T), NEW k \in Openers, OneAfter(b, c, k),
         NEW K \in Seq(Kinds), NEW K2 \in Seq(Kinds), Grown(K, K2, k), NEW s, NEW s2,
         IF k = "switch" THEN \E t : Grown(s, s2, t) ELSE s2 = s,
         Located(b, K, s), Placed(b)
  PROVE  Located(c, K2, s2) /\ Placed(c)
<1>1. PICK p \in Seq(Nat), q \in Seq(Nat) : Held(b, K, p) /\ Tracked(b, q, s)
  BY DEF Located
<1>2. Len(c) = Len(b) + 1 /\ Begins(b, c, Len(b) + 1) /\ c[Len(b) + 1].k = k
  BY DEF OneAfter
<1>3. \A r \in Seq(Nat) : \E r2 \in Seq(Nat) : Pointed(b, r, r2)
  <2> TAKE r \in Seq(Nat)
  <2>1. PICK x \in Nat : x = Len(b) + 1
    OBVIOUS
  <2>2. Append(r, x) \in Seq(Nat) /\ Grown(r, Append(r, x), x)
    BY Appended DEF Grown
  <2> QED
    BY <2>1, <2>2 DEF Pointed
<1>4. PICK p2 \in Seq(Nat) : Pointed(b, p, p2)
  BY <1>3
<1>5. PICK q2 \in Seq(Nat) : Pointed(b, q, q2)
  BY <1>3
<1>6. Held(c, K2, p2)
  BY <1>1, <1>4, HeldOpens
<1>7. CASE k = "switch"
  <2>1. PICK t : Grown(s, s2, t)
    BY <1>7
  <2>2. Tracked(c, q2, s2)
    BY <1>1, <1>5, <1>7, <2>1, TrackedOpens
  <2> QED
    BY <1>6, <2>2, OneAfterPlaced DEF Located
<1>8. CASE k # "switch"
  <2>1. \A j : j \in Around(c, Len(b) + 2, {"switch"}) <=> j \in Around(b, Len(b) + 1, {"switch"})
    <3>1. PICK l, kinds : l \in Nat /\ l = Len(b) /\ Begins(b, c, l + 1) /\ c[l + 1].k \in Openers /\ kinds = {"switch"}
      <4>1. Len(b) \in Nat /\ {"switch"} = {"switch"}
        OBVIOUS
      <4> QED
        BY ONLY <1>2, <4>1, k \in Openers
    <3>2. \A j : j \in Around(c, l + 2, kinds) <=>
                   j \in Around(b, l + 1, kinds) \/ (j = l + 1 /\ c[j].k \in kinds)
      BY <3>1, AroundOpens
    <3> QED
      BY <1>2, <1>8, <3>1, <3>2
  <2>2. Len(c) + 1 = Len(b) + 2 /\ Len(b) <= Len(c)
    BY <1>2
  <2>3. Around(c, Len(c) + 1, {"switch"}) = Around(b, Len(b) + 1, {"switch"})
    BY <2>1, <2>2
  <2>4. \A m \in Len(b) + 1 .. Len(c) : c[m].k \notin {"case", "default"}
    <3>1. \A m \in Len(b) + 1 .. Len(c) : m = Len(b) + 1
      BY <1>2
    <3> QED
      BY <1>2, <3>1 DEF Openers
  <2>5. Tracked(c, q, s)
    BY <1>1, <1>2, <2>2, <2>3, <2>4, TrackedKept
  <2> QED
    BY <1>6, <1>8, <2>5, OneAfterPlaced DEF Located
<1> QED
  BY <1>7, <1>8

LEMMA OneLess ==
  ASSUME NEW r \in Seq(Nat), NEW n \in Nat, Len(r) = n + 1
  PROVE  \E r2 \in Seq(Nat) : Len(r2) = n /\ Grown(r2, r, r[n + 1])
<1>1. n \in 0 .. Len(r)
  OBVIOUS
<1>2. PICK r2 : r2 = SubSeq(r, 1, n)
  OBVIOUS
<1>3. r2 \in Seq(Nat) /\ Len(r2) = n /\ \A i \in 1 .. n : r2[i] = r[i]
  BY <1>1, <1>2, Front
<1> QED
  BY <1>3 DEF Grown

LEMMA LocatedEnds ==
  ASSUME NEW T, NEW b \in Seq(T), NEW c \in Seq(T), OneAfter(b, c, "end"),
         NEW K \in Seq(Kinds), NEW K2 \in Seq(Kinds), NEW k \in Openers, Grown(K2, K, k), NEW s, NEW s2,
         Len(s2) \in Nat, IF k = "switch" THEN \E t : Grown(s2, s, t) ELSE s2 = s,
         Located(b, K, s), Placed(b)
  PROVE  Located(c, K2, s2) /\ Placed(c)
<1>1. PICK p \in Seq(Nat), q \in Seq(Nat) : Held(b, K, p) /\ Tracked(b, q, s)
  BY DEF Located
<1>2. Len(c) = Len(b) + 1 /\ Begins(b, c, Len(b) + 1) /\ c[Len(b) + 1].k = "end"
  BY DEF OneAfter
<1>3. PICK p2, x : p2 \in Seq(Nat) /\ Len(p2) \in Nat /\ Grown(p2, p, x)
  <2>1. PICK n \in Nat : n = Len(K2)
    OBVIOUS
  <2>2. Len(p) = n + 1
    BY <1>1, <2>1 DEF Held, Grown
  <2> QED
    BY <2>2, OneLess
<1>4. /\ Held(c, K2, p2)
      /\ Around(c, Len(b) + 2, {"switch"}) = Around(b, Len(b) + 1, {"switch"}) \ {j \in {x} : k = "switch"}
      /\ k = "switch" => /\ x \in Around(b, Len(b) + 1, {"switch"})
                         /\ \A j \in Around(b, Len(b) + 1, {"switch"}) : j <= x
  <2>1. Held(c, K2, p2) /\ SwitchEnds(b, c, k, x)
    BY <1>1, <1>3, HeldEnds
  <2> QED
    BY <2>1 DEF SwitchEnds
<1>5. CASE k = "switch"
  <2>1. PICK t : Grown(s2, s, t)
    BY <1>5
  <2>2. PICK q2, y : q2 \in Seq(Nat) /\ Grown(q2, q, y)
    <3>1. PICK n \in Nat : n = Len(s2)
      OBVIOUS
    <3>2. Len(q) = n + 1
      BY <1>1, <2>1, <3>1 DEF Tracked, Grown
    <3> QED
      BY <3>2, OneLess
  <2>3. Around(c, Len(b) + 2, {"switch"}) = Around(b, Len(b) + 1, {"switch"}) \ {x}
    BY <1>4, <1>5
  <2>4. Tracked(c, q2, s2)
    BY <1>1, <1>4, <1>5, <2>1, <2>2, <2>3, TrackedEnds
  <2> QED
    BY <1>3, <1>4, <2>2, <2>4, OneAfterPlaced DEF Located
<1>6. CASE k # "switch"
  <2>1. Len(c) + 1 = Len(b) + 2 /\ Len(b) <= Len(c)
    BY <1>2
  <2>2. Around(c, Len(c) + 1, {"switch"}) = Around(b, Len(b) + 1, {"switch"})
    BY <1>4, <1>6, <2>1
  <2>3. \A m \in Len(b) + 1 .. Len(c) : c[m].k \notin {"case", "default"}
    <3>1. \A m \in Len(b) + 1 .. Len(c) : m = Len(b) + 1
      BY <1>2
    <3> QED
      BY <1>2, <3>1
  <2>4. Tracked(c, q, s)
    BY <1>1, <1>2, <2>1, <2>2, <2>3, TrackedKept
  <2> QED
    BY <1>1, <1>3, <1>4, <1>6, <2>4, OneAfterPlaced DEF Located
<1> QED
  BY <1>5, <1>6

\* A label has a body but no bracket.
LEMMA LocatedUnmarked ==
  ASSUME NEW b, NEW K \in Seq(Kinds), NEW K2 \in Seq(Kinds), NEW k, k \notin Openers, Grown(K, K2, k), NEW s
  PROVE  Located(b, K, s) <=> Located(b, K2, s)
<1>1. ASSUME Located(b, K, s) PROVE Located(b, K2, s)
  <2>1. PICK p \in Seq(Nat), q \in Seq(Nat) : Held(b, K, p) /\ Tracked(b, q, s)
    BY <1>1 DEF Located
  <2>2. PICK p2 \in Seq(Nat) : Grown(p, p2, 0)
    <3>1. 0 \in Nat
      OBVIOUS
    <3>2. Append(p, 0) \in Seq(Nat) /\ Grown(p, Append(p, 0), 0)
      BY <3>1, Appended DEF Grown
    <3> QED
      BY <3>2
  <2>3. Held(b, K2, p2)
    BY <2>1, <2>2, HeldUnmarked
  <2> QED
    BY <2>1, <2>3 DEF Located
<1>2. ASSUME Located(b, K2, s) PROVE Located(b, K, s)
  <2>1. PICK p2 \in Seq(Nat), q \in Seq(Nat) : Held(b, K2, p2) /\ Tracked(b, q, s)
    BY <1>2 DEF Located
  <2>2. PICK p, x : p \in Seq(Nat) /\ Grown(p, p2, x)
    <3>1. PICK n \in Nat : n = Len(K)
      OBVIOUS
    <3>2. Len(p2) = n + 1
      BY <2>1, <3>1 DEF Held, Grown
    <3>3. \E r2 \in Seq(Nat) : Len(r2) = n /\ Grown(r2, p2, p2[n + 1])
      BY <3>2, OneLess
    <3> QED
      BY <3>3
  <2>3. Held(b, K, p)
    BY <2>1, <2>2, HeldUnmarked
  <2> QED
    BY <2>1, <2>2, <2>3 DEF Located
<1> QED
  BY <1>1, <1>2

\* No loop and no switch is being visited.
Unhindered(b) == Around(b, Len(b) + 1, Leavable) = {}

LEMMA LocatedNowhere ==
  ASSUME NEW b, NEW K \in Seq(Kinds), LeavableAt(K) = {}, NEW s
  PROVE  /\ Located(b, K, s) => Unhindered(b)
         /\ Unhindered(b) /\ s = << >> => Located(b, K, s)
<1>1. Located(b, K, s) => Unhindered(b)
  BY DEF Located, Held, Unhindered
<1>2. ASSUME Unhindered(b), s = << >> PROVE Located(b, K, s)
  <2>1. PICK n \in Nat : n = Len(K)
    OBVIOUS
  <2>2. PICK p \in Seq(Nat) : Len(p) = n
    <3>1. [i \in 1 .. n |-> 0] \in Seq(Nat) /\ Len([i \in 1 .. n |-> 0]) = n
      OBVIOUS
    <3> QED
      BY <3>1
  <2>3. Held(b, K, p)
    BY <1>2, <2>1, <2>2 DEF Held, Unhindered
  <2>4. PICK q \in Seq(Nat) : q = << >> /\ Len(q) = 0
    <3>1. << >> \in Seq(Nat) /\ Len(<< >>) = 0
      OBVIOUS
    <3> QED
      BY <3>1
  <2>5. Around(b, Len(b) + 1, {"switch"}) = {}
    <3>1. \A j : j \in Around(b, Len(b) + 1, {"switch"}) => j \in Around(b, Len(b) + 1, Leavable)
      BY AroundSwitches
    <3> QED
      BY <1>2, <3>1 DEF Unhindered
  <2>6. Tracked(b, q, s)
    <3>1. \A i : i \notin 1 .. Len(q)
      BY <2>4
    <3> QED
      BY <1>2, <2>4, <2>5, <3>1 DEF Tracked
  <2> QED
    BY <2>3, <2>6 DEF Located
<1> QED
  BY <1>1, <1>2

(***************************************************************************)
(* The statements around a visit: every other node of the stack            *)
(***************************************************************************)

Statements(stack) == [l \in 1 .. Len(stack) \div 2 |-> stack[2 * l - 1].kind]

LEMMA StatementsAre ==
  ASSUME NEW stack \in Seq(Nodes), Alternates(stack)
  PROVE  \E d \in Nat :
           /\ Len(stack) = 2 * d /\ Len(Statements(stack)) = d
           /\ Statements(stack) \in Seq(Kinds)
           /\ \A l \in 1 .. d : Statements(stack)[l] = stack[2 * l - 1].kind /\ 2 * l - 1 \in 1 .. Len(stack)
           /\ \A l \in 1 .. d : stack[2 * l].kind = "compound"
<1>1. PICK d \in Nat : /\ Len(stack) = 2 * d
                       /\ \A i \in 1 .. d : stack[2 * i - 1].kind # "compound" /\ stack[2 * i].kind = "compound"
  BY DEF Alternates
<1>2. Len(stack) \div 2 = d
  BY <1>1
<1>3. \A l \in 1 .. d : 2 * l - 1 \in 1 .. Len(stack)
  BY <1>1
<1>4. \A i \in 1 .. Len(stack) : stack[i].kind \in Kinds
  <2>1. \A i \in 1 .. Len(stack) : stack[i] \in Nodes
    OBVIOUS
  <2> QED
    BY <2>1 DEF Nodes
<1>5. Statements(stack) = [l \in 1 .. d |-> stack[2 * l - 1].kind]
  BY <1>2 DEF Statements
<1>6. Statements(stack) \in [1 .. d -> Kinds]
  BY <1>3, <1>4, <1>5
<1>7. Statements(stack) \in Seq(Kinds) /\ Len(Statements(stack)) = d
  BY <1>6
<1> QED
  BY <1>1, <1>3, <1>5, <1>7

LEMMA StatementsDown ==
  ASSUME NEW s \in Seq(Nodes), Alternates(s), NEW a \in Nodes, NEW b \in Nodes,
         a.kind # "compound", b.kind = "compound"
  PROVE  Grown(Statements(s), Statements(s \o << a, b >>), a.kind)
<1>1. PICK u : u = s \o << a, b >>
  OBVIOUS
<1>2. /\ u \in Seq(Nodes) /\ Len(u) = Len(s) + 2
      /\ \A i \in 1 .. Len(s) : u[i] = s[i]
      /\ u[Len(s) + 1] = a
  BY <1>1
<1>3. Alternates(u)
  BY <1>1, StackDown
<1>4. PICK d \in Nat : /\ Len(s) = 2 * d /\ Len(Statements(s)) = d
                       /\ \A l \in 1 .. d : Statements(s)[l] = s[2 * l - 1].kind /\ 2 * l - 1 \in 1 .. Len(s)
  BY StatementsAre
<1>5. PICK e \in Nat : /\ Len(u) = 2 * e /\ Len(Statements(u)) = e
                       /\ \A l \in 1 .. e : Statements(u)[l] = u[2 * l - 1].kind
  BY <1>2, <1>3, StatementsAre
<1>6. e = d + 1 /\ 2 * (d + 1) - 1 = Len(s) + 1 /\ d + 1 \in 1 .. e /\ \A l \in 1 .. d : l \in 1 .. e
  BY <1>2, <1>4, <1>5
<1>7. \A l \in 1 .. d : Statements(u)[l] = Statements(s)[l]
  BY <1>2, <1>4, <1>5, <1>6
<1>8. Statements(u)[d + 1] = a.kind
  BY <1>2, <1>5, <1>6
<1> QED
  BY <1>1, <1>4, <1>5, <1>6, <1>7, <1>8 DEF Grown

LEMMA StatementsUp ==
  ASSUME NEW s \in Seq(Nodes), Alternates(s), s # << >>
  PROVE  Grown(Statements(SubSeq(s, 1, Len(s) - 2)), Statements(s), s[Len(s) - 1].kind)
<1>1. PICK u : u = SubSeq(s, 1, Len(s) - 2)
  OBVIOUS
<1>2. u \in Seq(Nodes) /\ Alternates(u) /\ Len(s) >= 2
  BY <1>1, StackUp
<1>3. Len(u) = Len(s) - 2 /\ \A i \in 1 .. Len(u) : u[i] = s[i]
  <2>1. Len(s) - 2 \in 0 .. Len(s)
    BY <1>2
  <2> QED
    BY <1>1, <2>1, Front
<1>4. PICK d \in Nat : /\ Len(u) = 2 * d /\ Len(Statements(u)) = d
                       /\ \A l \in 1 .. d : Statements(u)[l] = u[2 * l - 1].kind /\ 2 * l - 1 \in 1 .. Len(u)
  BY <1>2, StatementsAre
<1>5. PICK e \in Nat : /\ Len(s) = 2 * e /\ Len(Statements(s)) = e
                       /\ \A l \in 1 .. e : Statements(s)[l] = s[2 * l - 1].kind
  BY StatementsAre
<1>6. e = d + 1 /\ 2 * (d + 1) - 1 = Len(s) - 1 /\ d + 1 \in 1 .. e /\ \A l \in 1 .. d : l \in 1 .. e
  BY <1>3, <1>4, <1>5
<1>7. \A l \in 1 .. d : Statements(u)[l] = Statements(s)[l]
  BY <1>3, <1>4, <1>5, <1>6
<1>8. Statements(s)[d + 1] = s[Len(s) - 1].kind
  BY <1>5, <1>6
<1> QED
  BY <1>1, <1>4, <1>5, <1>6, <1>7, <1>8 DEF Grown

\* One statement in the place of another of its kind.
LEMMA StatementsElse ==
  ASSUME NEW s \in Seq(Nodes), Alternates(s), s # << >>, NEW a \in Nodes, NEW b \in Nodes,
         a.kind # "compound", b.kind = "compound", a.kind = s[Len(s) - 1].kind
  PROVE  Statements(SubSeq(s, 1, Len(s) - 2) \o << a, b >>) = Statements(s)
<1>1. PICK u : u = SubSeq(s, 1, Len(s) - 2)
  OBVIOUS
<1>2. u \in Seq(Nodes) /\ Alternates(u)
  BY <1>1, StackUp
<1>3. PICK v : v = u \o << a, b >>
  OBVIOUS
<1>4. v \in Seq(Nodes) /\ Alternates(v)
  BY <1>2, <1>3, StackDown
<1>5. Grown(Statements(u), Statements(v), a.kind) /\ Grown(Statements(u), Statements(s), a.kind)
  BY <1>1, <1>2, <1>3, StatementsDown, StatementsUp
<1>6. /\ Statements(u) \in Seq(Kinds) /\ Statements(v) \in Seq(Kinds) /\ Statements(s) \in Seq(Kinds)
  BY <1>2, <1>4, StatementsAre
<1>7. PICK d \in Nat : d = Len(Statements(u))
  BY <1>6
<1>8. \A l \in 1 .. d + 1 : l \in 1 .. d \/ l = d + 1
  BY <1>7
<1>9. /\ Len(Statements(v)) = d + 1 /\ Len(Statements(s)) = d + 1
      /\ \A l \in 1 .. d + 1 : Statements(v)[l] = Statements(s)[l]
  BY <1>5, <1>7, <1>8 DEF Grown
<1>10. Statements(v) = Statements(s)
  BY <1>6, <1>9
<1> QED
  BY <1>1, <1>3, <1>10

\* What in_node finds.
LEMMA InNodes ==
  ASSUME ctxt \in Seq(Nodes), NEW kind
  PROVE  In(kind) <=> \E i \in 1 .. Len(ctxt) : ctxt[i].kind = kind
<1> DEFINE at == {i \in 1 .. Len(ctxt) : ctxt[i].kind = kind}
<1>1. CASE at = {}
  BY <1>1 DEF In, InNode
<1>2. CASE at # {}
  <2>1. PICK m \in Nat : m = Len(ctxt)
    OBVIOUS
  <2>2. at \subseteq 1 .. m
    BY <2>1
  <2>3. PICK p \in at : \A y \in at : y <= p
    <3> HIDE DEF at
    <3> QED
      BY <1>2, <2>2, Greatest
  <2>4. InNode(ctxt, kind) = Len(ctxt) - p
    BY <2>3, InNodeIs
  <2> QED
    BY <1>2, <2>1, <2>2, <2>3, <2>4 DEF In
<1> QED
  BY <1>1, <1>2

LEMMA StatementsHave ==
  ASSUME ctxt \in Seq(Nodes), Alternates(ctxt), NEW kind, kind # "compound"
  PROVE  In(kind) <=> \E l \in 1 .. Len(Statements(ctxt)) : Statements(ctxt)[l] = kind
<1>1. PICK d \in Nat : /\ Len(ctxt) = 2 * d /\ Len(Statements(ctxt)) = d
                       /\ \A l \in 1 .. d : Statements(ctxt)[l] = ctxt[2 * l - 1].kind /\ 2 * l - 1 \in 1 .. Len(ctxt)
                       /\ \A l \in 1 .. d : ctxt[2 * l].kind = "compound"
  BY StatementsAre
<1>2. In(kind) <=> \E i \in 1 .. Len(ctxt) : ctxt[i].kind = kind
  BY InNodes
<1>3. ASSUME NEW i \in 1 .. Len(ctxt), ctxt[i].kind = kind
      PROVE  \E l \in 1 .. d : Statements(ctxt)[l] = kind
  <2>1. i \in 1 .. 2 * d
    BY <1>1
  <2>2. PICK h \in Nat : i = 2 * h \/ i = 2 * h + 1
    <3>1. i \div 2 \in Nat /\ (i = 2 * (i \div 2) \/ i = 2 * (i \div 2) + 1)
      BY <2>1
    <3> QED
      BY <3>1
  <2>3. CASE i = 2 * h
    <3>1. h \in 1 .. d
      BY <2>1, <2>3
    <3> QED
      BY <1>1, <1>3, <2>3, <3>1
  <2>4. CASE i = 2 * h + 1
    <3>1. h + 1 \in 1 .. d /\ 2 * (h + 1) - 1 = i
      BY <2>1, <2>4
    <3> QED
      BY <1>1, <1>3, <3>1
  <2> QED
    BY <2>2, <2>3, <2>4
<1>4. ASSUME NEW l \in 1 .. d, Statements(ctxt)[l] = kind
      PROVE  \E i \in 1 .. Len(ctxt) : ctxt[i].kind = kind
  BY <1>1, <1>4
<1> QED
  BY <1>1, <1>2, <1>3, <1>4

(***************************************************************************)
(* The invariant                                                           *)
(***************************************************************************)

\* No function is nested in a loop or in a switch.
Flat(K) == \A i, j \in 1 .. Len(K) : i < j /\ K[j] = "function" => K[i] \notin Leavable

\* The loops and switches being visited are those of the innermost function.
Nested ==
  /\ Flat(Statements(ctxt))
  /\ Located(source.body[Within], Statements(ctxt), switches)
  /\ \A o \in Owners \ {Within} : Unhindered(source.body[o])

JInv ==
  /\ \A o \in Owners : Placed(source.body[o])
  /\ ~errors /\ ~validated => Nested

\* A step of both walks that is not the last.
Ready == Inv /\ JInv /\ ~errors /\ ~validated /\ Inv' /\ ~errors' /\ ~validated'

Body == source.body[Within]
Now == Statements(ctxt)

LEMMA ReadyHas ==
  ASSUME Ready
  PROVE  /\ StackInv /\ source \in Sources /\ source.body \in [Owners -> Seq(Only(Items, "item"))]
         /\ ctxt \in Seq(Nodes) /\ Alternates(ctxt) /\ (ctxt \in Seq(Nodes))' /\ Alternates(ctxt')
         /\ Within \in Owners /\ Body \in Seq(Only(Items, "item"))
         /\ Now \in Seq(Kinds) /\ Now' \in Seq(Kinds)
         /\ Flat(Now) /\ Located(Body, Now, switches) /\ Placed(Body)
<1>1. /\ StackInv /\ source \in Sources /\ Goes /\ StackInv' /\ Nested
      /\ \A o \in Owners : Placed(source.body[o])
  BY DEF Ready, Inv, ValInv, JInv
<1>2. source.body \in [Owners -> Seq(Only(Items, "item"))]
  BY <1>1 DEF Sources
<1>3. ctxt \in Seq(Nodes) /\ Alternates(ctxt) /\ (ctxt \in Seq(Nodes))' /\ Alternates(ctxt')
  BY <1>1 DEF StackInv
<1>4. Within \in Owners
  <2>1. Inside
    BY <1>1, GoesHas
  <2> QED
    BY <2>1 DEF Inside, Owners
<1>5. Now \in Seq(Kinds) /\ Now' \in Seq(Kinds)
  <2>1. Statements(ctxt) \in Seq(Kinds)
    BY <1>3, StatementsAre
  <2>2. Statements(ctxt') \in Seq(Kinds)
    BY <1>3, StatementsAre
  <2> QED
    BY <2>1, <2>2 DEF Now, Statements
<1> QED
  BY <1>1, <1>2, <1>3, <1>4, <1>5 DEF Nested, Body, Now

LEMMA GoesInside == StackInv /\ Goes => Inside
BY GoesHas

LEMMA InsideAfter == (StackInv /\ Goes)' => Inside'
<1>1. StackInv /\ Goes => Inside
  BY GoesInside
<1> QED
  BY <1>1, PTL

LEMMA WithinKept ==
  ASSUME Ready, func_stack' = func_stack
  PROVE  Within' = Within
<1>1. Inside /\ Inside'
  <2>1. StackInv /\ Goes /\ StackInv' /\ Goes'
    BY DEF Ready, Inv, ValInv
  <2> QED
    BY <2>1, GoesInside, InsideAfter
<1> QED
  BY <1>1 DEF Inside

\* A step within a function, whose body becomes c.
LEMMA StaysPlaced ==
  ASSUME Ready, func_stack' = func_stack, NEW c, source'.body = [source.body EXCEPT ![Within] = c],
         Flat(Now'), Located(c, Now', switches'), Placed(c)
  PROVE  JInv'
<1>1. /\ source.body \in [Owners -> Seq(Only(Items, "item"))] /\ Within \in Owners
      /\ \A o \in Owners : Placed(source.body[o])
      /\ \A o \in Owners \ {Within} : Unhindered(source.body[o])
  <2>1. JInv /\ ~errors /\ ~validated
    BY DEF Ready
  <2> QED
    BY <2>1, ReadyHas DEF JInv, Nested
<1>2. Within' = Within
  BY WithinKept
<1>3. \A o \in Owners : source'.body[o] = IF o = Within THEN c ELSE source.body[o]
  BY <1>1
<1>4. \A o \in Owners : Placed(source'.body[o])
  BY <1>1, <1>3
<1>5. \A o \in Owners \ {Within'} : Unhindered(source'.body[o])
  BY <1>1, <1>2, <1>3
<1>6. Located(source'.body[Within'], Now', switches')
  BY <1>1, <1>2, <1>3
<1> QED
  BY <1>4, <1>5, <1>6 DEF JInv, Nested, Now

LEMMA FlatGrown ==
  ASSUME NEW K \in Seq(Kinds), NEW K2 \in Seq(Kinds), NEW k, Grown(K, K2, k)
  PROVE  /\ Flat(K2) => Flat(K)
         /\ Flat(K) /\ (k = "function" => LeavableAt(K) = {}) => Flat(K2)
         /\ Flat(K2) /\ k = "function" => LeavableAt(K) = {}
<1>1. PICK d \in Nat : /\ d = Len(K) /\ Len(K2) = d + 1 /\ K2[d + 1] = k
                       /\ \A i \in 1 .. d : K2[i] = K[i]
  <2>1. Len(K) \in Nat
    OBVIOUS
  <2> QED
    BY <2>1 DEF Grown
<1>2. ASSUME Flat(K2) PROVE Flat(K)
  BY <1>1, <1>2 DEF Flat
<1>3. ASSUME Flat(K), k = "function" => LeavableAt(K) = {} PROVE Flat(K2)
  <2> SUFFICES ASSUME NEW i \in 1 .. d + 1, NEW j \in 1 .. d + 1, i < j, K2[j] = "function"
               PROVE  K2[i] \notin Leavable
    BY <1>1 DEF Flat
  <2>1. i \in 1 .. d /\ K2[i] = K[i]
    BY <1>1
  <2>2. CASE j \in 1 .. d
    BY <1>1, <1>3, <2>1, <2>2 DEF Flat
  <2>3. CASE j = d + 1
    BY <1>1, <1>3, <2>1, <2>3 DEF LeavableAt
  <2> QED
    BY <2>2, <2>3
<1>4. ASSUME Flat(K2), k = "function" PROVE LeavableAt(K) = {}
  <2>1. ASSUME NEW i \in 1 .. d PROVE K[i] \notin Leavable
    <3>1. i \in 1 .. d + 1 /\ d + 1 \in 1 .. d + 1 /\ i < d + 1
      BY <1>1
    <3> QED
      BY <1>1, <1>4, <3>1 DEF Flat
  <2> QED
    BY <1>1, <2>1 DEF LeavableAt
<1> QED
  BY <1>2, <1>3, <1>4

\* An item that opens and ends nothing, labels nothing, and is in place
\* between the statements of kinds K.
Innocent(item, K) ==
  /\ item.k \notin Openers \cup {"end", "case", "default"}
  /\ item.k = "break" => LeavableAt(K) # {}
  /\ item.k = "continue" => \E l \in 1 .. Len(K) : K[l] = "loop"

LEMMA Concatenated ==
  ASSUME NEW T, NEW b \in Seq(T), NEW e \in Seq(T), NEW K
  PROVE  /\ b \o e \in Seq(T) /\ Extends(b, b \o e)
         /\ \A m \in Len(b) + 1 .. Len(b \o e) : m - Len(b) \in 1 .. Len(e) /\ (b \o e)[m] = e[m - Len(b)]
         /\ (\A i \in 1 .. Len(e) : Innocent(e[i], K)) => Harmless(b, b \o e, K)
         /\ \A item : e = << item >> => OneAfter(b, b \o e, item.k)
<1>1. PICK c : c = b \o e
  OBVIOUS
<1>2. PICK l \in Nat, h \in Nat : l = Len(b) /\ h = Len(e)
  <2>1. Len(b) \in Nat /\ Len(e) \in Nat
    OBVIOUS
  <2> QED
    BY <2>1
<1>3. /\ c \in Seq(T) /\ Len(c) = l + h
      /\ \A i \in 1 .. l + h : c[i] = IF i <= l THEN b[i] ELSE e[i - l]
  BY <1>1, <1>2
<1>4. Extends(b, c)
  <2>1. l <= l + h /\ \A m \in 1 .. (l + 1) - 1 : m \in 1 .. l + h /\ m <= l
    BY <1>2
  <2> QED
    BY <1>2, <1>3, <2>1 DEF Extends, Begins
<1>5. \A m \in l + 1 .. l + h : m - l \in 1 .. h /\ c[m] = e[m - l]
  BY <1>2, <1>3
<1>6. (\A i \in 1 .. h : Innocent(e[i], K)) => Harmless(b, c, K)
  <2>1. ASSUME \A i \in 1 .. h : Innocent(e[i], K), NEW m \in l + 1 .. l + h PROVE Innocent(c[m], K)
    BY <1>5, <2>1
  <2> QED
    BY <1>2, <1>3, <2>1 DEF Harmless, Innocent
<1>7. ASSUME NEW item, e = << item >> PROVE OneAfter(b, c, item.k)
  <2>1. h = 1 /\ e[1] = item
    BY <1>2, <1>7
  <2>2. c[l + 1] = item
    <3>1. l + 1 \in l + 1 .. l + h /\ (l + 1) - l = 1
      BY <1>2, <2>1
    <3> QED
      BY <1>5, <2>1, <3>1
  <2> QED
    BY <1>2, <1>3, <1>4, <2>1, <2>2 DEF OneAfter, Extends
<1> QED
  BY <1>1, <1>2, <1>3, <1>4, <1>5, <1>6, <1>7

LEMMA HereBody ==
  ASSUME source \in Sources, NEW items
  PROVE  /\ Here(items).body = [source.body EXCEPT ![Within] = Body \o items]
         /\ Closing(items).body = [source.body EXCEPT ![Within] = Body \o items]
BY DEF Sources, Here, Closing, Body

(***************************************************************************)
(* The steps                                                               *)
(***************************************************************************)

\* The body of the function goes on with items, in a step of that function.
GoesOn(items) ==
  /\ func_stack' = func_stack
  /\ source'.body = [source.body EXCEPT ![Within] = Body \o items]

LEMMA PlainStatement ==
  ASSUME Ready, NEW items \in Seq(Only(Items, "item")), GoesOn(items), Now' = Now, switches' = switches,
         \A i \in 1 .. Len(items) : Innocent(items[i], Now)
  PROVE  JInv'
<1>1. PICK c : c = Body \o items
  OBVIOUS
<1>2. /\ Body \in Seq(Only(Items, "item")) /\ Now \in Seq(Kinds)
      /\ Flat(Now) /\ Located(Body, Now, switches) /\ Placed(Body)
  BY ReadyHas
<1>3. c \in Seq(Only(Items, "item")) /\ Extends(Body, c) /\ Harmless(Body, c, Now)
  BY <1>1, <1>2, Concatenated
<1>4. Located(c, Now, switches) /\ Placed(c)
  BY <1>2, <1>3, LocatedPlain
<1> QED
  BY <1>1, <1>2, <1>4, StaysPlaced DEF GoesOn

LEMMA StatementOpens ==
  ASSUME Ready, NEW k \in Openers, NEW open \in Only(Items, "item"), open.k = k,
         NEW more \in Seq(Only(Items, "item")), GoesOn(<< open >> \o more),
         Grown(Now, Now', k), IF k = "switch" THEN \E t : Grown(switches, switches', t) ELSE switches' = switches,
         \A i \in 1 .. Len(more) : Innocent(more[i], Now')
  PROVE  JInv'
<1>1. PICK c : c = Body \o << open >>
  OBVIOUS
<1>2. PICK e : e = c \o more
  OBVIOUS
<1>3. /\ Body \in Seq(Only(Items, "item")) /\ Now \in Seq(Kinds) /\ Now' \in Seq(Kinds)
      /\ Flat(Now) /\ Located(Body, Now, switches) /\ Placed(Body)
  BY ReadyHas
<1>4. << open >> \in Seq(Only(Items, "item"))
  OBVIOUS
<1>5. c \in Seq(Only(Items, "item")) /\ OneAfter(Body, c, k)
  BY <1>1, <1>3, <1>4, Concatenated
<1>6. Located(c, Now', switches') /\ Placed(c)
  BY <1>3, <1>5, LocatedOpens
<1>7. e \in Seq(Only(Items, "item")) /\ Extends(c, e) /\ Harmless(c, e, Now')
  BY <1>2, <1>5, Concatenated
<1>8. Located(e, Now', switches') /\ Placed(e)
  BY <1>5, <1>6, <1>7, LocatedPlain
<1>9. e = Body \o (<< open >> \o more)
  BY <1>1, <1>2, <1>3, <1>4, ConcatAssociative
<1>10. Flat(Now')
  <2>1. k # "function"
    BY DEF Openers
  <2> QED
    BY <1>3, <2>1, FlatGrown
<1> QED
  BY <1>8, <1>9, <1>10, StaysPlaced DEF GoesOn

LEMMA StatementEnds ==
  ASSUME Ready, NEW k \in Openers, NEW end \in Only(Items, "item"), end.k = "end",
         GoesOn(<< end >>), Grown(Now', Now, k),
         IF k = "switch" THEN \E t : Grown(switches', switches, t) ELSE switches' = switches
  PROVE  JInv'
<1>1. PICK c : c = Body \o << end >>
  OBVIOUS
<1>2. /\ Body \in Seq(Only(Items, "item")) /\ Now \in Seq(Kinds) /\ Now' \in Seq(Kinds)
      /\ Flat(Now) /\ Located(Body, Now, switches) /\ Placed(Body)
  BY ReadyHas
<1>3. << end >> \in Seq(Only(Items, "item"))
  OBVIOUS
<1>4. c \in Seq(Only(Items, "item")) /\ OneAfter(Body, c, "end")
  <2>1. /\ Body \o << end >> \in Seq(Only(Items, "item"))
        /\ \A item : << end >> = << item >> => OneAfter(Body, Body \o << end >>, item.k)
    BY <1>2, <1>3, Concatenated
  <2>2. OneAfter(Body, Body \o << end >>, end.k)
    BY <2>1
  <2> QED
    BY <1>1, <2>1, <2>2
<1>5. Len(switches') \in Nat
  <2>1. switches' \in Seq(Trackers)
    BY DEF Ready, Inv, ValInv, StackInv
  <2> QED
    BY <2>1
<1>6. Located(c, Now', switches') /\ Placed(c)
  BY <1>2, <1>4, <1>5, LocatedEnds
<1>7. Flat(Now')
  BY <1>2, FlatGrown
<1> QED
  BY <1>1, <1>6, <1>7, StaysPlaced DEF GoesOn

LEMMA LabelOpens ==
  ASSUME Ready, NEW label \in Only(Items, "item"), label.k = "label", GoesOn(<< label >>),
         Grown(Now, Now', "label"), switches' = switches
  PROVE  JInv'
<1>1. PICK c : c = Body \o << label >>
  OBVIOUS
<1>2. /\ Body \in Seq(Only(Items, "item")) /\ Now \in Seq(Kinds) /\ Now' \in Seq(Kinds)
      /\ Flat(Now) /\ Located(Body, Now, switches) /\ Placed(Body)
  BY ReadyHas
<1>3. << label >> \in Seq(Only(Items, "item")) /\ Len(<< label >>) = 1 /\ << label >>[1] = label
  OBVIOUS
<1>4. Innocent(label, Now)
  BY DEF Innocent, Openers
<1>5. \A i \in 1 .. Len(<< label >>) : Innocent(<< label >>[i], Now)
  BY <1>3, <1>4
<1>6. c \in Seq(Only(Items, "item")) /\ Extends(Body, c) /\ Harmless(Body, c, Now)
  BY <1>1, <1>2, <1>3, <1>5, Concatenated
<1>7. Located(c, Now, switches) /\ Placed(c)
  BY <1>2, <1>6, LocatedPlain
<1>8. Located(c, Now', switches')
  <2>1. "label" \notin Openers
    BY DEF Openers
  <2> QED
    BY <1>2, <1>7, <2>1, LocatedUnmarked
<1>9. Flat(Now')
  BY <1>2, FlatGrown
<1> QED
  BY <1>1, <1>7, <1>8, <1>9, StaysPlaced DEF GoesOn

LEMMA LabelEnds ==
  ASSUME Ready, func_stack' = func_stack, source' = source, Grown(Now', Now, "label"), switches' = switches
  PROVE  JInv'
<1>1. /\ Body \in Seq(Only(Items, "item")) /\ Now \in Seq(Kinds) /\ Now' \in Seq(Kinds)
      /\ Flat(Now) /\ Located(Body, Now, switches) /\ Placed(Body)
      /\ source.body \in [Owners -> Seq(Only(Items, "item"))]
  BY ReadyHas
<1>2. Located(Body, Now', switches')
  <2>1. "label" \notin Openers
    BY DEF Openers
  <2> QED
    BY <1>1, <2>1, LocatedUnmarked
<1>3. Flat(Now')
  BY <1>1, FlatGrown
<1>4. source'.body = [source.body EXCEPT ![Within] = Body]
  BY <1>1 DEF Body
<1> QED
  BY <1>1, <1>2, <1>3, <1>4, StaysPlaced

\* No loop and no switch is being visited, before the step and after it.
LEMMA NoneOpen ==
  ASSUME Ready, source'.body = source.body, switches' = switches,
         LeavableAt(Now) = {}, LeavableAt(Now') = {}, Flat(Now')
  PROVE  JInv'
<1>1. /\ Now \in Seq(Kinds) /\ Now' \in Seq(Kinds) /\ Located(Body, Now, switches) /\ StackInv
      /\ ctxt \in Seq(Nodes) /\ Alternates(ctxt)
  BY ReadyHas
<1>2. switches = << >>
  <2>1. ~In("switch")
    <3>1. In("switch") => \E l \in 1 .. Len(Statements(ctxt)) : Statements(ctxt)[l] = "switch"
      BY <1>1, StatementsHave
    <3>2. \A l \in 1 .. Len(Now) : Now[l] # "switch"
      BY DEF LeavableAt, Leavable
    <3> QED
      BY <3>1, <3>2 DEF Now
  <2>2. SwitchNodes(ctxt) = {}
    BY <1>1, <2>1, InNodes DEF SwitchNodes
  <2>3. Len(switches) = 0 /\ switches \in Seq(Trackers)
    BY <1>1, <2>2, FS_EmptySet DEF StackInv, TrackersInStep, SwitchNodes
  <2> QED
    BY <2>3
<1>3. \A o \in Owners : Unhindered(source.body[o]) /\ Placed(source.body[o])
  <2>1. JInv /\ ~errors /\ ~validated
    BY DEF Ready
  <2>2. Unhindered(Body)
    BY <1>1, LocatedNowhere
  <2> QED
    BY <2>1, <2>2 DEF JInv, Nested, Body
<1>4. Within' \in Owners
  <2>1. Inside'
    <3>1. StackInv' /\ Goes'
      BY DEF Ready, Inv, ValInv
    <3> QED
      BY <3>1, InsideAfter
  <2> QED
    BY <2>1 DEF Inside, Owners
<1>5. Located(source'.body[Within'], Now', switches')
  BY <1>1, <1>2, <1>3, <1>4, LocatedNowhere
<1> QED
  BY <1>3, <1>5 DEF JInv, Nested, Now

LEMMA ReadyDown ==
  ASSUME Ready, NEW kind \in Kinds \ {"compound"}, NEW of \in Owners, NEW part \in {"then", "else", "body"},
         ctxt' = Down(kind, of, part)
  PROVE  Grown(Now, Now', kind)
<1>1. ctxt \in Seq(Nodes) /\ Alternates(ctxt)
  BY ReadyHas
<1>2. PICK a \in Nodes, b \in Nodes : /\ a = Node(kind, of, part) /\ a.kind = kind
                                      /\ b = Node("compound", NoFunc, "body") /\ b.kind = "compound"
  <2>1. "compound" \in Kinds /\ NoFunc \in Owners
    BY DEF Kinds, Owners
  <2> QED
    BY <2>1, NodeType
<1>3. Grown(Statements(ctxt), Statements(ctxt \o << a, b >>), kind)
  BY <1>1, <1>2, StatementsDown
<1> QED
  BY <1>2, <1>3 DEF Down, Now

LEMMA ReadyUp ==
  ASSUME Ready, ctxt # << >>, ctxt' = Above(2)
  PROVE  Grown(Now', Now, Holder.kind)
<1>1. ctxt \in Seq(Nodes) /\ Alternates(ctxt)
  BY ReadyHas
<1>2. Grown(Statements(SubSeq(ctxt, 1, Len(ctxt) - 2)), Statements(ctxt), ctxt[Len(ctxt) - 1].kind)
  BY <1>1, StatementsUp
<1> QED
  BY <1>2 DEF Above, Holder, Now

LEMMA ReadyElse ==
  ASSUME Ready, InBody("if"), ctxt' = Above(2) \o << Node("if", NoFunc, "else"), Inner >>
  PROVE  Now' = Now
<1>1. ctxt \in Seq(Nodes) /\ Alternates(ctxt) /\ ctxt # << >> /\ ctxt[Len(ctxt) - 1].kind = "if"
  BY ReadyHas DEF InBody, Holder
<1>2. PICK a \in Nodes : a = Node("if", NoFunc, "else") /\ a.kind = "if"
  <2>1. "if" \in Kinds /\ NoFunc \in Owners
    BY DEF Kinds, Owners
  <2> QED
    BY <2>1, NodeType
<1>3. PICK b \in Nodes : b = Inner /\ b.kind = "compound"
  <2>1. ctxt[Len(ctxt)].kind = "compound" /\ Len(ctxt) \in 1 .. Len(ctxt)
    BY <1>1, StackUp
  <2> QED
    BY <1>1, <2>1 DEF Inner
<1>4. Statements(SubSeq(ctxt, 1, Len(ctxt) - 2) \o << a, b >>) = Statements(ctxt)
  <2>1. a.kind # "compound" /\ b.kind = "compound" /\ a.kind = ctxt[Len(ctxt) - 1].kind
    BY <1>1, <1>2, <1>3
  <2> QED
    BY ONLY <1>1, <2>1, a \in Nodes, b \in Nodes, StatementsElse
<1> QED
  BY <1>2, <1>3, <1>4 DEF Above, Now

LEMMA ReadyIn ==
  ASSUME Ready
  PROVE  /\ In("loop") <=> \E l \in 1 .. Len(Now) : Now[l] = "loop"
         /\ In("loop") \/ In("switch") <=> LeavableAt(Now) # {}
<1>1. ctxt \in Seq(Nodes) /\ Alternates(ctxt)
  BY ReadyHas
<1>2. /\ In("loop") <=> \E l \in 1 .. Len(Now) : Now[l] = "loop"
      /\ In("switch") <=> \E l \in 1 .. Len(Now) : Now[l] = "switch"
  BY <1>1, StatementsHave DEF Now
<1> QED
  BY <1>2 DEF LeavableAt, Leavable

\* The labels of the innermost switch, one after the other.
NewLabel(items, i, t, t2) ==
  /\ items[i].k \in {"case", "default"}
  /\ items[i].k = "case" => items[i].x \in t2.cases \ t.cases
  /\ items[i].k = "default" => t2.dflt /\ ~t.dflt
  /\ \A j \in 1 .. i - 1 : ~SameLabel(items, j, i)

LEMMA LabelStatement ==
  ASSUME Ready, NEW items \in Seq(Only(Items, "item")), GoesOn(items), Now' = Now, In("switch"),
         NEW t2 \in Trackers, switches' = Track(t2),
         Tracker.cases \subseteq t2.cases, Tracker.dflt => t2.dflt,
         \A i \in 1 .. Len(items) : NewLabel(items, i, Tracker, t2)
  PROVE  JInv'
<1>1. PICK c : c = Body \o items
  OBVIOUS
<1>2. /\ Body \in Seq(Only(Items, "item")) /\ StackInv
      /\ Flat(Now) /\ Located(Body, Now, switches) /\ Placed(Body)
  BY ReadyHas
<1>3. /\ c \in Seq(Only(Items, "item")) /\ Extends(Body, c)
      /\ \A m \in Len(Body) + 1 .. Len(c) : m - Len(Body) \in 1 .. Len(items) /\ c[m] = items[m - Len(Body)]
  BY <1>1, <1>2, Concatenated
<1>4. Len(switches) \in Nat \ {0} /\ switches[Len(switches)] = Tracker /\ switches \in Seq(Trackers)
  BY <1>2, HasTracker DEF StackInv, Tracker
<1>5. LastIs(switches, switches', t2)
  BY <1>4, Replaced DEF Track, LastIs
<1>6. Labelled(Body, c, Tracker, t2)
  <2>1. PICK l \in Nat, h \in Nat : l = Len(Body) /\ h = Len(c)
    <3>1. Len(Body) \in Nat /\ Len(c) \in Nat
      BY <1>2, <1>3
    <3> QED
      BY <3>1
  <2>2. ASSUME NEW m \in l + 1 .. h, NEW n \in l + 1 .. m - 1
        PROVE  ~SameLabel(c, n, m)
    <3>1. m - l \in 1 .. Len(items) /\ c[m] = items[m - l] /\ n - l \in 1 .. (m - l) - 1 /\ n \in l + 1 .. h
      BY <1>3, <2>1
    <3>2. c[n] = items[n - l]
      BY <1>3, <2>1, <3>1
    <3>3. ~SameLabel(items, n - l, m - l)
      BY <3>1 DEF NewLabel
    <3> QED
      BY <3>1, <3>2, <3>3 DEF SameLabel
  <2>3. ASSUME NEW m \in l + 1 .. h
        PROVE  /\ c[m].k \in {"case", "default"}
               /\ c[m].k = "case" => c[m].x \in t2.cases \ Tracker.cases
               /\ c[m].k = "default" => t2.dflt /\ ~Tracker.dflt
    <3>1. m - l \in 1 .. Len(items) /\ c[m] = items[m - l]
      BY <1>3, <2>1
    <3> QED
      BY <3>1 DEF NewLabel
  <2> QED
    BY <2>1, <2>2, <2>3 DEF Labelled
<1>7. Located(c, Now, switches') /\ Placed(c)
  BY <1>2, <1>3, <1>4, <1>5, <1>6, LocatedLabels
<1> QED
  BY <1>1, <1>2, <1>7, StaysPlaced DEF GoesOn

AllInnocent(items, K) == \A i \in 1 .. Len(items) : Innocent(items[i], K)

LEMMA OneInnocent ==
  ASSUME NEW item, NEW K, Innocent(item, K)
  PROVE  AllInnocent(<< item >>, K) /\ AllInnocent(<< >>, K)
<1>1. Len(<< item >>) = 1 /\ << item >>[1] = item /\ Len(<< >>) = 0
  OBVIOUS
<1> QED
  BY <1>1 DEF AllInnocent

LEMMA InnocentConcat ==
  ASSUME NEW T, NEW a \in Seq(T), NEW b \in Seq(T), NEW K, AllInnocent(a, K), AllInnocent(b, K)
  PROVE  AllInnocent(a \o b, K)
<1>1. PICK l \in Nat, h \in Nat : l = Len(a) /\ h = Len(b)
  <2>1. Len(a) \in Nat /\ Len(b) \in Nat
    OBVIOUS
  <2> QED
    BY <2>1
<1>2. /\ Len(a \o b) = l + h
      /\ \A i \in 1 .. l + h : (a \o b)[i] = IF i <= l THEN a[i] ELSE b[i - l]
  BY <1>1
<1>3. ASSUME NEW i \in 1 .. l + h PROVE Innocent((a \o b)[i], K)
  <2>1. CASE i <= l
    BY <1>1, <1>2, <2>1 DEF AllInnocent
  <2>2. CASE ~(i <= l)
    <3>1. i - l \in 1 .. h
      BY <2>2
    <3> QED
      BY <1>1, <1>2, <2>2, <3>1 DEF AllInnocent
  <2> QED
    BY <2>1, <2>2
<1> QED
  BY <1>2, <1>3 DEF AllInnocent

\* What is neither a bracket nor a label nor a way out.
LEMMA AlwaysInnocent ==
  ASSUME NEW k \in {"stmt", "return", "init", "else", "label", "step", "next", "body"}, NEW x, NEW K
  PROVE  Innocent(Item(k, x), K)
BY DEF Innocent, Item, Openers

LEMMA StepSimple ==
  ASSUME Ready, NEW k \in {"stmt", "break", "continue", "return"}, NEW allowed, Statement(k, allowed),
         k = "break" /\ allowed => BreakAllowed, k = "continue" /\ allowed => ContinueAllowed
  PROVE  JInv'
<1>1. PICK item : item = Item(k, Next1)
  OBVIOUS
<1>2. ~errors' /\ source \in Sources
  BY ReadyHas DEF Ready
<1>3. /\ allowed /\ ctxt' = ctxt /\ switches' = switches
      /\ LStatement(<< item >>) /\ source' = Here(<< item >>)
  BY <1>1, <1>2 DEF Statement, Stays, Lowered
<1>4. GoesOn(<< item >>)
  BY <1>2, <1>3, HereBody DEF GoesOn, LStatement
<1>5. << item >> \in Seq(Only(Items, "item"))
  <2>1. k \in Brackets /\ Next1 \in Nat
    BY <1>2, LoopItems DEF Brackets
  <2> QED
    BY <1>1, <2>1, OneItem
<1>6. Innocent(item, Now)
  <2>1. item.k = k
    BY <1>1 DEF Item
  <2>2. k = "break" => LeavableAt(Now) # {}
    BY <1>3, ReadyIn DEF BreakAllowed
  <2>3. k = "continue" => \E l \in 1 .. Len(Now) : Now[l] = "loop"
    BY <1>3, ReadyIn DEF ContinueAllowed
  <2> QED
    BY <2>1, <2>2, <2>3 DEF Innocent, Openers
<1>7. \A i \in 1 .. Len(<< item >>) : Innocent(<< item >>[i], Now)
  BY <1>6, OneInnocent DEF AllInnocent
<1>8. Now' = Now
  BY <1>3 DEF Now
<1> QED
  BY <1>3, <1>4, <1>5, <1>7, <1>8, PlainStatement

LEMMA StepVarDecl ==
  ASSUME Ready, NEW init, VarDecl(init)
  PROVE  JInv'
<1>1. ~errors' /\ source \in Sources /\ Inside
  BY ReadyHas, GoesInside DEF Ready, Inv, ValInv
<1>2. PICK items \in Seq(Only(Items, "item")) : items = Inits(NewVariable, init)
  BY <1>1, InitsType
<1>3. /\ ctxt' = ctxt /\ switches' = switches /\ func_stack' = func_stack
      /\ source' = [Here(items) EXCEPT !.locals[Within] = Append(@, NewVariable),
                                       !.looped = @ \cup Looped(NewVariable, init)]
  BY <1>1, <1>2 DEF VarDecl, Stays, Lowered, LVarDecl, NewVariable
<1>4. source'.body = Here(items).body
  BY <1>1, <1>3 DEF Here, Sources
<1>5. GoesOn(items)
  BY <1>1, <1>3, <1>4, HereBody DEF GoesOn
<1>6. AllInnocent(items, Now)
  <2>1. Innocent(Item("init", NewVariable), Now)
    BY AlwaysInnocent
  <2> QED
    BY <1>2, <2>1, OneInnocent DEF Inits
<1>7. Now' = Now
  BY <1>3 DEF Now
<1> QED
  BY <1>3, <1>5, <1>6, <1>7, PlainStatement DEF AllInnocent

LEMMA StepElse ==
  ASSUME Ready, Else
  PROVE  JInv'
<1>1. ~errors' /\ source \in Sources
  BY ReadyHas DEF Ready
<1>2. PICK item : item = Item("else", 0)
  OBVIOUS
<1>3. /\ InBody("if") /\ ctxt' = Above(2) \o << Node("if", NoFunc, "else"), Inner >>
      /\ switches' = switches /\ func_stack' = func_stack /\ source' = Closing(<< item >>)
  BY <1>1, <1>2 DEF Else, VElse, Lowered, LElse
<1>4. GoesOn(<< item >>)
  BY <1>1, <1>3, HereBody DEF GoesOn
<1>5. << item >> \in Seq(Only(Items, "item"))
  <2>1. "else" \in Brackets /\ 0 \in Nat
    BY DEF Brackets
  <2> QED
    BY <1>2, <2>1, OneItem
<1>6. AllInnocent(<< item >>, Now)
  <2>1. Innocent(item, Now)
    BY <1>2, AlwaysInnocent
  <2> QED
    BY <2>1, OneInnocent
<1>7. Now' = Now
  BY <1>3, ReadyElse
<1> QED
  BY <1>3, <1>4, <1>5, <1>6, <1>7, PlainStatement DEF AllInnocent

LEMMA StepDeclare ==
  ASSUME Ready, NEW f \in Funcs, DeclareFunction(f)
  PROVE  JInv'
<1>1. /\ ~errors' /\ source \in Sources /\ Body \in Seq(Only(Items, "item"))
      /\ source.body \in [Owners -> Seq(Only(Items, "item"))]
  BY ReadyHas DEF Ready
<1>2. /\ ctxt' = ctxt /\ switches' = switches /\ func_stack' = func_stack
      /\ source' = [source EXCEPT !.funcs = Met(f), !.count = @ + 1]
  BY <1>1 DEF DeclareFunction, VDeclareFunction, Lowered, LDeclareFunction
<1>3. source'.body = source.body
  BY <1>1, <1>2 DEF Sources
<1>4. source.body = [source.body EXCEPT ![Within] = Body]
  BY <1>1 DEF Body
<1>5. Now' = Now
  BY <1>2 DEF Now
<1> QED
  BY <1>2, <1>3, <1>4, <1>5, ReadyHas, StaysPlaced

LEMMA StepFunction ==
  ASSUME Ready
  PROVE  /\ \A f \in Funcs : ~NestInBodies /\ EnterFunction(f) => JInv'
         /\ ExitFunction => JInv'
<1>1. /\ ~errors' /\ source \in Sources /\ Now \in Seq(Kinds) /\ Now' \in Seq(Kinds) /\ Flat(Now)
  BY ReadyHas DEF Ready
<1>2. "function" \notin Leavable
  BY DEF Leavable
<1>3. ASSUME NEW f \in Funcs, ~NestInBodies, EnterFunction(f) PROVE JInv'
  <2> DEFINE ps == [i \in 1 .. Params[f] |-> << f, 0 - i >>]
  <2>1. /\ ctxt' = Down("function", f, "body") /\ switches' = switches
        /\ source' = [source EXCEPT !.funcs = Met(f), !.defined = @ \cup {f}, !.locals[f] = ps, !.count = @ + 1]
    BY <1>1, <1>3 DEF EnterFunction, VEnterFunction, Lowered
  <2>2. source'.body = source.body
    <3> HIDE DEF ps
    <3> QED
      BY <1>1, <2>1 DEF Sources
  <2>3. Grown(Now, Now', "function")
    <3>1. "function" \in Kinds \ {"compound"} /\ f \in Owners
      BY DEF Kinds, Owners
    <3> QED
      BY <2>1, <3>1, ReadyDown
  <2>4. LeavableAt(Now) = {}
    BY <1>3, ReadyIn DEF EnterFunction, MayNest
  <2>5. LeavableAt(Now') = {}
    <3>1. LeavableAt(Now') = LeavableAt(Now) \cup {l \in {Len(Now) + 1} : "function" \in Leavable}
      BY <1>1, <2>3, OneStatementMore
    <3> QED
      BY <1>2, <2>4, <3>1
  <2>6. Flat(Now')
    BY <1>1, <2>3, <2>4, FlatGrown
  <2> QED
    BY <2>1, <2>2, <2>4, <2>5, <2>6, NoneOpen
<1>4. ASSUME ExitFunction PROVE JInv'
  <2>1. /\ InBody("function") /\ ctxt' = Above(2) /\ switches' = switches /\ source' = source
    BY <1>1, <1>4 DEF ExitFunction, VExitFunction, Lowered
  <2>2. ctxt # << >> /\ Holder.kind = "function"
    BY <2>1 DEF InBody
  <2>3. Grown(Now', Now, "function")
    BY <2>1, <2>2, ReadyUp
  <2>4. LeavableAt(Now') = {} /\ Flat(Now')
    BY <1>1, <2>3, FlatGrown
  <2>5. LeavableAt(Now) = {}
    <3>1. LeavableAt(Now) = LeavableAt(Now') \cup {l \in {Len(Now') + 1} : "function" \in Leavable}
      BY <1>1, <2>3, OneStatementMore
    <3> QED
      BY <1>2, <2>4, <3>1
  <2> QED
    BY <2>1, <2>4, <2>5, NoneOpen
<1> QED
  BY <1>3, <1>4

LEMMA TrackerChanges ==
  ASSUME NEW t \in Trackers, NEW vs \in SUBSET CaseVals
  PROVE  /\ [t EXCEPT !.cases = @ \cup vs] \in Trackers
         /\ [t EXCEPT !.cases = @ \cup vs].cases = t.cases \cup vs
         /\ [t EXCEPT !.cases = @ \cup vs].dflt = t.dflt
         /\ [t EXCEPT !.dflt = TRUE] \in Trackers
         /\ [t EXCEPT !.dflt = TRUE].cases = t.cases /\ [t EXCEPT !.dflt = TRUE].dflt
<1>1. /\ [t EXCEPT !.cases = @ \cup vs] \in Trackers
      /\ [t EXCEPT !.dflt = TRUE] \in Trackers
  BY DEF Trackers
<1>2. /\ [t EXCEPT !.cases = @ \cup vs].cases = t.cases \cup vs
      /\ [t EXCEPT !.cases = @ \cup vs].dflt = t.dflt
  BY DEF Trackers
<1>3. [t EXCEPT !.dflt = TRUE].cases = t.cases /\ [t EXCEPT !.dflt = TRUE].dflt
  BY DEF Trackers
<1> QED
  BY <1>1, <1>2, <1>3

LEMMA StepCase ==
  ASSUME Ready, NEW vs \in SUBSET CaseVals, Case(vs)
  PROVE  JInv'
<1>1. ~errors' /\ source \in Sources /\ StackInv
  BY ReadyHas DEF Ready
<1>2. VCase(vs)
  <2>1. \A before \in SUBSET vs : VRepeatedCase(vs, before) => errors'
    BY DEF VRepeatedCase
  <2> QED
    BY <1>1, <2>1 DEF Case
<1>3. PICK labels \in Labels(vs) : LStatement(labels) /\ source' = Here(labels)
  BY <1>1 DEF Case, Lowered
<1>4. labels \in Seq(Only(Items, "item"))
  BY LabelsType
<1>5. /\ In("switch") /\ Tracker.cases \cap vs = {} /\ ctxt' = ctxt
      /\ switches' = Track([Tracker EXCEPT !.cases = @ \cup vs])
  BY <1>2 DEF VCase, CaseAllowed
<1>6. Tracker \in Trackers
  BY <1>1, <1>5, HasTracker
<1>7. PICK t2 \in Trackers : /\ t2 = [Tracker EXCEPT !.cases = @ \cup vs]
                             /\ t2.cases = Tracker.cases \cup vs /\ t2.dflt = Tracker.dflt
  <2>1. PICK t \in Trackers : t = Tracker
    BY <1>6
  <2>2. /\ [t EXCEPT !.cases = @ \cup vs] \in Trackers
        /\ [t EXCEPT !.cases = @ \cup vs].cases = t.cases \cup vs
        /\ [t EXCEPT !.cases = @ \cup vs].dflt = t.dflt
    BY TrackerChanges
  <2> QED
    BY <2>1, <2>2
<1>8. PICK n \in Nat : n = Cardinality(vs)
  <2>1. IsFiniteSet(vs)
    BY ValidatorAssumption, FS_Subset
  <2> QED
    BY <2>1, FS_CardinalityType
<1>9. /\ labels \in [1 .. n -> {Item("case", v) : v \in vs}]
      /\ \A i, j \in 1 .. n : i < j => labels[i].x.bits < labels[j].x.bits
  BY <1>8 DEF Labels
<1>10. Len(labels) = n
  BY <1>4, <1>9
<1>11. \A i \in 1 .. n : labels[i].k = "case" /\ labels[i].x \in vs
  BY <1>9 DEF Item
<1>12. ASSUME NEW i \in 1 .. n PROVE NewLabel(labels, i, Tracker, t2)
  <2>1. ASSUME NEW j \in 1 .. i - 1 PROVE ~SameLabel(labels, j, i)
    <3>1. j \in 1 .. n /\ j < i
      OBVIOUS
    <3>2. labels[j].x.bits < labels[i].x.bits
      BY <1>9, <3>1
    <3>3. labels[i].x.bits \in Nat
      BY <1>11, ValidatorAssumption
    <3>4. labels[j].x # labels[i].x
      BY <3>2, <3>3
    <3> QED
      BY <1>11, <3>1, <3>4 DEF SameLabel
  <2> QED
    BY <1>5, <1>7, <1>11, <2>1 DEF NewLabel
<1>13. GoesOn(labels) /\ Now' = Now
  BY <1>1, <1>3, <1>5, HereBody DEF GoesOn, LStatement, Now
<1>14. \A i \in 1 .. Len(labels) : NewLabel(labels, i, Tracker, t2)
  BY <1>10, <1>12
<1>15. Tracker.cases \subseteq t2.cases /\ (Tracker.dflt => t2.dflt) /\ switches' = Track(t2)
  BY <1>5, <1>7
<1> QED
  BY <1>4, <1>5, <1>13, <1>14, <1>15, LabelStatement

LEMMA StepDefault ==
  ASSUME Ready, Default
  PROVE  JInv'
<1>1. ~errors' /\ source \in Sources /\ StackInv
  BY ReadyHas DEF Ready
<1>2. PICK item : item = Item("default", Next1)
  OBVIOUS
<1>3. VDefault /\ LStatement(<< item >>) /\ source' = Here(<< item >>)
  BY <1>1, <1>2 DEF Default, Stays, Lowered
<1>4. /\ In("switch") /\ ~Tracker.dflt /\ ctxt' = ctxt
      /\ switches' = Track([Tracker EXCEPT !.dflt = TRUE])
  BY <1>3 DEF VDefault
<1>5. Tracker \in Trackers
  BY <1>1, <1>4, HasTracker
<1>6. PICK t2 \in Trackers : /\ t2 = [Tracker EXCEPT !.dflt = TRUE]
                             /\ t2.cases = Tracker.cases /\ t2.dflt
  <2>1. {} \in SUBSET CaseVals
    OBVIOUS
  <2> QED
    BY <1>5, <2>1, TrackerChanges
<1>7. << item >> \in Seq(Only(Items, "item"))
  <2>1. "default" \in Brackets /\ Next1 \in Nat
    BY <1>1, LoopItems DEF Brackets
  <2> QED
    BY <1>2, <2>1, OneItem
<1>8. Len(<< item >>) = 1 /\ << item >>[1] = item /\ item.k = "default"
  BY <1>2 DEF Item
<1>9. \A i \in 1 .. Len(<< item >>) : NewLabel(<< item >>, i, Tracker, t2)
  BY <1>4, <1>6, <1>8 DEF NewLabel
<1>10. GoesOn(<< item >>) /\ Now' = Now
  BY <1>1, <1>3, <1>4, HereBody DEF GoesOn, LStatement, Now
<1>11. Tracker.cases \subseteq t2.cases /\ (Tracker.dflt => t2.dflt) /\ switches' = Track(t2)
  BY <1>4, <1>6
<1> QED
  BY <1>4, <1>7, <1>9, <1>10, <1>11, LabelStatement

LEMMA StepEnter ==
  ASSUME Ready, EnterIf \/ EnterSwitch \/ EnterLabel
  PROVE  JInv'
<1>1. ~errors' /\ source \in Sources
  BY ReadyHas DEF Ready
<1>2. PICK k \in {"if", "switch", "label"}, part \in {"then", "else", "body"} :
        /\ ctxt' = Down(k, NoFunc, part)
        /\ switches' = IF k = "switch" THEN Append(switches, NewTracker) ELSE switches
        /\ LEnter(Item(k, Next1)) /\ source' = Here(<< Item(k, Next1) >>)
  <2>1. CASE EnterIf
    BY <1>1, <2>1 DEF EnterIf, VEnterIf, Lowered
  <2>2. CASE EnterSwitch
    BY <1>1, <2>2 DEF EnterSwitch, VEnterSwitch, Lowered
  <2>3. CASE EnterLabel
    BY <1>1, <2>3 DEF EnterLabel, VEnterLabel, Lowered
  <2> QED
    BY <2>1, <2>2, <2>3
<1>3. PICK item \in Only(Items, "item") : item = Item(k, Next1)
  <2>1. k \in Brackets /\ Next1 \in Nat
    BY <1>1, LoopItems DEF Brackets
  <2> QED
    BY <2>1, OneItem
<1>4. item.k = k /\ << item >> \in Seq(Only(Items, "item"))
  BY <1>3 DEF Item
<1>5. GoesOn(<< item >>)
  BY <1>1, <1>2, <1>3, HereBody DEF GoesOn, LEnter
<1>6. Grown(Now, Now', k)
  <2>1. k \in Kinds \ {"compound"} /\ NoFunc \in Owners
    BY DEF Kinds, Owners
  <2> QED
    BY <1>2, <2>1, ReadyDown
<1>7. CASE k = "label"
  BY <1>2, <1>4, <1>5, <1>6, <1>7, LabelOpens
<1>8. CASE k \in {"if", "switch"}
  <2>1. k \in Openers
    BY <1>8 DEF Openers
  <2>2. << item >> \o << >> = << item >> /\ << >> \in Seq(Only(Items, "item"))
    BY <1>4, ConcatEmptySeq, EmptySeq
  <2>3. GoesOn(<< item >> \o << >>)
    BY <1>5, <2>2
  <2>4. IF k = "switch" THEN \E t : Grown(switches, switches', t) ELSE switches' = switches
    <3>1. switches \in Seq(Trackers) /\ NewTracker \in Trackers
      BY DEF Ready, Inv, ValInv, StackInv, NewTracker, Trackers
    <3>2. Grown(switches, Append(switches, NewTracker), NewTracker)
      BY <3>1, Appended DEF Grown
    <3> QED
      BY <1>2, <3>2
  <2>5. \A i \in 1 .. Len(<< >>) : Innocent(<< >>[i], Now')
    OBVIOUS
  <2> QED
    BY <1>4, <1>6, <2>1, <2>2, <2>3, <2>4, <2>5, StatementOpens
<1> QED
  BY <1>7, <1>8

LEMMA StepExit ==
  ASSUME Ready, ExitIf \/ ExitSwitch \/ ExitLoop \/ ExitLabel
  PROVE  JInv'
<1>1. ~errors' /\ source \in Sources
  BY ReadyHas DEF Ready
<1>2. PICK k \in {"if", "switch", "loop", "label"} :
        /\ InBody(k) /\ ctxt' = Above(2)
        /\ switches' = IF k = "switch" THEN SubSeq(switches, 1, Len(switches) - 1) ELSE switches
        /\ IF k = "label" THEN LExitLabel /\ source' = source
                          ELSE LExit(End) /\ source' = Closing(<< End >>)
  <2>1. CASE ExitIf
    BY <1>1, <2>1 DEF ExitIf, VExit, Lowered
  <2>2. CASE ExitSwitch
    BY <1>1, <2>2 DEF ExitSwitch, VExitSwitch, Lowered
  <2>3. CASE ExitLoop
    BY <1>1, <2>3 DEF ExitLoop, VExit, Lowered
  <2>4. CASE ExitLabel
    BY <1>1, <2>4 DEF ExitLabel, VExit, Lowered
  <2> QED
    BY <2>1, <2>2, <2>3, <2>4
<1>3. ctxt # << >> /\ Holder.kind = k
  BY <1>2 DEF InBody
<1>4. Grown(Now', Now, k)
  BY <1>2, <1>3, ReadyUp
<1>5. CASE k = "label"
  BY <1>2, <1>4, <1>5, LabelEnds DEF LExitLabel
<1>6. CASE k # "label"
  <2>1. PICK item \in Only(Items, "item") : item = End /\ item.k = "end"
    <3>1. "end" \in Brackets /\ 0 \in Nat
      BY DEF Brackets
    <3> QED
      BY <3>1, OneItem DEF End, Item
  <2>2. GoesOn(<< item >>)
    BY <1>1, <1>2, <1>6, <2>1, HereBody DEF GoesOn, LExit
  <2>3. k \in Openers
    BY <1>6 DEF Openers
  <2>4. IF k = "switch" THEN \E t : Grown(switches', switches, t) ELSE switches' = switches
    <3>1. CASE k = "switch"
      <4>1. In("switch") /\ StackInv /\ switches \in Seq(Trackers)
        <5>1. /\ ctxt \in Seq(Nodes) /\ StackInv /\ Len(ctxt) - 1 \in 1 .. Len(ctxt)
              /\ ctxt[Len(ctxt) - 1].kind = "switch"
          BY <1>2, <1>3, <3>1, ReadyHas DEF InBody, Holder
        <5> QED
          BY <5>1, InNodes DEF StackInv
      <4>2. Len(switches) \in Nat \ {0}
        BY <4>1, HasTracker
      <4>3. PICK n \in Nat : Len(switches) = n + 1
        <5>1. Len(switches) - 1 \in Nat /\ Len(switches) = (Len(switches) - 1) + 1
          BY <4>2
        <5> QED
          BY <5>1
      <4>4. switches' = SubSeq(switches, 1, n)
        BY <1>2, <3>1, <4>3
      <4>5. n \in 0 .. Len(switches)
        BY <4>3
      <4>6. Len(switches') = n /\ \A i \in 1 .. n : switches'[i] = switches[i]
        BY <4>1, <4>4, <4>5, Front
      <4>7. Grown(switches', switches, switches[n + 1])
        BY <4>3, <4>6 DEF Grown
      <4> QED
        BY <3>1, <4>7
    <3>2. CASE k # "switch"
      BY <1>2, <3>2
    <3> QED
      BY <3>1, <3>2
  <2> QED
    BY <1>4, <2>1, <2>2, <2>3, <2>4, StatementEnds
<1> QED
  BY <1>5, <1>6

LEMMA Chained ==
  ASSUME NEW T, NEW a \in Seq(T), NEW b \in Seq(T), NEW c \in Seq(T), NEW d \in Seq(T), NEW e \in Seq(T)
  PROVE  Joined(Joined(Joined(Joined(a, b), c), d), e) = Joined(a, Joined(Joined(Joined(b, c), d), e))
<1>1. PICK p \in Seq(T) : p = Joined(b, c)
  BY Joining
<1>2. PICK q \in Seq(T) : q = Joined(p, d)
  BY Joining
<1>3. Joined(Joined(a, b), c) = Joined(a, p)
  BY <1>1, Joining
<1>4. Joined(Joined(a, p), d) = Joined(a, q)
  BY <1>2, Joining
<1>5. Joined(Joined(a, q), e) = Joined(a, Joined(q, e))
  BY Joining
<1> QED
  BY <1>1, <1>2, <1>3, <1>4, <1>5

LEMMA StepLoop ==
  ASSUME Ready, NEW init, EnterLoop(init)
  PROVE  JInv'
<1>1. ~errors' /\ source \in Sources /\ Inside
  BY ReadyHas, GoesInside DEF Ready, Inv, ValInv
<1>2. PICK inits, first, vs, ds, more :
        inits \in Seq(Only(Items, "item")) /\ Loops(first, vs, inits, ds, more) /\ AllInnocent(inits, Now')
  <2>1. CASE init = "expr"
    <3>1. << Item("stmt", Next1) >> \in Seq(Only(Items, "item"))
      BY <1>1, LoopItems
    <3>2. AllInnocent(<< Item("stmt", Next1) >>, Now')
      <4>1. Innocent(Item("stmt", Next1), Now')
        BY AlwaysInnocent
      <4> QED
        BY <4>1, OneInnocent
    <3>3. Loops(<< >> \o << Item("stmt", Next1) >>, {}, << Item("stmt", Next1) >>, << >>, {})
      BY <1>1, <2>1, LoopIs
    <3> QED
      BY <3>1, <3>2, <3>3
  <2>2. CASE init # "expr"
    <3>1. Inits(NewVariable, init) \in Seq(Only(Items, "item"))
      BY <1>1, InitsType
    <3>2. AllInnocent(Inits(NewVariable, init), Now')
      <4>1. Innocent(Item("init", NewVariable), Now')
        BY AlwaysInnocent
      <4> QED
        BY <4>1, OneInnocent DEF Inits
    <3>3. Loops(<< Item("decl", NewVariable) >> \o Inits(NewVariable, init), {NewVariable},
                Inits(NewVariable, init), << NewVariable >>, Looped(NewVariable, init))
      BY <1>1, <2>2, LoopIs
    <3> QED
      BY <3>1, <3>2, <3>3
  <2> QED
    BY <2>1, <2>2
<1>3. PICK open \in Only(Items, "item") : open = Item("loop", Next1) /\ open.k = "loop"
  BY <1>1, LoopItems DEF Item
<1>4. PICK step \in Seq(Only(Items, "item")) : step = << Item("step", 0) >> /\ AllInnocent(step, Now')
  <2>1. Innocent(Item("step", 0), Now')
    BY AlwaysInnocent
  <2>2. << Item("step", 0) >> \in Seq(Only(Items, "item"))
    BY <1>1, LoopItems
  <2> QED
    BY <2>1, <2>2, OneInnocent
<1>5. PICK next \in Seq(Only(Items, "item")) : next = << Item("next", Next1) >> /\ AllInnocent(next, Now')
  <2>1. Innocent(Item("next", Next1), Now')
    BY AlwaysInnocent
  <2>2. << Item("next", Next1) >> \in Seq(Only(Items, "item"))
    BY <1>1, LoopItems
  <2> QED
    BY <2>1, <2>2, OneInnocent
<1>6. PICK last \in Seq(Only(Items, "item")) : last = << Item("body", 0) >> /\ AllInnocent(last, Now')
  <2>1. Innocent(Item("body", 0), Now')
    BY AlwaysInnocent
  <2>2. << Item("body", 0) >> \in Seq(Only(Items, "item"))
    BY <1>1, LoopItems
  <2> QED
    BY <2>1, <2>2, OneInnocent
<1>7. PICK rest \in Seq(Only(Items, "item")) :
        rest = inits \o step \o next \o last /\ AllInnocent(rest, Now')
  <2>1. PICK p \in Seq(Only(Items, "item")) : p = inits \o step /\ AllInnocent(p, Now')
    BY <1>2, <1>4, InnocentConcat, ConcatProperties
  <2>2. PICK q \in Seq(Only(Items, "item")) : q = p \o next /\ AllInnocent(q, Now')
    BY <1>5, <2>1, InnocentConcat, ConcatProperties
  <2>3. PICK r \in Seq(Only(Items, "item")) : r = q \o last /\ AllInnocent(r, Now')
    BY <1>6, <2>2, InnocentConcat, ConcatProperties
  <2> QED
    BY <2>1, <2>2, <2>3
<1>8. LoopOwn(inits) = << open >> \o rest
  <2>1. PICK h \in Seq(Only(Items, "item")) : h = << open >>
    <3>1. << open >> \in Seq(Only(Items, "item"))
      OBVIOUS
    <3> QED
      BY <3>1
  <2>2. Joined(Joined(Joined(Joined(h, inits), step), next), last)
          = Joined(h, Joined(Joined(Joined(inits, step), next), last))
    BY <1>2, Chained
  <2>3. << open >> \o inits \o step \o next \o last = << open >> \o (inits \o step \o next \o last)
    BY <2>1, <2>2 DEF Joined
  <2> QED
    BY <1>3, <1>4, <1>5, <1>6, <1>7, <2>3 DEF LoopOwn
<1>9. /\ ctxt' = Down("loop", NoFunc, "body") /\ func_stack' = func_stack
      /\ source' = [Here(<< open >> \o rest) EXCEPT !.locals[Within] = @ \o ds, !.looped = @ \cup more]
  BY <1>2, <1>8 DEF Loops, LEnterLoop
<1>10. switches' = switches
  BY DEF EnterLoop, VEnterLoop
<1>11. source'.body = Here(<< open >> \o rest).body
  BY <1>1, <1>9 DEF Here, Sources
<1>12. GoesOn(<< open >> \o rest)
  BY <1>1, <1>9, <1>11, HereBody DEF GoesOn
<1>13. Grown(Now, Now', "loop")
  <2>1. "loop" \in Kinds \ {"compound"} /\ NoFunc \in Owners
    BY DEF Kinds, Owners
  <2> QED
    BY <1>9, <2>1, ReadyDown
<1>14. "loop" \in Openers
  BY DEF Openers
<1>15. \A i \in 1 .. Len(rest) : Innocent(rest[i], Now')
  BY <1>7 DEF AllInnocent
<1> QED
  BY <1>3, <1>7, <1>10, <1>12, <1>13, <1>14, <1>15, StatementOpens

LEMMA ReadyStep ==
  ASSUME ~NestInBodies, Ready, Next
  PROVE  JInv'
<1>1. ~validated /\ ~validated' /\ ~errors'
  BY DEF Ready
<1>2. CASE \E f \in Funcs : DeclareFunction(f) \/ RepeatMark(f) \/ EnterFunction(f)
  <2>1. \A f \in Funcs : ~RepeatMark(f)
    BY <1>1 DEF RepeatMark, VDuplicate
  <2> QED
    BY <1>2, <2>1, StepDeclare, StepFunction
<1>3. CASE ExitFunction
  BY <1>3, StepFunction
<1>4. CASE \E init \in DeclInits : VarDecl(init)
  BY <1>4, StepVarDecl
<1>5. CASE ExprStmt \/ Break \/ Continue \/ Return
  <2>1. ASSUME NEW k \in {"stmt", "return"}, NEW allowed, Statement(k, allowed) PROVE JInv'
    BY <2>1, StepSimple
  <2>2. Break => JInv'
    BY StepSimple DEF Break
  <2>3. Continue => JInv'
    BY StepSimple DEF Continue
  <2>4. ExprStmt => JInv'
    BY <2>1 DEF ExprStmt
  <2>5. Return => JInv'
    BY <2>1 DEF Return
  <2> QED
    BY <1>5, <2>2, <2>3, <2>4, <2>5
<1>6. CASE \E ty \in {v.ty : v \in CaseVals} : \E vs \in SUBSET {v \in CaseVals : v.ty = ty} \ {{}} : Case(vs)
  BY <1>6, StepCase
<1>7. CASE Default
  BY <1>7, StepDefault
<1>8. CASE EnterIf \/ EnterSwitch \/ EnterLabel
  BY <1>8, StepEnter
<1>9. CASE Else
  BY <1>9, StepElse
<1>10. CASE ExitIf \/ ExitSwitch \/ ExitLoop \/ ExitLabel
  BY <1>10, StepExit
<1>11. CASE \E init \in LoopInits : EnterLoop(init)
  BY <1>11, StepLoop
<1>12. ~ExitProgram /\ ~Finished
  BY <1>1 DEF ExitProgram, VExitProgram, Finished
<1> QED
  BY <1>2, <1>3, <1>4, <1>5, <1>6, <1>7, <1>8, <1>9, <1>10, <1>11, <1>12 DEF Next

\* The return at the end of the program is in place wherever it stands.
LEMMA EndPlaced ==
  ASSUME Inv, JInv, ExitProgram
  PROVE  JInv'
<1>1. /\ source \in Sources /\ validated' /\ \A o \in Owners : Placed(source.body[o])
      /\ source.body \in [Owners -> Seq(Only(Items, "item"))]
  BY DEF Inv, JInv, ExitProgram, VExitProgram, Sources
<1> DEFINE s == [source EXCEPT !.body[NoFunc] = Append(@, Item("return", 0))]
<1>2. Lowered(LExitProgram, s)
  BY DEF ExitProgram
<1>3. CASE errors'
  <2>1. source' = [source EXCEPT !.count = s.count]
    BY <1>2, <1>3 DEF Lowered
  <2>2. source'.body = source.body
    <3> HIDE DEF s
    <3> QED
      BY <1>1, <2>1 DEF Sources
  <2> QED
    BY <1>1, <2>2 DEF JInv
<1>4. CASE ~errors'
  <2>1. PICK b, item : b \in Seq(Only(Items, "item")) /\ b = source.body[NoFunc] /\ item = Item("return", 0) /\ Placed(b)
    <3>1. NoFunc \in Owners
      BY DEF Owners
    <3> QED
      BY <1>1, <3>1
  <2>2. item \in Only(Items, "item")
    <3>1. "return" \in Brackets /\ 0 \in Nat
      BY DEF Brackets
    <3> QED
      BY <2>1, <3>1, OneItem
  <2>3. PICK c \in Seq(Only(Items, "item")) : c = Append(b, item)
    <3>1. Append(b, item) \in Seq(Only(Items, "item"))
      BY <2>1, <2>2
    <3> QED
      BY <3>1
  <2>4. source'.body = [source.body EXCEPT ![NoFunc] = c]
    BY <1>1, <1>2, <1>4, <2>1, <2>3 DEF Lowered, Sources
  <2>5. Extends(b, c) /\ \A m \in Len(b) + 1 .. Len(c) : c[m] = item
    <3>1. PICK l \in Nat : l = Len(b)
      OBVIOUS
    <3>2. Len(c) = l + 1 /\ c[l + 1] = item /\ \A m \in 1 .. l : c[m] = b[m]
      BY <2>2, <2>3, <3>1
    <3> QED
      BY <3>1, <3>2 DEF Extends, Begins
  <2>6. \A m \in Len(b) + 1 .. Len(c) : PlacedAt(c, m)
    <3>1. item.k = "return"
      BY <2>1 DEF Item
    <3> QED
      BY <2>5, <3>1 DEF PlacedAt
  <2>7. Placed(c)
    BY <2>1, <2>5, <2>6, PlacedMore
  <2>8. \A o \in Owners : Placed(source'.body[o])
    BY <1>1, <2>4, <2>7
  <2> QED
    BY <1>1, <2>8 DEF JInv
<1> QED
  BY <1>3, <1>4

LEMMA JumpsStep ==
  ASSUME ~NestInBodies, Inv, Inv', JInv, [Next]_vars
  PROVE  JInv'
<1>1. CASE UNCHANGED vars
  <2>1. /\ source' = source /\ errors' = errors /\ validated' = validated
        /\ ctxt' = ctxt /\ switches' = switches
    BY <1>1 DEF vars, vvars
  <2>2. Within' = Within
    BY <2>1 DEF Within
  <2> QED
    BY <2>1, <2>2 DEF JInv, Nested
<1>2. CASE Next
  <2>1. Going
    BY DEF Going, Inv, ValInv
  <2>2. ASSUME ~validated, Quits PROVE JInv'
    <3>1. PICK n \in Nat : source' = [source EXCEPT !.count = n]
      BY <2>2 DEF Quits
    <3>2. source'.body = source.body
      BY <3>1 DEF Inv, Sources
    <3> QED
      BY <2>2, <3>2 DEF JInv, Quits
  <2>3. ASSUME ~validated, Continues PROVE JInv'
    <3>1. Ready
      BY <2>3 DEF Ready, Continues
    <3> QED
      BY <1>2, <3>1, ReadyStep
  <2>4. CASE ExitProgram
    BY <2>4, EndPlaced
  <2>5. CASE Finished
    BY <1>1, <2>5 DEF Finished
  <2> QED
    BY <1>2, <2>1, <2>2, <2>3, <2>4, <2>5, NextMoves DEF Moves
<1> QED
  BY <1>1, <1>2

LEMMA JumpsInit ==
  ASSUME Init
  PROVE  JInv
<1>1. /\ ctxt = << >> /\ switches = << >> /\ \A o \in Owners : source.body[o] = << >>
  BY DEF Init, VInit
<1>2. Len(<< >>) = 0 /\ << >> \in Seq(Nodes)
  OBVIOUS
<1>3. Placed(<< >>)
  BY <1>2 DEF Placed
<1>4. Unhindered(<< >>)
  BY <1>2, AroundIs DEF Unhindered
<1>5. Statements(ctxt) \in Seq(Kinds) /\ Len(Statements(ctxt)) = 0
  <2>1. Alternates(<< >>)
    BY <1>2 DEF Alternates
  <2>2. PICK d \in Nat : Len(<< >>) = 2 * d /\ Len(Statements(<< >>)) = d /\ Statements(<< >>) \in Seq(Kinds)
    BY <1>2, <2>1, StatementsAre
  <2> QED
    BY <1>1, <1>2, <2>2
<1>6. Flat(Statements(ctxt)) /\ LeavableAt(Statements(ctxt)) = {}
  BY <1>5 DEF Flat, LeavableAt
<1>7. Within = NoFunc /\ NoFunc \in Owners
  BY <1>1, <1>2 DEF Within, InNode, Owners
<1>8. Located(source.body[Within], Statements(ctxt), switches)
  BY <1>1, <1>4, <1>5, <1>6, <1>7, LocatedNowhere
<1> QED
  BY <1>1, <1>3, <1>4, <1>6, <1>8 DEF JInv, Nested

\* What JumpsPlaced says of one body.
JumpsOf(body) ==
  \A i \in DOMAIN body :
    LET in(kinds) == Around(body, i, kinds)
        mine == CHOOSE j \in in({"switch"}) : \A n \in in({"switch"}) : n <= j
    IN  /\ body[i].k = "break" => in({"loop", "switch"}) # {}
        /\ body[i].k = "continue" => in({"loop"}) # {}
        /\ body[i].k \in {"case", "default"} =>
             /\ in({"switch"}) # {}
             /\ \A n \in 1 .. i - 1 :
                  /\ body[n].k = body[i].k
                  /\ body[i].k = "case" => body[n].x = body[i].x
                  => LET other == Around(body, n, {"switch"})
                     IN  ~(mine \in other /\ \A o \in other : o <= mine)

LEMMA PlacedJumps ==
  ASSUME NEW T, NEW b \in Seq(T), Placed(b)
  PROVE  JumpsOf(b)
<1>1. ASSUME NEW i \in 1 .. Len(b), b[i].k \in {"case", "default"},
             NEW P, Nearest(b, i, P)
      PROVE  (CHOOSE j \in Around(b, i, {"switch"}) : \A n \in Around(b, i, {"switch"}) : n <= j) = P
  <2>1. \A j \in Around(b, i, {"switch"}) : j \in Nat
    BY AroundIs
  <2>2. P \in Around(b, i, {"switch"}) /\ \A n \in Around(b, i, {"switch"}) : n <= P
    BY <1>1 DEF Nearest
  <2>3. \A j \in Around(b, i, {"switch"}) : (\A n \in Around(b, i, {"switch"}) : n <= j) => j = P
    BY <2>1, <2>2
  <2> QED
    BY <2>2, <2>3
<1>2. ASSUME NEW i \in 1 .. Len(b) PROVE PlacedAt(b, i)
  BY DEF Placed
<1>3. DOMAIN b = 1 .. Len(b) /\ {"loop", "switch"} = Leavable
  BY DEF Leavable
<1>4. ASSUME NEW i \in 1 .. Len(b), b[i].k \in {"case", "default"}
      PROVE  /\ Around(b, i, {"switch"}) # {}
             /\ \A n \in 1 .. i - 1 : SameLabel(b, n, i) =>
                  ~Nearest(b, n, CHOOSE j \in Around(b, i, {"switch"}) : \A o \in Around(b, i, {"switch"}) : o <= j)
  <2>1. PICK P : Nearest(b, i, P) /\ \A n \in 1 .. i - 1 : SameLabel(b, n, i) => ~Nearest(b, n, P)
    BY <1>2, <1>4 DEF PlacedAt
  <2>2. (CHOOSE j \in Around(b, i, {"switch"}) : \A n \in Around(b, i, {"switch"}) : n <= j) = P
    BY <1>1, <1>4, <2>1
  <2>3. Around(b, i, {"switch"}) # {}
    BY <2>1 DEF Nearest
  <2> QED
    BY <2>1, <2>2, <2>3
<1>5. ASSUME NEW i \in 1 .. Len(b)
      PROVE  /\ b[i].k = "break" => Around(b, i, {"loop", "switch"}) # {}
             /\ b[i].k = "continue" => Around(b, i, {"loop"}) # {}
  BY <1>2, <1>3 DEF PlacedAt
<1> QED
  BY <1>3, <1>4, <1>5 DEF JumpsOf, SameLabel, Nearest

LEMMA PlacedEverywhere ==
  ASSUME Inv, JInv
  PROVE  JumpsPlaced
<1> SUFFICES ASSUME prog.done, NEW body \in Bodies PROVE JumpsOf(body)
  BY DEF JumpsPlaced, JumpsOf
<1>1. /\ \A f \in Defined : functions[f].body = source.body[f]
      /\ prog.progitems = source.body[NoFunc]
  BY DEF Inv, SourceOrderKept
<1>2. PICK o \in Owners : body = source.body[o]
  BY <1>1 DEF Bodies, Defined, Owners
<1>3. Placed(body) /\ body \in Seq(Only(Items, "item"))
  BY <1>2 DEF JInv, Inv, Sources
<1> QED
  BY <1>3, PlacedJumps

\* What the Validator lets pass the CFGBuilder can place, as long as no
\* function is nested in a loop or in a switch (where one is, in_node looks
\* past the function, lib/semantics/semantics.cpp:85, and this fails):
\* a break stands in a loop or a switch of its own function, a continue in a
\* loop, a case and a default in a switch, so that the assertions of
\* lib/lowering/cfg/builder.cpp:308-441 hold; and no switch has a value twice
\* or two defaults, however many switches and other statements nest, and
\* although the trackers are kept by hand and the labels are read from the
\* list of statements.
THEOREM JumpsKept == Spec => [](~NestInBodies => JumpsPlaced)
<1> DEFINE I == Inv /\ (~NestInBodies => JInv)
<1>1. Init => I
  BY InitInv, JumpsInit
<1>2. I /\ [Next]_vars => I'
  BY InvStep, JumpsStep
<1>3. I => (~NestInBodies => JumpsPlaced)
  BY PlacedEverywhere
<1> QED
  <2> HIDE DEF I
  <2> QED
    BY <1>1, <1>2, <1>3, PTL DEF Spec

=============================================================================
