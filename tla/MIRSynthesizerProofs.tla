------------------------ MODULE MIRSynthesizerProofs ------------------------
(***************************************************************************)
(* Proofs about MIRSynthesizer, for any depth of visits, any number of      *)
(* scopes and any errors: scopes follow the visits that push them, and no   *)
(* program with an error gets through.                                      *)
(***************************************************************************)
EXTENDS MIRSynthesizer, SequenceTheorems, WellFoundedInduction, TLAPS

(***************************************************************************)
(* Induction up to n, with a set for the predicate                         *)
(***************************************************************************)

LEMMA Least ==
  ASSUME NEW T, T \subseteq Nat, T # {}
  PROVE  \E x \in T : \A y \in T : x <= y
<1>1. PICK x \in T : \A y \in T : ~ (<< y, x >> \in OpToRel(<, Nat))
  BY WFMin, NatLessThanWellFounded
<1>2. ASSUME NEW y \in T PROVE x <= y
  <2>1. x \in Nat /\ y \in Nat
    OBVIOUS
  <2>2. ~ (<< y, x >> \in OpToRel(<, Nat))
    BY <1>1
  <2>3. ~ (y < x)
    BY <2>1, <2>2 DEF OpToRel
  <2> QED
    BY <2>1, <2>3
<1> QED
  BY <1>2

LEMMA Induction ==
  ASSUME NEW n \in Nat, NEW S, 0 \in S,
         \A k \in 0 .. n : k < n /\ k \in S => k + 1 \in S
  PROVE  \A k \in 0 .. n : k \in S
<1> DEFINE T == {k \in 0 .. n : k \notin S}
<1> SUFFICES ASSUME T # {} PROVE FALSE
  OBVIOUS
<1>1. PICK x \in T : \A y \in T : x <= y
  <2>1. T \subseteq Nat
    OBVIOUS
  <2> HIDE DEF T
  <2> QED
    BY <2>1, Least
<1>2. x - 1 \in 0 .. n /\ x - 1 < n /\ x - 1 \notin T
  BY <1>1
<1>3. x - 1 \in S /\ (x - 1) + 1 = x
  BY <1>2
<1> QED
  BY <1>2, <1>3

(***************************************************************************)
(* The scopes of nested visits                                             *)
(***************************************************************************)

Frame == [node : Lists \cup Statements, own : ScopeIds \cup {0}, got : 0 .. 2]

LEMMA FrameOf ==
  ASSUME NEW fs \in Seq(Frame)
  PROVE  /\ Len(fs) \in Nat /\ DOMAIN fs = 1 .. Len(fs)
         /\ \A i \in 1 .. Len(fs) :
              /\ fs[i] \in Frame
              /\ fs[i].node \in Lists \cup Statements
              /\ fs[i].own \in ScopeIds \cup {0} /\ fs[i].got \in 0 .. 2
<1>1. \A i \in 1 .. Len(fs) : fs[i] \in Frame
  OBVIOUS
<1>2. \A f \in Frame : /\ f.node \in Lists \cup Statements
                      /\ f.own \in ScopeIds \cup {0} /\ f.got \in 0 .. 2
  BY DEF Frame
<1> QED
  BY <1>1, <1>2

\* One more visit: what OwnedTo makes of the scopes s of those around it.
AddOwn(s, f) == IF f.own = 0 THEN s ELSE Append(s, f.own)

\* The recursive definition has a solution.
LEMMA OwnedIs ==
  ASSUME NEW fs \in Seq(Frame)
  PROVE  OwnedTo(fs) = [i \in 0 .. Len(fs) |->
           IF i = 0 THEN << >> ELSE AddOwn(OwnedTo(fs)[i - 1], fs[i])]
<1> DEFINE Solves(g, n) ==
      g = [i \in 0 .. n |-> IF i = 0 THEN << >> ELSE AddOwn(g[i - 1], fs[i])]
<1> DEFINE S == {n \in 0 .. Len(fs) : \E g : Solves(g, n)}
<1>1. Len(fs) \in Nat
  OBVIOUS
<1>2. 0 \in S
  <2>1. Solves([i \in 0 .. 0 |-> << >>], 0)
    OBVIOUS
  <2>2. \E g : Solves(g, 0)
    <3> HIDE DEF Solves
    <3> QED
      BY <2>1
  <2> QED
    BY <1>1, <2>2
<1>3. ASSUME NEW n \in 0 .. Len(fs), n < Len(fs), n \in S PROVE n + 1 \in S
  <2>1. PICK g : Solves(g, n)
    BY <1>3
  <2> DEFINE h == [i \in 0 .. n + 1 |-> IF i = n + 1 THEN AddOwn(g[n], fs[i]) ELSE g[i]]
  <2>2. \A i \in 0 .. n : h[i] = g[i]
    OBVIOUS
  <2>3. ASSUME NEW i \in 0 .. n + 1
        PROVE  h[i] = IF i = 0 THEN << >> ELSE AddOwn(h[i - 1], fs[i])
    <3>1. CASE i = n + 1
      BY <2>2, <3>1
    <3>2. CASE i # n + 1
      <4>1. i \in 0 .. n /\ (i = 0 \/ i - 1 \in 0 .. n)
        BY <3>2
      <4>2. g[i] = IF i = 0 THEN << >> ELSE AddOwn(g[i - 1], fs[i])
        BY <2>1, <4>1
      <4> QED
        BY <2>2, <4>1, <4>2
    <3> QED
      BY <3>1, <3>2
  <2>4. Solves(h, n + 1)
    BY <2>3
  <2>5. \E k : Solves(k, n + 1)
    <3> HIDE DEF Solves, h
    <3> QED
      BY <2>4
  <2> QED
    BY <1>1, <1>3, <2>5
<1>4. \A n \in 0 .. Len(fs) : n \in S
  <2> HIDE DEF S
  <2> QED
    BY <1>1, <1>2, <1>3, Induction
<1>5. \E g : Solves(g, Len(fs))
  BY <1>1, <1>4
<1> QED
  BY <1>5 DEF OwnedTo, AddOwn

\* What a visit on top adds to the scopes of those around it.
LEMMA OwnedStep ==
  ASSUME NEW fs \in Seq(Frame)
  PROVE  /\ OwnedTo(fs)[0] = << >>
         /\ \A i \in 1 .. Len(fs) :
              OwnedTo(fs)[i] = AddOwn(OwnedTo(fs)[i - 1], fs[i])
<1> DEFINE f == OwnedTo(fs)
<1>1. f = [i \in 0 .. Len(fs) |-> IF i = 0 THEN << >> ELSE AddOwn(f[i - 1], fs[i])]
  BY OwnedIs
<1>2. Len(fs) \in Nat
  OBVIOUS
<1> HIDE DEF f
<1>3. /\ f[0] = << >>
      /\ \A i \in 1 .. Len(fs) : f[i] = AddOwn(f[i - 1], fs[i])
  BY <1>1, <1>2
<1> QED
  BY <1>3 DEF f

LEMMA OwnedType ==
  ASSUME NEW fs \in Seq(Frame)
  PROVE  \A i \in 0 .. Len(fs) : OwnedTo(fs)[i] \in Seq(ScopeIds)
<1> DEFINE S == {i \in 0 .. Len(fs) : OwnedTo(fs)[i] \in Seq(ScopeIds)}
<1>1. Len(fs) \in Nat /\ 0 \in S
  <2>1. OwnedTo(fs)[0] = << >>
    BY OwnedStep
  <2>2. Len(fs) \in Nat
    OBVIOUS
  <2>3. OwnedTo(fs)[0] \in Seq(ScopeIds)
    BY <2>1, EmptySeq
  <2> QED
    BY <2>2, <2>3
<1>2. ASSUME NEW i \in 0 .. Len(fs), i < Len(fs), i \in S PROVE i + 1 \in S
  <2>1. i + 1 \in 1 .. Len(fs) /\ (i + 1) - 1 = i
    BY <1>1, <1>2
  <2>2. fs[i + 1].own \in ScopeIds \cup {0}
    BY <2>1, FrameOf
  <2>3. OwnedTo(fs)[i + 1] = AddOwn(OwnedTo(fs)[i], fs[i + 1])
    BY <2>1, OwnedStep
  <2>4. 0 \notin ScopeIds
    BY DEF ScopeIds
  <2>5. OwnedTo(fs)[i] \in Seq(ScopeIds)
    BY <1>2
  <2>6. OwnedTo(fs)[i + 1] \in Seq(ScopeIds)
    BY <2>2, <2>3, <2>4, <2>5 DEF AddOwn
  <2> QED
    BY <1>1, <2>1, <2>6
<1>3. \A i \in 0 .. Len(fs) : i \in S
  <2> HIDE DEF S
  <2> QED
    BY <1>1, <1>2, Induction
<1> QED
  BY <1>3

\* Only the scopes the visits own count.
LEMMA OwnedSame ==
  ASSUME NEW fs \in Seq(Frame), NEW gs \in Seq(Frame), NEW n \in Nat,
         n <= Len(fs), n <= Len(gs),
         \A i \in 1 .. n : fs[i].own = gs[i].own
  PROVE  OwnedTo(fs)[n] = OwnedTo(gs)[n]
<1> DEFINE S == {i \in 0 .. n : OwnedTo(fs)[i] = OwnedTo(gs)[i]}
<1>1. 0 \in S
  BY OwnedStep
<1>2. ASSUME NEW i \in 0 .. n, i < n, i \in S PROVE i + 1 \in S
  <2>1. /\ i + 1 \in 1 .. n /\ (i + 1) - 1 = i
        /\ i + 1 \in 1 .. Len(fs) /\ i + 1 \in 1 .. Len(gs)
    BY <1>2
  <2>2. /\ OwnedTo(fs)[i + 1] = AddOwn(OwnedTo(fs)[i], fs[i + 1])
        /\ OwnedTo(gs)[i + 1] = AddOwn(OwnedTo(gs)[i], gs[i + 1])
    BY <2>1, OwnedStep
  <2>3. fs[i + 1].own = gs[i + 1].own
    BY <2>1
  <2> QED
    BY <1>2, <2>1, <2>2, <2>3 DEF AddOwn
<1>3. \A i \in 0 .. n : i \in S
  <2> HIDE DEF S
  <2> QED
    BY <1>1, <1>2, Induction
<1> QED
  BY <1>3

\* The scopes of the outer visits come first.
LEMMA OwnedPrefix ==
  ASSUME NEW fs \in Seq(Frame), NEW m \in 0 .. Len(fs)
  PROVE  \A n \in m .. Len(fs) :
           /\ Len(OwnedTo(fs)[m]) <= Len(OwnedTo(fs)[n])
           /\ \A k \in 1 .. Len(OwnedTo(fs)[m]) : OwnedTo(fs)[n][k] = OwnedTo(fs)[m][k]
<1> DEFINE f == OwnedTo(fs)
           P(n) == /\ Len(f[m]) <= Len(f[n])
                   /\ \A k \in 1 .. Len(f[m]) : f[n][k] = f[m][k]
           S == {i \in 0 .. Len(fs) - m : P(m + i)}
<1>1. \A i \in 0 .. Len(fs) : f[i] \in Seq(ScopeIds) /\ Len(f[i]) \in Nat
  BY OwnedType
<1>2. Len(fs) \in Nat /\ m \in Nat /\ Len(fs) - m \in Nat
  OBVIOUS
<1>3. \A i \in 1 .. Len(fs) : f[i] = AddOwn(f[i - 1], fs[i]) /\ fs[i].own \in ScopeIds \cup {0}
  BY OwnedStep, FrameOf
<1> HIDE DEF f
<1>4. 0 \in S
  BY <1>1, <1>2
<1>5. ASSUME NEW i \in 0 .. Len(fs) - m, i < Len(fs) - m, i \in S PROVE i + 1 \in S
  <2>1. /\ m + i \in 0 .. Len(fs) /\ m + (i + 1) \in 1 .. Len(fs)
        /\ (m + (i + 1)) - 1 = m + i
    BY <1>2, <1>5
  <2>2. f[m + (i + 1)] = AddOwn(f[m + i], fs[m + (i + 1)])
    BY <1>3, <2>1
  <2>3. P(m + i)
    BY <1>5
  <2>4. /\ f[m + i] \in Seq(ScopeIds) /\ Len(f[m + i]) \in Nat /\ Len(f[m]) \in Nat
        /\ fs[m + (i + 1)].own \in ScopeIds \cup {0}
    BY <1>1, <1>3, <2>1
  <2>5. P(m + (i + 1))
    <3>1. CASE fs[m + (i + 1)].own = 0
      BY <2>2, <2>3, <3>1 DEF AddOwn
    <3>2. CASE fs[m + (i + 1)].own # 0
      <4>1. /\ Len(f[m + (i + 1)]) = Len(f[m + i]) + 1
            /\ \A k \in 1 .. Len(f[m + i]) : f[m + (i + 1)][k] = f[m + i][k]
        BY <2>2, <2>4, <3>2, AppendProperties DEF AddOwn
      <4> QED
        BY <2>3, <2>4, <4>1
    <3> QED
      BY <3>1, <3>2
  <2> QED
    BY <1>2, <1>5, <2>5
<1>6. \A i \in 0 .. Len(fs) - m : i \in S
  <2> HIDE DEF S
  <2> QED
    BY <1>2, <1>4, <1>5, Induction
<1>7. ASSUME NEW n \in m .. Len(fs) PROVE P(n)
  <2>1. n - m \in 0 .. Len(fs) - m /\ m + (n - m) = n
    BY <1>2
  <2>2. P(m + (n - m))
    BY <1>6, <2>1
  <2> QED
    BY <2>1, <2>2
<1> QED
  BY <1>7 DEF f

\* Every scope in OwnedTo is that of a visit.
LEMMA OwnedFrom ==
  ASSUME NEW fs \in Seq(Frame)
  PROVE  \A n \in 0 .. Len(fs) : \A k \in DOMAIN OwnedTo(fs)[n] :
           \E i \in 1 .. n : fs[i].own # 0 /\ OwnedTo(fs)[n][k] = fs[i].own
<1> DEFINE f == OwnedTo(fs)
           P(n) == \A k \in DOMAIN f[n] : \E i \in 1 .. n : fs[i].own # 0 /\ f[n][k] = fs[i].own
           S == {n \in 0 .. Len(fs) : P(n)}
<1>1. \A i \in 0 .. Len(fs) : f[i] \in Seq(ScopeIds)
  BY OwnedType
<1>2. Len(fs) \in Nat
  OBVIOUS
<1>3. /\ \A i \in 1 .. Len(fs) : f[i] = AddOwn(f[i - 1], fs[i]) /\ fs[i].own \in ScopeIds \cup {0}
      /\ f[0] = << >>
  BY OwnedStep, FrameOf
<1> HIDE DEF f
<1>4. 0 \in S
  BY <1>2, <1>3
<1>5. ASSUME NEW n \in 0 .. Len(fs), n < Len(fs), n \in S PROVE n + 1 \in S
  <2>1. n + 1 \in 1 .. Len(fs) /\ (n + 1) - 1 = n
    BY <1>2, <1>5
  <2>2. f[n + 1] = AddOwn(f[n], fs[n + 1]) /\ fs[n + 1].own \in ScopeIds \cup {0}
    BY <1>3, <2>1
  <2>3. f[n] \in Seq(ScopeIds) /\ P(n)
    BY <1>1, <1>5
  <2>4. ASSUME NEW k \in DOMAIN f[n + 1]
        PROVE  \E i \in 1 .. n + 1 : fs[i].own # 0 /\ f[n + 1][k] = fs[i].own
    <3>1. CASE k \in DOMAIN f[n] /\ f[n + 1][k] = f[n][k]
      BY <2>1, <2>3, <3>1
    <3>2. CASE fs[n + 1].own # 0 /\ f[n + 1][k] = fs[n + 1].own
      BY <2>1, <3>2
    <3> QED
      BY <2>2, <2>3, <3>1, <3>2 DEF AddOwn
  <2> QED
    BY <1>2, <1>5, <2>4
<1>6. \A n \in 0 .. Len(fs) : n \in S
  <2> HIDE DEF S
  <2> QED
    BY <1>2, <1>4, <1>5, Induction
<1> QED
  BY <1>6 DEF f

(***************************************************************************)
(* Visits and scopes                                                       *)
(***************************************************************************)

\* Visits nest as the program does, the scopes they own in the order they
\* were pushed.
Nested(fs) ==
  /\ fs \in Seq(Frame) /\ fs # << >>
  /\ \A i \in 1 .. Len(fs) :
       /\ fs[i].node = "program" <=> i = 1
       /\ fs[i].node \in {"program", "if", "single"} => fs[i].own = 0
       /\ fs[i].node \in {"for", "compound"} => fs[i].own # 0
       /\ i < Len(fs) => MayHaveItem(fs[i])
  /\ \A i, j \in 1 .. Len(fs) :
       i < j /\ fs[i].own # 0 /\ fs[j].own # 0 => fs[i].own < fs[j].own

\* No scope of owned is missing among sc, which may hold others left behind
\* by an error.
Around(sc, owned) ==
  /\ sc \in Seq(ScopeIds)
  /\ \A i, j \in 1 .. Len(sc) : i < j => sc[i] < sc[j]
  /\ \A i \in 1 .. Len(owned) : \E k \in i .. Len(sc) : sc[k] = owned[i]

LEMMA NestedLen ==
  ASSUME NEW fs, Nested(fs)
  PROVE  /\ fs \in Seq(Frame) /\ Len(fs) \in Nat \ {0} /\ DOMAIN fs = 1 .. Len(fs)
         /\ Len(fs) \in 1 .. Len(fs)
  BY FrameOf DEF Nested

LEMMA Outer ==
  ASSUME NEW fs, Nested(fs), NEW m \in 1 .. Len(fs)
  PROVE  /\ Nested(SubSeq(fs, 1, m)) /\ Len(SubSeq(fs, 1, m)) = m
         /\ \A i \in 1 .. m : SubSeq(fs, 1, m)[i] = fs[i]
         /\ m < Len(fs) => MayHaveItem(SubSeq(fs, 1, m)[m])
         /\ OwnedTo(SubSeq(fs, 1, m))[m] = OwnedTo(fs)[m]
<1> DEFINE gs == SubSeq(fs, 1, m)
<1>1. fs \in Seq(Frame) /\ Len(fs) \in Nat /\ m \in Nat /\ m <= Len(fs) /\ m >= 1
  BY NestedLen
<1>2. /\ gs \in Seq(Frame) /\ Len(gs) = m /\ \A i \in 1 .. m : gs[i] = fs[i]
  BY <1>1, FrameOf, SubSeqProperties
<1> HIDE DEF gs
<1>3. m < Len(fs) => MayHaveItem(gs[m])
  BY <1>1, <1>2 DEF Nested
<1>4. \A i \in 1 .. m : i \in 1 .. Len(fs)
  BY <1>1
<1>5. gs # << >>
  BY <1>1, <1>2
<1>6. Nested(gs)
  <2>1. ASSUME NEW i \in 1 .. m
        PROVE  /\ gs[i].node = "program" <=> i = 1
               /\ gs[i].node \in {"program", "if", "single"} => gs[i].own = 0
               /\ gs[i].node \in {"for", "compound"} => gs[i].own # 0
               /\ i < m => MayHaveItem(gs[i])
    BY <1>1, <1>2, <1>4 DEF Nested
  <2>2. ASSUME NEW i \in 1 .. m, NEW j \in 1 .. m,
               i < j /\ gs[i].own # 0 /\ gs[j].own # 0
        PROVE  gs[i].own < gs[j].own
    BY <1>2, <1>4, <2>2 DEF Nested
  <2> QED
    BY <1>2, <1>5, <2>1, <2>2 DEF Nested
<1>7. OwnedTo(gs)[m] = OwnedTo(fs)[m]
  BY <1>1, <1>2, OwnedSame
<1> QED
  BY <1>2, <1>3, <1>6, <1>7 DEF gs

LEMMA Delivered ==
  ASSUME NEW fs, Nested(fs), MayHaveItem(fs[Len(fs)]), NEW r, Deliver(fs, r)
  PROVE  /\ Nested(frames') /\ Len(frames') = Len(fs)
         /\ \A i \in 1 .. Len(fs) : frames'[i].own = fs[i].own
         /\ OwnedTo(frames')[Len(fs)] = OwnedTo(fs)[Len(fs)]
         /\ outcome' \in {outcome, "ice"}
<1> DEFINE n == Len(fs)
<1>1. /\ fs \in Seq(Frame) /\ n \in Nat \ {0} /\ n \in 1 .. n
      /\ fs[n] \in Frame /\ fs[n].node \in Lists \cup Statements
      /\ fs[n].got \in 0 .. 2
  BY NestedLen, FrameOf
<1>2. CASE fs[n].node \in Lists
  BY <1>1, <1>2 DEF Deliver
<1>3. CASE fs[n].node \notin Lists
  <2> DEFINE g == [fs[n] EXCEPT !.got = @ + 1]
  <2>1. fs[n].got \in 0 .. 1
    BY <1>1, <1>3 DEF MayHaveItem, Lists, Statements
  <2>2. g \in Frame /\ g.node = fs[n].node /\ g.own = fs[n].own
    BY <1>1, <2>1 DEF Frame
  <2>3. frames' = [fs EXCEPT ![n] = g] /\ outcome' \in {outcome, "ice"}
    BY <1>1, <1>3 DEF Deliver
  <2> HIDE DEF g, n
  <2>4. /\ frames' \in Seq(Frame) /\ Len(frames') = n
        /\ \A i \in 1 .. n : frames'[i] = IF i = n THEN g ELSE fs[i]
    BY <1>1, <2>2, <2>3, ExceptSeq DEF n
  <2>5. \A i \in 1 .. n : frames'[i].own = fs[i].own /\ frames'[i].node = fs[i].node
    BY <2>2, <2>4
  <2>6. \A i \in 1 .. n : i < n => frames'[i] = fs[i]
    BY <2>4
  <2>7. frames' # << >>
    BY <1>1, <2>4
  <2>8. Nested(frames')
    BY <1>1, <2>4, <2>5, <2>6, <2>7 DEF Nested, n
  <2>9. OwnedTo(frames')[n] = OwnedTo(fs)[n]
    BY <1>1, <2>4, <2>5, OwnedSame DEF n
  <2> QED
    BY <2>3, <2>4, <2>5, <2>8, <2>9 DEF n
<1> QED
  BY <1>2, <1>3

LEMMA Entered ==
  ASSUME NEW fs, Nested(fs), MayHaveItem(fs[Len(fs)]),
         NEW node \in {"if", "for", "single", "compound", "function"},
         NEW own \in ScopeIds \cup {0}, own # 0 <=> node \in {"for", "compound"},
         own # 0 => \A i \in 1 .. Len(fs) : fs[i].own < own
  PROVE  LET gs == Append(fs, Visit(node, own))
         IN  /\ Nested(gs) /\ Len(gs) = Len(fs) + 1
             /\ \A i \in 1 .. Len(fs) : gs[i] = fs[i]
             /\ gs[Len(fs) + 1].own = own
             /\ OwnedTo(gs)[Len(fs) + 1] = AddOwn(OwnedTo(fs)[Len(fs)], Visit(node, own))
<1> DEFINE n == Len(fs)
           v == Visit(node, own)
           gs == Append(fs, v)
<1>1. /\ fs \in Seq(Frame) /\ n \in Nat \ {0} /\ n \in 1 .. n
      /\ \A i \in 1 .. n : fs[i].own \in ScopeIds \cup {0}
  BY NestedLen, FrameOf
<1>2. v \in Frame /\ v.node = node /\ v.own = own
  BY DEF Visit, Frame, Lists, Statements
<1>3. ScopeIds \cup {0} \subseteq Nat
  BY MIRSynthesizerAssumption DEF ScopeIds
<1> HIDE DEF v, n
<1>4. /\ gs \in Seq(Frame) /\ Len(gs) = n + 1 /\ gs # << >>
      /\ \A i \in 1 .. n : gs[i] = fs[i]
      /\ gs[n + 1] = v
  BY <1>1, <1>2, AppendProperties DEF n
<1> HIDE DEF gs
<1>5. Nested(gs)
  <2>1. ASSUME NEW i \in 1 .. n + 1
        PROVE  /\ gs[i].node = "program" <=> i = 1
               /\ gs[i].node \in {"program", "if", "single"} => gs[i].own = 0
               /\ gs[i].node \in {"for", "compound"} => gs[i].own # 0
               /\ i < n + 1 => MayHaveItem(gs[i])
    <3>1. CASE i \in 1 .. n
      <4>1. gs[i] = fs[i] /\ (i < n \/ i = n)
        BY <1>1, <1>4, <3>1
      <4> QED
        BY <3>1, <4>1 DEF Nested, n
    <3>2. CASE i = n + 1
      BY <1>1, <1>2, <1>4, <3>2
    <3> QED
      BY <1>1, <3>1, <3>2
  <2>2. ASSUME NEW i \in 1 .. n + 1, NEW j \in 1 .. n + 1,
               i < j, gs[i].own # 0, gs[j].own # 0
        PROVE  gs[i].own < gs[j].own
    <3>1. i \in 1 .. n /\ gs[i] = fs[i]
      BY <1>1, <1>4, <2>2
    <3>2. CASE j \in 1 .. n
      <4>1. gs[j] = fs[j]
        BY <1>4, <3>2
      <4> QED
        BY <2>2, <3>1, <3>2, <4>1 DEF Nested, n
    <3>3. CASE j = n + 1
      BY <1>2, <1>4, <2>2, <3>1, <3>3 DEF n
    <3> QED
      BY <1>1, <3>2, <3>3
  <2> QED
    BY <1>4, <2>1, <2>2 DEF Nested
<1>6. OwnedTo(gs)[n + 1] = AddOwn(OwnedTo(fs)[n], v)
  <2>1. OwnedTo(gs)[n] = OwnedTo(fs)[n]
    BY <1>1, <1>4, OwnedSame DEF n
  <2>2. n + 1 \in 1 .. Len(gs) /\ (n + 1) - 1 = n
    BY <1>1, <1>4
  <2> QED
    BY <1>4, <2>1, <2>2, OwnedStep
<1> QED
  BY <1>2, <1>4, <1>5, <1>6 DEF gs, v, n

LEMMA Ids == ScopeIds \subseteq Nat /\ 0 \notin ScopeIds
  BY MIRSynthesizerAssumption DEF ScopeIds

LEMMA IdSeq ==
  ASSUME NEW sc \in Seq(ScopeIds)
  PROVE  /\ Len(sc) \in Nat /\ DOMAIN sc = 1 .. Len(sc)
         /\ \A k \in 1 .. Len(sc) : sc[k] \in ScopeIds /\ sc[k] \in Nat
<1>1. Len(sc) \in Nat /\ DOMAIN sc = 1 .. Len(sc)
  OBVIOUS
<1>2. \A k \in 1 .. Len(sc) : sc[k] \in ScopeIds
  OBVIOUS
<1>3. \A k \in ScopeIds : k \in Nat
  BY Ids
<1> QED
  BY <1>1, <1>2, <1>3

LEMMA FrontOf ==
  ASSUME NEW S, NEW s \in Seq(S), s # << >>
  PROVE  /\ Front(s) \in Seq(S) /\ Len(Front(s)) = Len(s) - 1 /\ Len(s) \in Nat \ {0}
         /\ \A i \in 1 .. Len(s) - 1 : Front(s)[i] = s[i] /\ i \in 1 .. Len(s)
<1>1. Len(s) \in Nat \ {0} /\ Len(s) - 1 \in Int /\ 1 \in Int
  OBVIOUS
<1>2. \A i \in 1 .. Len(s) - 1 : s[i] \in S
  OBVIOUS
<1> DEFINE n == Len(s) - 1
           t == SubSeq(s, 1, n)
<1>3. /\ t \in Seq(S)
      /\ Len(t) = IF 1 <= n THEN n - 1 + 1 ELSE 0
      /\ \A i \in 1 .. n - 1 + 1 : t[i] = s[1 + i - 1]
  BY <1>1, <1>2, SubSeqProperties
<1> HIDE DEF t
<1>4. /\ Len(t) = n
      /\ \A i \in 1 .. n : t[i] = s[i] /\ i \in 1 .. Len(s)
  <2>1. n \in Nat /\ n - 1 + 1 = n
    BY <1>1
  <2>2. Len(t) = n
    <3>1. (IF 1 <= n THEN n - 1 + 1 ELSE 0) = n
      BY <2>1
    <3>2. Len(t) = IF 1 <= n THEN n - 1 + 1 ELSE 0
      BY <1>3
    <3> QED
      BY <3>1, <3>2
  <2>3. ASSUME NEW i \in 1 .. n PROVE t[i] = s[i] /\ i \in 1 .. Len(s)
    <3>1. 1 + i - 1 = i /\ i \in 1 .. n - 1 + 1
      BY <2>1
    <3>2. t[i] = s[1 + i - 1]
      BY <1>3, <3>1
    <3> QED
      BY <1>1, <3>1, <3>2
  <2> QED
    BY <2>2, <2>3
<1> QED
  BY <1>1, <1>3, <1>4 DEF Front, t

LEMMA AroundPush ==
  ASSUME NEW sc, NEW owned \in Seq(ScopeIds), Around(sc, owned), NEW id \in ScopeIds,
         \A i \in 1 .. Len(sc) : sc[i] < id
  PROVE  /\ Around(Append(sc, id), Append(owned, id))
         /\ \A i \in 1 .. Len(Append(sc, id)) : Append(sc, id)[i] <= id
<1> DEFINE sd == Append(sc, id)
           own == Append(owned, id)
<1>1. sc \in Seq(ScopeIds) /\ Len(sc) \in Nat /\ Len(owned) \in Nat
  BY DEF Around
<1>2. /\ sd \in Seq(ScopeIds) /\ Len(sd) = Len(sc) + 1 /\ sd[Len(sc) + 1] = id
      /\ \A i \in 1 .. Len(sc) : sd[i] = sc[i]
      /\ Len(own) = Len(owned) + 1 /\ own[Len(owned) + 1] = id
      /\ \A i \in 1 .. Len(owned) : own[i] = owned[i]
  BY <1>1, AppendProperties
<1> HIDE DEF sd, own
<1>3. \A i, j \in 1 .. Len(sd) : i < j => sd[i] < sd[j]
  <2> SUFFICES ASSUME NEW i \in 1 .. Len(sd), NEW j \in 1 .. Len(sd), i < j
               PROVE  sd[i] < sd[j]
    OBVIOUS
  <2>1. i \in 1 .. Len(sc) /\ (j \in 1 .. Len(sc) \/ j = Len(sc) + 1)
    BY <1>1, <1>2
  <2> QED
    BY <1>2, <2>1 DEF Around
<1>4. ASSUME NEW i \in 1 .. Len(own)
      PROVE  \E k \in i .. Len(sd) : sd[k] = own[i]
  <2>1. CASE i \in 1 .. Len(owned)
    <3>1. PICK k \in i .. Len(sc) : sc[k] = owned[i]
      BY <2>1 DEF Around
    <3>2. k \in i .. Len(sd) /\ k \in 1 .. Len(sc)
      BY <1>1, <1>2, <2>1, <3>1
    <3> QED
      BY <1>2, <2>1, <3>1, <3>2
  <2>2. CASE i = Len(owned) + 1
    <3>1. Len(owned) <= Len(sc)
      <4>1. CASE Len(owned) = 0
        BY <1>1, <4>1
      <4>2. CASE Len(owned) # 0
        <5>1. Len(owned) \in 1 .. Len(owned)
          BY <1>1, <4>2
        <5>2. PICK k \in Len(owned) .. Len(sc) : sc[k] = owned[Len(owned)]
          BY <5>1 DEF Around
        <5> QED
          BY <1>1, <5>2
      <4> QED
        BY <4>1, <4>2
    <3>2. Len(sc) + 1 \in i .. Len(sd)
      BY <1>1, <1>2, <2>2, <3>1
    <3> QED
      BY <1>2, <2>2, <3>2
  <2> QED
    BY <1>1, <1>2, <2>1, <2>2
<1>5. \A i \in 1 .. Len(sd) : sd[i] <= id
  <2> SUFFICES ASSUME NEW i \in 1 .. Len(sd) PROVE sd[i] <= id
    OBVIOUS
  <2>1. i \in 1 .. Len(sc) \/ i = Len(sc) + 1
    BY <1>1, <1>2
  <2>2. id \in Nat /\ \A k \in 1 .. Len(sc) : sc[k] \in Nat
    BY <1>1, IdSeq, Ids
  <2> QED
    BY <1>2, <2>1, <2>2
<1> QED
  BY <1>2, <1>3, <1>4, <1>5 DEF Around, sd, own

\* Scopes may stay longer than the visits that pushed them.
LEMMA AroundOuter ==
  ASSUME NEW fs, Nested(fs), NEW sc, NEW n \in 0 .. Len(fs), NEW m \in 0 .. n,
         Around(sc, OwnedTo(fs)[n])
  PROVE  Around(sc, OwnedTo(fs)[m])
<1>1. fs \in Seq(Frame) /\ m \in 0 .. Len(fs) /\ n \in m .. Len(fs)
  BY NestedLen
<1>2. /\ Len(OwnedTo(fs)[m]) <= Len(OwnedTo(fs)[n])
      /\ \A k \in 1 .. Len(OwnedTo(fs)[m]) : OwnedTo(fs)[n][k] = OwnedTo(fs)[m][k]
  BY <1>1, OwnedPrefix
<1>3. Len(OwnedTo(fs)[m]) \in Nat /\ Len(OwnedTo(fs)[n]) \in Nat
  BY <1>1, OwnedType
<1>4. \A k \in 1 .. Len(OwnedTo(fs)[m]) : k \in 1 .. Len(OwnedTo(fs)[n])
  BY <1>2, <1>3
<1> QED
  BY <1>2, <1>4 DEF Around

\* The current scope may be one left behind, but popping it never pops one
\* of a visit outside the one that ends.
LEMMA AroundPop ==
  ASSUME NEW fs, Nested(fs), NEW n \in 1 .. Len(fs), fs[n].own # 0,
         NEW sc, Around(sc, OwnedTo(fs)[n])
  PROVE  /\ sc # << >> /\ sc[Len(sc)] \in ScopeIds
         /\ Around(Front(sc), OwnedTo(fs)[n - 1])
         /\ \A i \in 1 .. Len(Front(sc)) : i \in 1 .. Len(sc) /\ Front(sc)[i] = sc[i]
         /\ sc = OwnedTo(fs)[n] =>
              sc[Len(sc)] = fs[n].own /\ Front(sc) = OwnedTo(fs)[n - 1]
<1> DEFINE inner == OwnedTo(fs)[n]
           outer == OwnedTo(fs)[n - 1]
           o == fs[n].own
           l == Len(outer)
           sd == Front(sc)
<1>1. /\ fs \in Seq(Frame) /\ n - 1 \in 0 .. Len(fs) /\ n \in 0 .. Len(fs)
      /\ fs[n].own \in ScopeIds
  BY NestedLen, FrameOf
<1>2. /\ outer \in Seq(ScopeIds) /\ inner = Append(outer, o) /\ l \in Nat
  <2>1. outer \in Seq(ScopeIds)
    BY <1>1, OwnedType
  <2>2. inner = AddOwn(outer, fs[n])
    BY <1>1, OwnedStep
  <2> QED
    BY <2>1, <2>2 DEF AddOwn
<1>3. \A k \in 1 .. l : outer[k] < o
  <2> SUFFICES ASSUME NEW k \in 1 .. l PROVE outer[k] < o
    OBVIOUS
  <2>1. DOMAIN outer = 1 .. l
    BY <1>2
  <2> HIDE DEF l, inner, sd
  <2>2. PICK i \in 1 .. n - 1 : fs[i].own # 0 /\ outer[k] = fs[i].own
    <3>1. \A j \in DOMAIN outer :
            \E i \in 1 .. n - 1 : fs[i].own # 0 /\ outer[j] = fs[i].own
      BY <1>1, OwnedFrom
    <3> QED
      BY <2>1, <3>1
  <2>3. i \in 1 .. Len(fs) /\ i < n
    BY <1>1
  <2> QED
    BY <2>2, <2>3 DEF Nested
<1> HIDE DEF o, outer, inner
<1>4. /\ inner[l + 1] = o /\ Len(inner) = l + 1
      /\ \A k \in 1 .. l : inner[k] = outer[k]
  <2>1. o \in ScopeIds
    BY <1>1 DEF o
  <2> QED
    BY <1>2, <2>1, AppendProperties
<1>5. sc \in Seq(ScopeIds) /\ Len(sc) \in Nat
  BY DEF Around
<1>6. PICK p \in l + 1 .. Len(sc) : sc[p] = o
  <2>1. l + 1 \in 1 .. Len(inner)
    BY <1>2, <1>4
  <2> QED
    BY <1>4, <2>1 DEF Around, inner
<1>7. /\ sd \in Seq(ScopeIds) /\ Len(sd) = Len(sc) - 1 /\ Len(sc) >= 1
      /\ \A i \in 1 .. Len(sd) : sd[i] = sc[i] /\ i \in 1 .. Len(sc)
  <2>1. sc # << >>
    BY <1>2, <1>5, <1>6
  <2> QED
    BY <1>5, <2>1, FrontOf
<1> HIDE DEF sd
<1>8. ASSUME NEW i \in 1 .. l PROVE \E k \in i .. Len(sd) : sd[k] = outer[i]
  <2>1. i \in 1 .. Len(inner) /\ inner[i] = outer[i]
    BY <1>2, <1>4
  <2>2. PICK k \in i .. Len(sc) : sc[k] = outer[i]
    BY <2>1 DEF Around, inner
  <2>3. k # Len(sc)
    <3>1. sc[k] < o /\ p \in 1 .. Len(sc)
      BY <1>2, <1>3, <1>5, <1>6, <2>2
    <3>2. p < Len(sc) => sc[p] < sc[Len(sc)]
      BY <1>5, <3>1 DEF Around
    <3>3. sc[k] \in Nat /\ sc[p] \in Nat
      <4>1. k \in 1 .. Len(sc)
        BY <1>5, <2>2
      <4> QED
        BY <1>5, <3>1, <4>1, IdSeq
    <3> QED
      BY <1>5, <1>6, <3>1, <3>2, <3>3
  <2>4. k \in i .. Len(sd) /\ k \in 1 .. Len(sd)
    <3>1. Len(sd) = Len(sc) - 1
      BY <1>7
    <3>2. k \in Nat /\ i <= k /\ k <= Len(sc) /\ i \in Nat /\ 1 <= i
      BY <1>2, <1>5
    <3> QED
      BY <1>5, <2>3, <3>1, <3>2
  <2> QED
    BY <1>7, <2>2, <2>4
<1>9. Around(sd, outer)
  <2>1. \A i, j \in 1 .. Len(sd) : i < j => sd[i] < sd[j]
    BY <1>7 DEF Around
  <2> QED
    BY <1>7, <1>8, <2>1 DEF Around
<1>10. ASSUME sc = inner PROVE sc[Len(sc)] = o /\ sd = outer
  <2>1. Len(sd) = l /\ \A i \in 1 .. l : sd[i] = outer[i]
    BY <1>2, <1>4, <1>7, <1>10
  <2>2. sd = outer
    BY <1>2, <1>7, <2>1, SeqEqual
  <2> QED
    BY <1>4, <1>10, <2>2
<1>11. sc # << >> /\ sc[Len(sc)] \in ScopeIds
  BY <1>5, <1>7
<1> QED
  BY <1>7, <1>9, <1>10, <1>11 DEF sd, o, outer, inner

(***************************************************************************)
(* The invariant of the synthesizer                                        *)
(***************************************************************************)

Typing ==
  /\ made \in 0 .. MaxScopes
  /\ found \in BOOLEAN /\ threw \in BOOLEAN
  /\ noticed \in 0 .. MaxErrors
  /\ reported \in Seq(1 .. MaxErrors) /\ told \in Seq(1 .. MaxErrors)
  /\ tied \subseteq [body : ScopeIds, scope : ScopeIds \cup {0}]
  /\ outcome \in {"running", "done", "abandoned", "raised", "ice", "uncaught"}

\* The visits fs in the scopes sc: nothing is newer than the last scope made,
\* and without an error nothing is left behind.
Standing(fs, sc, n, thrown) ==
  /\ Nested(fs) /\ \A i \in 1 .. Len(fs) : fs[i].own <= n
  /\ Around(sc, OwnedTo(fs)[Len(fs)]) /\ \A i \in 1 .. Len(sc) : sc[i] <= n
  /\ ~thrown => sc = OwnedTo(fs)[Len(fs)]

\* The errors found up to the n-th, all of them.
All(n) == [k \in 1 .. n |-> k]

\* Until the program has been visited every error found is with the
\* synthesizer, and no error is thrown that is not among them.
Reporting ==
  /\ threw => noticed # 0
  /\ Running => reported = All(noticed)
  /\ ErrorsTold

SynthInv ==
  Typing /\ Standing(frames, scopes, made, threw) /\ TiedToBody /\ Reporting

\* A result is handed to a visit.
LEMMA StandingDelivers ==
  ASSUME NEW fs, NEW sc, NEW n, NEW thrown, Standing(fs, sc, n, thrown),
         MayHaveItem(fs[Len(fs)]), NEW r, Deliver(fs, r)
  PROVE  Standing(frames', sc, n, thrown) /\ outcome' \in {outcome, "ice"}
<1>1. Nested(fs)
  BY DEF Standing
<1>2. /\ Nested(frames') /\ Len(frames') = Len(fs)
      /\ \A i \in 1 .. Len(fs) : frames'[i].own = fs[i].own
      /\ OwnedTo(frames')[Len(fs)] = OwnedTo(fs)[Len(fs)]
      /\ outcome' \in {outcome, "ice"}
  BY <1>1, Delivered
<1> QED
  BY <1>2 DEF Standing

\* A visit ends, or is left by an error with all those inside it.
LEMMA StandingOuter ==
  ASSUME NEW fs, NEW sc, NEW n, NEW thrown, Standing(fs, sc, n, thrown),
         NEW m \in 1 .. Len(fs) - 1, thrown \/ m = Len(fs) - 1,
         thrown \in BOOLEAN,
         thrown \/ fs[Len(fs)].own = 0
  PROVE  LET gs == SubSeq(fs, 1, m)
         IN  Standing(gs, sc, n, thrown) /\ MayHaveItem(gs[Len(gs)])
<1> DEFINE gs == SubSeq(fs, 1, m)
           l == Len(fs)
<1>1. /\ Nested(fs) /\ fs \in Seq(Frame) /\ l \in Nat /\ m \in 1 .. l /\ m < l
      /\ l \in 0 .. l /\ m \in 0 .. l /\ l \in 1 .. l
  BY NestedLen DEF Standing
<1>2. /\ Nested(gs) /\ Len(gs) = m /\ \A i \in 1 .. m : gs[i] = fs[i]
      /\ MayHaveItem(gs[m]) /\ OwnedTo(gs)[m] = OwnedTo(fs)[m]
  BY <1>1, Outer
<1> HIDE DEF gs
<1>3. Around(sc, OwnedTo(fs)[m])
  BY <1>1, AroundOuter DEF Standing
<1>4. ~thrown => sc = OwnedTo(fs)[m]
  <2> SUFFICES ASSUME ~thrown PROVE sc = OwnedTo(fs)[m]
    OBVIOUS
  <2>1. l - 1 = m /\ fs[l].own = 0
    OBVIOUS
  <2>2. OwnedTo(fs)[l] = AddOwn(OwnedTo(fs)[l - 1], fs[l])
    BY <1>1, OwnedStep
  <2> QED
    BY <2>1, <2>2 DEF AddOwn, Standing
<1>5. \A i \in 1 .. m : gs[i].own <= n
  BY <1>1, <1>2 DEF Standing
<1> QED
  BY <1>2, <1>3, <1>4, <1>5 DEF Standing, gs

LEMMA StandingPops ==
  ASSUME NEW fs, NEW sc, NEW n, NEW thrown, Standing(fs, sc, n, thrown),
         NEW m \in 2 .. Len(fs), thrown \/ m = Len(fs), thrown \in BOOLEAN,
         fs[m].own # 0
  PROVE  LET gs == SubSeq(fs, 1, m - 1)
         IN  /\ Standing(gs, Front(sc), n, thrown) /\ MayHaveItem(gs[Len(gs)])
             /\ sc # << >> /\ sc[Len(sc)] \in ScopeIds
             /\ ~thrown => sc[Len(sc)] = fs[m].own
<1> DEFINE gs == SubSeq(fs, 1, m - 1)
           l == Len(fs)
           sd == Front(sc)
<1>1. /\ Nested(fs) /\ fs \in Seq(Frame) /\ l \in Nat /\ m - 1 \in 1 .. l /\ m - 1 < l
      /\ l \in 0 .. l /\ m \in 0 .. l /\ m \in 1 .. l
  BY NestedLen DEF Standing
<1>2. /\ Nested(gs) /\ Len(gs) = m - 1 /\ \A i \in 1 .. m - 1 : gs[i] = fs[i]
      /\ MayHaveItem(gs[m - 1]) /\ OwnedTo(gs)[m - 1] = OwnedTo(fs)[m - 1]
  BY <1>1, Outer
<1>3. Around(sc, OwnedTo(fs)[m])
  BY <1>1, AroundOuter DEF Standing
<1>4. /\ sc # << >> /\ sc[Len(sc)] \in ScopeIds
      /\ Around(sd, OwnedTo(fs)[m - 1])
      /\ \A i \in 1 .. Len(sd) : i \in 1 .. Len(sc) /\ sd[i] = sc[i]
      /\ sc = OwnedTo(fs)[m] => sc[Len(sc)] = fs[m].own /\ sd = OwnedTo(fs)[m - 1]
  BY <1>1, <1>3, AroundPop
<1> HIDE DEF gs, sd
<1>5. ~thrown => sc = OwnedTo(fs)[m]
  BY DEF Standing
<1>6. \A i \in 1 .. m - 1 : gs[i].own <= n
  BY <1>1, <1>2 DEF Standing
<1>7. \A i \in 1 .. Len(sd) : sd[i] <= n
  BY <1>4 DEF Standing
<1> QED
  BY <1>2, <1>4, <1>5, <1>6, <1>7 DEF Standing, gs, sd

LEMMA StandingEnters ==
  ASSUME NEW fs, NEW sc, NEW n \in Nat, NEW thrown, Standing(fs, sc, n, thrown),
         MayHaveItem(fs[Len(fs)]), NEW node \in {"if", "single", "function"}
  PROVE  Standing(Append(fs, Visit(node, 0)), sc, n, thrown)
<1> DEFINE gs == Append(fs, Visit(node, 0))
           l == Len(fs)
<1>1. Nested(fs) /\ l \in Nat
  BY NestedLen DEF Standing
<1>2. /\ Nested(gs) /\ Len(gs) = l + 1
      /\ \A i \in 1 .. l : gs[i] = fs[i]
      /\ gs[l + 1].own = 0
      /\ OwnedTo(gs)[l + 1] = AddOwn(OwnedTo(fs)[l], Visit(node, 0))
  BY <1>1, Entered
<1> HIDE DEF gs
<1>3. OwnedTo(gs)[l + 1] = OwnedTo(fs)[l]
  BY <1>2 DEF AddOwn, Visit
<1>4. \A i \in 1 .. l + 1 : gs[i].own <= n
  <2> SUFFICES ASSUME NEW i \in 1 .. l + 1 PROVE gs[i].own <= n
    OBVIOUS
  <2>1. CASE i \in 1 .. l
    BY <1>2, <2>1 DEF Standing
  <2>2. CASE i = l + 1
    BY <1>2, <2>2
  <2> QED
    BY <1>1, <2>1, <2>2
<1> QED
  BY <1>2, <1>3, <1>4 DEF Standing, gs

LEMMA StandingPushes ==
  ASSUME NEW fs, NEW sc, NEW n \in Nat, NEW thrown, Standing(fs, sc, n, thrown),
         n + 1 \in ScopeIds,
         MayHaveItem(fs[Len(fs)]), NEW node \in {"for", "compound"}
  PROVE  Standing(Append(fs, Visit(node, n + 1)), Append(sc, n + 1), n + 1, thrown)
<1> DEFINE gs == Append(fs, Visit(node, n + 1))
           l == Len(fs)
           sd == Append(sc, n + 1)
<1>1. /\ Nested(fs) /\ l \in Nat /\ fs \in Seq(Frame) /\ l \in 0 .. l
      /\ \A i \in 1 .. l : fs[i].own \in Nat
  <2>1. Nested(fs)
    BY DEF Standing
  <2>2. l \in Nat /\ fs \in Seq(Frame) /\ l \in 0 .. l
    BY <2>1, NestedLen
  <2>3. \A i \in 1 .. l : fs[i].own \in ScopeIds \cup {0}
    BY <2>2, FrameOf
  <2>4. \A k \in ScopeIds \cup {0} : k \in Nat
    BY Ids
  <2>5. \A i \in 1 .. l : fs[i].own \in Nat
    BY <2>3, <2>4
  <2> QED
    BY <2>1, <2>2, <2>5
<1>2. \A i \in 1 .. l : fs[i].own < n + 1
  BY <1>1 DEF Standing
<1>3. /\ Nested(gs) /\ Len(gs) = l + 1
      /\ \A i \in 1 .. l : gs[i] = fs[i]
      /\ gs[l + 1].own = n + 1
      /\ OwnedTo(gs)[l + 1] = AddOwn(OwnedTo(fs)[l], Visit(node, n + 1))
  <2>1. n + 1 # 0 /\ n + 1 \in ScopeIds \cup {0}
    BY Ids
  <2>2. node \in {"if", "for", "single", "compound", "function"}
    OBVIOUS
  <2> QED
    BY <1>1, <1>2, <2>1, <2>2, Entered
<1> HIDE DEF gs
<1>4. OwnedTo(gs)[l + 1] = Append(OwnedTo(fs)[l], n + 1)
  BY <1>3 DEF AddOwn, Visit
<1>5. \A i \in 1 .. l + 1 : gs[i].own <= n + 1
  <2> SUFFICES ASSUME NEW i \in 1 .. l + 1 PROVE gs[i].own <= n + 1
    OBVIOUS
  <2>1. CASE i \in 1 .. l
    BY <1>1, <1>2, <1>3, <2>1
  <2>2. CASE i = l + 1
    BY <1>3, <2>2
  <2> QED
    BY <1>1, <2>1, <2>2
<1>6. \A i \in 1 .. Len(sc) : sc[i] < n + 1
  <2>1. \A i \in 1 .. Len(sc) : sc[i] \in Nat /\ sc[i] <= n
    BY IdSeq DEF Standing, Around
  <2> QED
    BY <2>1
<1>7. OwnedTo(fs)[l] \in Seq(ScopeIds) /\ Around(sc, OwnedTo(fs)[l])
  BY <1>1, OwnedType DEF Standing
<1>8. /\ Around(sd, Append(OwnedTo(fs)[l], n + 1))
      /\ \A i \in 1 .. Len(sd) : sd[i] <= n + 1
  BY <1>6, <1>7, AroundPush
<1> HIDE DEF sd
<1>9. ~thrown => sd = OwnedTo(gs)[l + 1]
  BY <1>4 DEF Standing, sd
<1> QED
  BY <1>3, <1>4, <1>5, <1>8, <1>9 DEF Standing, gs, sd

\* The header of a function is done: its body has a scope.
LEMMA StandingBody ==
  ASSUME NEW fs, NEW sc, NEW n \in Nat, NEW thrown, Standing(fs, sc, n, thrown),
         n + 1 \in ScopeIds,
         fs[Len(fs)].node = "function", fs[Len(fs)].own = 0
  PROVE  Standing([fs EXCEPT ![Len(fs)].own = n + 1], Append(sc, n + 1), n + 1, thrown)
<1> DEFINE l == Len(fs)
           g == [fs[l] EXCEPT !.own = n + 1]
           gs == [fs EXCEPT ![l].own = n + 1]
           sd == Append(sc, n + 1)
<1>1. /\ Nested(fs) /\ l \in Nat \ {0} /\ fs \in Seq(Frame) /\ l \in 1 .. l
      /\ l - 1 \in Nat /\ l - 1 \in 0 .. l /\ l \in 0 .. l
  BY NestedLen DEF Standing
<1>2. \A i \in 1 .. l : fs[i].own \in Nat /\ fs[i].own <= n
  <2>1. \A i \in 1 .. l : fs[i].own \in ScopeIds \cup {0}
    BY <1>1, FrameOf
  <2>2. \A k \in ScopeIds \cup {0} : k \in Nat
    BY Ids
  <2>3. \A i \in 1 .. l : fs[i].own <= n
    BY DEF Standing
  <2> QED
    BY <2>1, <2>2, <2>3
<1>3. g \in Frame /\ g.node = "function" /\ g.own = n + 1
  <2>1. fs[l] \in Frame
    BY <1>1, FrameOf
  <2> QED
    BY <2>1 DEF Frame
<1>4. gs = [fs EXCEPT ![l] = g]
  OBVIOUS
<1> HIDE DEF g, gs
<1>5. /\ gs \in Seq(Frame) /\ Len(gs) = l
      /\ \A i \in 1 .. l : gs[i] = IF i = l THEN g ELSE fs[i]
  BY <1>1, <1>3, <1>4, ExceptSeq
<1>6. \A i \in 1 .. l - 1 : gs[i] = fs[i] /\ i \in 1 .. l
  BY <1>1, <1>5
<1>7. gs[l] = g
  BY <1>1, <1>5
<1> HIDE DEF l
<1>8. Nested(gs)
  <2>1. ASSUME NEW i \in 1 .. l
        PROVE  /\ gs[i].node = "program" <=> i = 1
               /\ gs[i].node \in {"program", "if", "single"} => gs[i].own = 0
               /\ gs[i].node \in {"for", "compound"} => gs[i].own # 0
               /\ i < l => MayHaveItem(gs[i])
    <3>1. CASE i = l
      <4>1. fs[l].node = "function" /\ (fs[l].node = "program" <=> l = 1)
        BY <1>1 DEF Nested, l
      <4> QED
        BY <1>1, <1>3, <1>7, <3>1, <4>1
    <3>2. CASE i # l
      BY <1>1, <1>5, <3>2 DEF Nested, l
    <3> QED
      BY <3>1, <3>2
  <2>2. ASSUME NEW i \in 1 .. l, NEW j \in 1 .. l, i < j, gs[i].own # 0, gs[j].own # 0
        PROVE  gs[i].own < gs[j].own
    <3>1. gs[i] = fs[i]
      BY <1>1, <1>5, <2>2
    <3>2. CASE j = l
      BY <1>2, <1>3, <1>7, <3>1, <3>2
    <3>3. CASE j # l
      BY <1>1, <1>5, <2>2, <3>1, <3>3 DEF Nested, l
    <3> QED
      BY <3>2, <3>3
  <2>3. gs # << >>
    BY <1>1, <1>5
  <2> QED
    BY <1>5, <2>1, <2>2, <2>3 DEF Nested
<1>9. OwnedTo(gs)[l] = Append(OwnedTo(fs)[l], n + 1)
  <2>1. OwnedTo(gs)[l - 1] = OwnedTo(fs)[l - 1]
    <3>1. l - 1 <= Len(fs) /\ l - 1 <= Len(gs) /\ \A i \in 1 .. l - 1 : i \in 1 .. l /\ i # l
      BY <1>1, <1>5 DEF l
    <3>2. \A i \in 1 .. l - 1 : fs[i].own = gs[i].own
      BY <1>5, <3>1
    <3> HIDE DEF l
    <3> QED
      BY <1>1, <1>5, <3>1, <3>2, OwnedSame
  <2>2. OwnedTo(fs)[l] = AddOwn(OwnedTo(fs)[l - 1], fs[l])
    BY <1>1, OwnedStep DEF l
  <2>3. OwnedTo(gs)[l] = AddOwn(OwnedTo(gs)[l - 1], gs[l])
    BY <1>1, <1>5, OwnedStep
  <2>4. fs[l].own = 0 /\ gs[l].own = n + 1 /\ n + 1 # 0
    BY <1>3, <1>7 DEF l
  <2> QED
    BY <2>1, <2>2, <2>3, <2>4 DEF AddOwn
<1>10. \A i \in 1 .. l : gs[i].own <= n + 1
  BY <1>2, <1>3, <1>5
<1>11. \A i \in 1 .. Len(sc) : sc[i] < n + 1
  <2>1. \A i \in 1 .. Len(sc) : sc[i] \in Nat /\ sc[i] <= n
    BY IdSeq DEF Standing, Around
  <2> QED
    BY <2>1
<1>12. OwnedTo(fs)[l] \in Seq(ScopeIds) /\ Around(sc, OwnedTo(fs)[l])
  BY <1>1, OwnedType DEF Standing, l
<1>13. /\ Around(sd, Append(OwnedTo(fs)[l], n + 1))
       /\ \A i \in 1 .. Len(sd) : sd[i] <= n + 1
  BY <1>11, <1>12, AroundPush
<1> HIDE DEF sd
<1>14. ~thrown => sd = OwnedTo(gs)[l]
  BY <1>9 DEF Standing, sd, l
<1> QED
  BY <1>5, <1>8, <1>9, <1>10, <1>13, <1>14 DEF Standing, gs, sd, l

-----------------------------------------------------------------------------

LEMMA TopOf ==
  ASSUME SynthInv
  PROVE  /\ Nested(frames) /\ frames \in Seq(Frame) /\ Len(frames) \in 1 .. Len(frames)
         /\ Len(frames) \in Nat \ {0} /\ made \in Nat /\ MaxScopes \in Nat
         /\ threw \in BOOLEAN
         /\ Top.node = "program" <=> Len(frames) = 1
         /\ Top.node \in {"if", "single"} => Top.own = 0
         /\ Top.node \in {"for", "compound"} => Top.own # 0
<1>1. Nested(frames) /\ made \in 0 .. MaxScopes /\ MaxScopes \in Nat /\ threw \in BOOLEAN
  BY MIRSynthesizerAssumption DEF SynthInv, Standing, Typing
<1>2. frames \in Seq(Frame) /\ Len(frames) \in 1 .. Len(frames) /\ Len(frames) \in Nat \ {0}
  BY <1>1, NestedLen
<1>3. /\ Top.node = "program" <=> Len(frames) = 1
      /\ Top.node \in {"program", "if", "single"} => Top.own = 0
      /\ Top.node \in {"for", "compound"} => Top.own # 0
  BY <1>1, <1>2 DEF Nested, Top
<1>4. made \in Nat
  BY <1>1
<1> QED
  BY <1>1, <1>2, <1>3, <1>4

\* A step that keeps what is tied and noted.
LEMMA InvKept ==
  ASSUME SynthInv, UNCHANGED << found, threw, noticed, reported, told, tied >>, made' \in 0 .. MaxScopes,
         Standing(frames', scopes', made', threw'),
         outcome' \in {outcome, "ice", "uncaught"}
  PROVE  SynthInv'
  BY DEF SynthInv, Typing, TiedToBody, Reporting, Running, ErrorsTold, errors

LEMMA LeafStep ==
  ASSUME SynthInv, NEW r \in {"stmt", "decl"}, VisitLeaf(r)
  PROVE  SynthInv'
<1>1. /\ MayHaveItem(frames[Len(frames)]) /\ Deliver(frames, r)
      /\ UNCHANGED << scopes, made, found, threw, noticed, reported, told, tied >>
  BY DEF VisitLeaf, Top, errors
<1>2. Standing(frames', scopes, made, threw) /\ outcome' \in {outcome, "ice"}
  BY <1>1, StandingDelivers DEF SynthInv
<1>3. made' \in 0 .. MaxScopes
  BY <1>1 DEF SynthInv, Typing
<1> QED
  BY <1>1, <1>2, <1>3, InvKept

LEMMA EnterStep ==
  ASSUME SynthInv,
         (\E node \in Statements : EnterStatement(node)) \/ EnterCompound \/ EnterFunction
  PROVE  SynthInv'
<1>1. /\ UNCHANGED << found, threw, noticed, reported, told, tied, outcome >> /\ MayHaveItem(frames[Len(frames)])
      /\ made < MaxScopes
  BY DEF EnterStatement, EnterCompound, EnterFunction, Room, Top, errors
<1>2. made \in Nat /\ MaxScopes \in Nat /\ made + 1 \in ScopeIds
  BY <1>1, TopOf DEF ScopeIds
<1>3. CASE \E node \in {"if", "single", "function"} :
             frames' = Append(frames, Visit(node, 0)) /\ UNCHANGED << scopes, made >>
  <2>1. Standing(frames', scopes, made, threw)
    BY <1>1, <1>2, <1>3, StandingEnters DEF SynthInv
  <2> QED
    BY <1>1, <1>2, <1>3, <2>1, InvKept
<1>4. CASE \E node \in {"for", "compound"} :
             frames' = Append(frames, Visit(node, made + 1)) /\ PushScope
  <2>1. Standing(frames', scopes', made', threw)
    BY <1>1, <1>2, <1>4, StandingPushes DEF SynthInv, PushScope
  <2>2. made' \in 0 .. MaxScopes
    BY <1>1, <1>2, <1>4 DEF PushScope
  <2> QED
    BY <1>1, <2>1, <2>2, InvKept
<1> QED
  BY <1>3, <1>4 DEF EnterStatement, EnterCompound, EnterFunction, Statements

LEMMA BodyStep ==
  ASSUME SynthInv, NEW clash \in BOOLEAN, EnterBody(clash)
  PROVE  SynthInv'
<1>1. /\ UNCHANGED << found, threw, noticed, reported, told, tied >> /\ made < MaxScopes /\ PushScope
      /\ frames' = [frames EXCEPT ![Len(frames)].own = made + 1]
      /\ frames[Len(frames)].node = "function" /\ frames[Len(frames)].own = 0
      /\ outcome' \in {outcome, "uncaught"}
  BY DEF EnterBody, InHeader, Top, errors
<1>2. made \in Nat /\ MaxScopes \in Nat /\ made + 1 \in ScopeIds
  BY <1>1, TopOf DEF ScopeIds
<1>3. Standing(frames', scopes', made', threw)
  BY <1>1, <1>2, StandingBody DEF SynthInv, PushScope
<1>4. made' \in 0 .. MaxScopes
  BY <1>1, <1>2 DEF PushScope
<1> QED
  BY <1>1, <1>3, <1>4, InvKept

LEMMA ExitStep ==
  ASSUME SynthInv, ExitStatement \/ ExitCompound \/ ExitFunction
  PROVE  SynthInv'
<1> DEFINE l == Len(frames)
<1>1. /\ frames \in Seq(Frame) /\ l \in Nat \ {0} /\ l \in 1 .. l /\ threw \in BOOLEAN
      /\ made \in 0 .. MaxScopes
      /\ Standing(frames, scopes, made, threw) /\ Nested(frames)
  BY TopOf DEF SynthInv, Typing
<1>2. Top.node # "program" /\ l # 1
  BY TopOf DEF ExitStatement, ExitCompound, ExitFunction, Statements
<1>3. l - 1 \in 1 .. l - 1 /\ l \in 2 .. l /\ Front(frames) = SubSeq(frames, 1, l - 1)
  <2>1. l - 1 \in 1 .. l - 1 /\ l \in 2 .. l
    <3> HIDE DEF l
    <3> QED
      BY <1>1, <1>2
  <2> QED
    BY <2>1 DEF Front
<1>4. CASE ExitStatement /\ Top.node # "for"
  <2>1. /\ UNCHANGED << scopes, made, found, threw, noticed, reported, told, tied >>
        /\ Deliver(Front(frames), "stmt") /\ frames[l].own = 0
    BY <1>4, TopOf DEF ExitStatement, Statements, Top, errors
  <2>2. /\ Standing(Front(frames), scopes, made, threw)
        /\ MayHaveItem(Front(frames)[Len(Front(frames))])
    BY <1>1, <1>3, <2>1, StandingOuter
  <2>3. Standing(frames', scopes, made, threw) /\ outcome' \in {outcome, "ice"}
    BY <2>1, <2>2, StandingDelivers
  <2> QED
    BY <1>1, <2>1, <2>3, InvKept
<1>5. ASSUME frames[l].own # 0, PopScope, NEW r, Deliver(Front(frames), r),
             made' = made
      PROVE  /\ Standing(frames', scopes', made', threw) /\ outcome' \in {outcome, "ice"}
             /\ scopes[Len(scopes)] \in ScopeIds
             /\ ~threw => scopes[Len(scopes)] = frames[l].own
  <2>1. /\ Standing(Front(frames), Front(scopes), made, threw)
        /\ MayHaveItem(Front(frames)[Len(Front(frames))])
        /\ scopes # << >> /\ scopes[Len(scopes)] \in ScopeIds
        /\ ~threw => scopes[Len(scopes)] = frames[l].own
    BY <1>1, <1>3, <1>5, StandingPops
  <2>2. scopes' = Front(scopes)
    BY <1>5, <2>1 DEF PopScope
  <2>3. Standing(frames', Front(scopes), made, threw) /\ outcome' \in {outcome, "ice"}
    BY <1>5, <2>1, StandingDelivers
  <2> QED
    BY <1>5, <2>1, <2>2, <2>3
<1>6. CASE ExitCompound \/ (ExitStatement /\ Top.node = "for")
  <2>1. /\ UNCHANGED << made, found, threw, noticed, reported, told, tied >> /\ PopScope
        /\ Deliver(Front(frames), "stmt") /\ frames[l].own # 0
    BY <1>6, TopOf DEF ExitStatement, ExitCompound, Top, errors
  <2>2. Standing(frames', scopes', made', threw) /\ outcome' \in {outcome, "ice"}
    BY <1>5, <2>1
  <2> QED
    BY <1>1, <2>1, <2>2, InvKept
<1>7. CASE ExitFunction
  <2>1. /\ UNCHANGED << made, found, threw, noticed, reported, told >> /\ PopScope /\ Running
        /\ Deliver(Front(frames), "func") /\ frames[l].own # 0
        /\ tied' = tied \cup {[body |-> frames[l].own, scope |-> scopes[Len(scopes)]]}
    BY <1>7 DEF ExitFunction, InHeader, Top, errors
  <2>2. /\ Standing(frames', scopes', made', threw) /\ outcome' \in {outcome, "ice"}
        /\ scopes[Len(scopes)] \in ScopeIds
        /\ ~threw => scopes[Len(scopes)] = frames[l].own
    BY <1>5, <2>1
  <2>3. frames[l].own \in ScopeIds
    BY <1>1, <2>1, FrameOf
  <2>4. tied' \subseteq [body : ScopeIds, scope : ScopeIds \cup {0}]
    BY <2>1, <2>2, <2>3 DEF SynthInv, Typing
  <2>5. TiedToBody'
    BY <2>1, <2>2 DEF SynthInv, TiedToBody
  <2>6. Typing'
    BY <2>1, <2>2, <2>4 DEF SynthInv, Typing
  <2> QED
    BY <2>1, <2>2, <2>5, <2>6 DEF SynthInv, Reporting, Running, ErrorsTold
<1> QED
  BY <1>4, <1>6, <1>7

\* What is noted of an error that is thrown, by one visit or by the visitor
\* it checks a constant with.
Noted ==
  /\ noticed' \in 0 .. MaxErrors /\ noticed' # 0
  /\ reported' \in Seq(1 .. MaxErrors)
  /\ reported' = All(noticed')

LEMMA AllOf ==
  ASSUME NEW n \in 0 .. MaxErrors
  PROVE  /\ All(n) \in Seq(1 .. MaxErrors) /\ Len(All(n)) = n
         /\ All(n) = << >> <=> n = 0
<1>1. n \in Nat /\ \A k \in 1 .. n : k \in 1 .. MaxErrors
  BY MIRSynthesizerAssumption
<1>2. All(n) \in Seq(1 .. MaxErrors) /\ Len(All(n)) = n
  BY <1>1 DEF All
<1> QED
  BY <1>1, <1>2

LEMMA AllAppend ==
  ASSUME NEW n \in Nat
  PROVE  Append(All(n), n + 1) = All(n + 1)
<1>1. All(n) \in Seq(Nat) /\ Len(All(n)) = n
  BY DEF All
<1>2. /\ Append(All(n), n + 1) \in Seq(Nat) /\ Len(Append(All(n), n + 1)) = n + 1
      /\ \A k \in 1 .. n + 1 : Append(All(n), n + 1)[k] = IF k = n + 1 THEN n + 1 ELSE All(n)[k]
  BY <1>1
<1>3. \A k \in 1 .. n + 1 : Append(All(n), n + 1)[k] = k
  BY <1>2 DEF All
<1> QED
  BY <1>2, <1>3 DEF All

LEMMA AllConcat ==
  ASSUME NEW n \in Nat, NEW m \in Nat
  PROVE  All(n) \o [k \in 1 .. m |-> n + k] = All(n + m)
<1> DEFINE t == [k \in 1 .. m |-> n + k]
<1>1. All(n) \in Seq(Nat) /\ Len(All(n)) = n /\ t \in Seq(Nat) /\ Len(t) = m
  BY DEF All
<1>2. /\ All(n) \o t \in Seq(Nat) /\ Len(All(n) \o t) = n + m
      /\ \A k \in 1 .. n + m : (All(n) \o t)[k] = IF k <= n THEN All(n)[k] ELSE t[k - n]
  <2> HIDE DEF t
  <2> QED
    BY <1>1, ConcatProperties
<1>3. \A k \in 1 .. n + m : (All(n) \o t)[k] = k
  BY <1>2 DEF All
<1> HIDE DEF t
<1>4. All(n) \o t = All(n + m)
  BY <1>2, <1>3 DEF All
<1> QED
  BY <1>4 DEF t

LEMMA ErrorNoted ==
  ASSUME SynthInv, Running,
         AddError \/ \E n \in 1 .. 2 : Drain(n)
  PROVE  Noted
<1>1. noticed \in Nat /\ MaxErrors \in Nat /\ reported = All(noticed)
  BY MIRSynthesizerAssumption DEF SynthInv, Typing, Reporting
<1>2. CASE AddError
  <2>1. noticed' = noticed + 1 /\ noticed < MaxErrors
        /\ reported' = Append(All(noticed), noticed + 1)
    BY <1>1, <1>2 DEF AddError
  <2>2. noticed' \in 0 .. MaxErrors /\ noticed' # 0
    BY <1>1, <2>1
  <2>3. reported' = All(noticed')
    BY <1>1, <2>1, AllAppend
  <2> QED
    BY <2>2, <2>3, AllOf DEF Noted
<1>3. ASSUME NEW n \in 1 .. 2, Drain(n) PROVE Noted
  <2>1. noticed' = noticed + n /\ noticed + n <= MaxErrors /\ n \in Nat /\ n # 0
        /\ reported' = All(noticed) \o [k \in 1 .. n |-> noticed + k]
    BY <1>1, <1>3 DEF Drain
  <2>2. noticed' \in 0 .. MaxErrors /\ noticed' # 0
    BY <1>1, <2>1
  <2>3. reported' = All(noticed')
    BY <1>1, <2>1, AllConcat
  <2> QED
    BY <2>2, <2>3, AllOf DEF Noted
<1> QED
  BY <1>2, <1>3

\* Whoever catches the error, and when nobody does.
LEMMA UnwindStep ==
  ASSUME SynthInv, Running, Noted, Unwind, UNCHANGED << made, tied >>
  PROVE  SynthInv'
<1> DEFINE l == Len(frames)
<1>1. /\ frames \in Seq(Frame) /\ l \in Nat \ {0} /\ DOMAIN frames = 1 .. l
      /\ made \in 0 .. MaxScopes /\ Nested(frames)
      /\ Standing(frames, scopes, made, TRUE)
  BY TopOf, NestedLen DEF SynthInv, Typing, Standing
<1>2. Unwind /\ threw' = TRUE /\ UNCHANGED << made, tied >> /\ Running
  BY DEF Unwind
<1>3. CASE Catching = {}
  <2>1. /\ outcome' = "abandoned" /\ UNCHANGED << frames, scopes, found >>
        /\ told' = reported'
    BY <1>2, <1>3 DEF Unwind
  <2>2. Reporting'
    BY <1>2, <2>1 DEF Reporting, ErrorsTold, Running, Noted, All
  <2>3. Typing'
    BY <1>1, <1>2, <2>1 DEF SynthInv, Typing, Noted
  <2> QED
    BY <1>1, <1>2, <2>1, <2>2, <2>3 DEF SynthInv, TiedToBody
<1>4. CASE Catching # {}
  <2> DEFINE m == CHOOSE k \in Catching : \A j \in Catching : j <= k
  <2>1. \E k \in Catching : \A j \in Catching : j <= k
    <3> DEFINE T == {l - k : k \in Catching}
    <3>1. Catching \subseteq 1 .. l
      BY <1>1 DEF Catching
    <3>2. T \subseteq Nat /\ T # {}
      <4>1. \A k \in Catching : l - k \in Nat
        <5> HIDE DEF l
        <5> QED
          BY <1>1, <3>1
      <4>2. PICK k \in Catching : TRUE
        BY <1>4
      <4> QED
        BY <4>1, <4>2
    <3>3. PICK x \in T : \A y \in T : x <= y
      <4> HIDE DEF T
      <4> QED
        BY <3>2, Least
    <3>4. PICK k \in Catching : x = l - k
      BY <3>3
    <3>5. ASSUME NEW j \in Catching PROVE j <= k
      <4>1. l - k <= l - j
        BY <3>3, <3>4
      <4> QED
        BY <1>1, <3>1, <4>1
    <3> QED
      BY <3>5
  <2>2. m \in Catching
    BY <2>1
  <2>3. /\ found' = TRUE /\ UNCHANGED told
        /\ IF frames[m].node = "compound" THEN PopScope ELSE UNCHANGED scopes
        /\ Deliver(SubSeq(frames, 1, m - 1), "none")
    BY <1>2, <1>4 DEF Unwind
  <2> HIDE DEF m
  <2>4. m \in 1 .. l /\ frames[m].node \in {"function", "compound"}
    BY <1>1, <2>2 DEF Catching
  <2>5. m # 1 /\ (frames[m].node = "compound" => frames[m].own # 0)
    BY <1>1, <2>4 DEF Nested
  <2>6. m \in 2 .. l /\ m - 1 \in 1 .. l - 1
    BY <1>1, <2>4, <2>5
  <2>7. Standing(frames', scopes', made, TRUE) /\ outcome' \in {outcome, "ice"}
    <3> DEFINE gs == SubSeq(frames, 1, m - 1)
    <3>1. CASE frames[m].node = "compound"
      <4>1. /\ Standing(gs, Front(scopes), made, TRUE)
            /\ MayHaveItem(gs[Len(gs)]) /\ scopes # << >>
        BY <1>1, <2>5, <2>6, <3>1, StandingPops
      <4>2. scopes' = Front(scopes)
        BY <2>3, <3>1, <4>1 DEF PopScope
      <4> HIDE DEF gs
      <4> QED
        BY <2>3, <4>1, <4>2, StandingDelivers DEF gs
    <3>2. CASE frames[m].node # "compound"
      <4>1. Standing(gs, scopes, made, TRUE) /\ MayHaveItem(gs[Len(gs)])
        BY <1>1, <2>6, StandingOuter
      <4>2. scopes' = scopes
        BY <2>3, <3>2
      <4> HIDE DEF gs
      <4> QED
        BY <2>3, <4>1, <4>2, StandingDelivers DEF gs
    <3> QED
      BY <3>1, <3>2
  <2>8. Reporting'
    BY <1>2, <2>7 DEF Reporting, ErrorsTold, Running, Noted
  <2>9. Typing'
    BY <1>1, <1>2, <2>3, <2>7 DEF SynthInv, Typing, Noted, Running
  <2> QED
    BY <1>2, <2>7, <2>8, <2>9 DEF SynthInv, TiedToBody
<1> QED
  BY <1>3, <1>4

\* The steps of one visit that find an error.
LEMMA ErrorStep ==
  ASSUME SynthInv, Throw \/ Report \/ \E n \in 1 .. 2 : CheckConstant(n)
  PROVE  SynthInv'
<1>1. Running
  BY DEF Throw, Report, CheckConstant
<1>2. Noted
  BY <1>1, ErrorNoted DEF Throw, Report, CheckConstant
<1>3. CASE Report
  <2>1. UNCHANGED << frames, scopes, made, found, threw, told, tied, outcome >>
    BY <1>3 DEF Report
  <2>2. Typing' /\ Standing(frames', scopes', made', threw') /\ TiedToBody'
    BY <1>2, <2>1 DEF SynthInv, Typing, TiedToBody, Noted
  <2>3. Reporting'
    BY <1>1, <1>2, <2>1 DEF SynthInv, Reporting, ErrorsTold, Running, Noted
  <2> QED
    BY <2>2, <2>3 DEF SynthInv
<1>4. CASE Throw \/ \E n \in 1 .. 2 : CheckConstant(n)
  <2>1. Unwind /\ UNCHANGED << made, tied >>
    BY <1>4 DEF Throw, CheckConstant
  <2> QED
    BY <1>1, <1>2, <2>1, UnwindStep
<1> QED
  BY <1>3, <1>4

\* The errors that nothing in the synthesizer catches.
LEMMA EscapeStep ==
  ASSUME SynthInv, EvalEscape \/ Escape
  PROVE  SynthInv'
<1>1. /\ Running /\ noticed < MaxErrors /\ noticed' = noticed + 1
      /\ threw' = TRUE /\ outcome' \in {"raised", "abandoned"}
      /\ UNCHANGED << frames, scopes, made, found, reported, tied >>
  BY DEF EvalEscape, Escape
<1>2. /\ noticed \in Nat /\ MaxErrors \in Nat /\ reported = All(noticed)
  BY <1>1, MIRSynthesizerAssumption DEF SynthInv, Typing, Reporting
<1>3. noticed' \in 0 .. MaxErrors /\ noticed' # 0 /\ noticed + 1 \in 1 .. MaxErrors
  BY <1>1, <1>2
<1>4. told' \in Seq(1 .. MaxErrors) /\ (outcome' = "abandoned" => told' = All(noticed'))
  <2>1. CASE EvalEscape
    BY <1>3, <2>1 DEF EvalEscape
  <2>2. CASE Escape
    <3>1. told' = All(noticed')
      BY <1>1, <1>2, <2>2, AllAppend DEF Escape
    <3> QED
      BY <1>3, <3>1, AllOf
  <2> QED
    BY <2>1, <2>2
<1>5. Reporting'
  BY <1>1, <1>3, <1>4 DEF Reporting, ErrorsTold, Running, All
<1>6. Typing'
  BY <1>1, <1>3, <1>4 DEF SynthInv, Typing
<1>7. Standing(frames', scopes', made', threw') /\ TiedToBody'
  BY <1>1 DEF SynthInv, Standing, TiedToBody
<1> QED
  BY <1>5, <1>6, <1>7 DEF SynthInv

\* The gate of Backend::run.
LEMMA FinishStep ==
  ASSUME SynthInv, Finish
  PROVE  SynthInv'
<1>1. /\ Running /\ UNCHANGED << frames, scopes, made, found, threw, noticed, reported, tied >>
      /\ told' = IF reported # << >> THEN reported ELSE told
      /\ outcome' = IF reported # << >> THEN "abandoned" ELSE "done"
  BY DEF Finish, HasDiagnostics, HasErrors
<1>2. reported = All(noticed) /\ noticed \in 0 .. MaxErrors /\ (threw => noticed # 0)
  BY <1>1 DEF SynthInv, Typing, Reporting
<1>3. reported = << >> <=> noticed = 0
  BY <1>2, AllOf
<1>4. Reporting'
  BY <1>1, <1>2, <1>3 DEF Reporting, ErrorsTold, Running, All
<1>5. Typing' /\ Standing(frames', scopes', made', threw') /\ TiedToBody'
  BY <1>1 DEF SynthInv, Typing, Standing, TiedToBody
<1> QED
  BY <1>4, <1>5 DEF SynthInv

LEMMA SynthStep == SynthInv /\ [Next]_vars => SynthInv'
<1> SUFFICES ASSUME SynthInv, [Next]_vars PROVE SynthInv'
  OBVIOUS
<1>1. CASE UNCHANGED vars
  BY <1>1 DEF vars, errors, SynthInv, Typing, TiedToBody, Reporting, Running, ErrorsTold
<1> QED
  BY <1>1, LeafStep, EnterStep, BodyStep, ExitStep, ErrorStep, EscapeStep, FinishStep DEF Next

LEMMA SynthInvariant == Spec => []SynthInv
<1>1. Init => SynthInv
  <2> SUFFICES ASSUME Init PROVE SynthInv
    OBVIOUS
  <2> DEFINE v == Visit("program", 0)
  <2>1. /\ frames = << v >> /\ scopes = << >> /\ made = 0 /\ tied = {}
        /\ found = FALSE /\ threw = FALSE /\ outcome = "running"
        /\ noticed = 0 /\ reported = << >> /\ told = << >>
    BY DEF Init
  <2>2. v \in Frame /\ v.node = "program" /\ v.own = 0
    BY DEF Visit, Frame, Lists
  <2> HIDE DEF v
  <2>3. frames \in Seq(Frame) /\ Len(frames) = 1 /\ frames[1] = v /\ frames # << >>
    BY <2>1, <2>2
  <2>4. Nested(frames)
    BY <2>2, <2>3 DEF Nested
  <2>5. OwnedTo(frames)[1] = << >>
    <3>1. OwnedTo(frames)[0] = << >> /\ OwnedTo(frames)[1] = AddOwn(OwnedTo(frames)[1 - 1], frames[1])
      BY <2>3, OwnedStep
    <3> QED
      BY <2>2, <2>3, <3>1 DEF AddOwn
  <2>6. Around(scopes, << >>)
    BY <2>1 DEF Around
  <2>7. Standing(frames, scopes, made, threw)
    BY <2>1, <2>2, <2>3, <2>4, <2>5, <2>6 DEF Standing
  <2>8. Typing
    <3>1. made \in 0 .. MaxScopes
      BY <2>1, MIRSynthesizerAssumption
    <3>2. noticed \in 0 .. MaxErrors
      BY <2>1, MIRSynthesizerAssumption
    <3>3. reported \in Seq(1 .. MaxErrors) /\ told \in Seq(1 .. MaxErrors)
      BY <2>1, EmptySeq
    <3> QED
      BY <2>1, <3>1, <3>2, <3>3 DEF Typing
  <2>9. Reporting
    BY <2>1 DEF Reporting, ErrorsTold, Running, All
  <2> QED
    BY <2>1, <2>7, <2>8, <2>9 DEF SynthInv, TiedToBody
<1> QED
  BY <1>1, SynthStep, PTL DEF Spec

\* Every construct is lowered inside the scope it pushed, for programs of any
\* depth: before an error scopes are those of the visits, and afterwards none
\* that is still visited has been popped; and a function finished before any
\* error is tied to the scope its parameters are in.
THEOREM ScopesFollow == Spec => []ScopesTied
<1>1. SynthInv => ScopesTied
  <2> SUFFICES ASSUME SynthInv PROVE ScopesTied
    OBVIOUS
  <2>1. /\ frames \in Seq(Frame) /\ Nested(frames) /\ Len(frames) \in Nat \ {0}
        /\ Around(scopes, Owned) /\ TiedToBody /\ (~threw => scopes = Owned)
    BY TopOf DEF SynthInv, Standing, Owned
  <2>2. TypeOK
    <3>1. frames[1].node = "program"
      BY <2>1 DEF Nested
    <3>2. scopes \in Seq(ScopeIds)
      BY <2>1 DEF Around
    <3> QED
      BY <2>1, <3>1, <3>2 DEF TypeOK, SynthInv, Typing, Frame, Nested
  <2>3. DOMAIN Owned = 1 .. Len(Owned)
    <3>1. Owned \in Seq(ScopeIds)
      BY <2>1, OwnedType DEF Owned
    <3> QED
      BY <3>1
  <2>4. InsideOwnScopes
    BY <2>1, <2>3 DEF InsideOwnScopes, Around
  <2> QED
    BY <2>1, <2>2, <2>4 DEF ScopesTied
<1> QED
  BY <1>1, SynthInvariant, PTL

\* Wherever an error is found, whether it is thrown or not and whichever
\* construct swallows it, the unit is given up, and not before every error
\* has been printed.
THEOREM Errors == Spec => []ErrorsTold
<1>1. SynthInv => ErrorsTold
  BY DEF SynthInv, Reporting
<1> QED
  BY <1>1, SynthInvariant, PTL
=============================================================================
