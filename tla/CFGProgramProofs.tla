-------------------------- MODULE CFGProgramProofs --------------------------
(***************************************************************************)
(* Proofs about CFGBuilder and CFGProgram, for any number of blocks,       *)
(* labels, functions and nested statements.                                *)
(*                                                                         *)
(* First, for any sequence of visits: what terminators, successors and     *)
(* incoming lists say of a block agrees, and each target that is missing   *)
(* is a debt: something in the stack of statements, or a goto that waits   *)
(* for its label, will set it (Held).  Which is why a setter never meets   *)
(* a terminator of another kind, and why nothing is missing when the stack *)
(* is empty.                                                               *)
(*                                                                         *)
(* Then, for the programs the earlier passes accept: no assertion fails,   *)
(* and each block that has no terminator yet is the current one or one a   *)
(* frame will come back to (Kept), so that a void function, which ends     *)
(* with a return of its own, is complete.                                  *)
(***************************************************************************)
EXTENDS CFGProgram, CFGBuilderProofs, FiniteSetTheorems

(***************************************************************************)
(* How often a block is in a list                                          *)
(***************************************************************************)

LEMMA TimesType ==
  ASSUME NEW S, NEW s \in Seq(S), NEW x
  PROVE  /\ IsFiniteSet({i \in DOMAIN s : s[i] = x})
         /\ Times(x, s) \in Nat
<1>1. Len(s) \in Nat /\ DOMAIN s = 1 .. Len(s)
  OBVIOUS
<1>2. IsFiniteSet(1 .. Len(s))
  BY <1>1, FS_Interval
<1>3. IsFiniteSet({i \in DOMAIN s : s[i] = x})
  BY <1>1, <1>2, FS_Subset
<1> QED
  BY <1>3, FS_CardinalityType DEF Times

LEMMA TimesEmpty ==
  ASSUME NEW x
  PROVE  Times(x, << >>) = 0
<1>1. {i \in DOMAIN << >> : << >>[i] = x} = {}
  OBVIOUS
<1> QED
  BY <1>1, FS_EmptySet DEF Times

LEMMA TimesAppend ==
  ASSUME NEW S, NEW s \in Seq(S), NEW e \in S, NEW x
  PROVE  Times(x, Append(s, e)) = Times(x, s) + (IF x = e THEN 1 ELSE 0)
<1> DEFINE P == {i \in DOMAIN s : s[i] = x}
           Q == {i \in DOMAIN Append(s, e) : Append(s, e)[i] = x}
<1>1. /\ Len(s) \in Nat /\ DOMAIN s = 1 .. Len(s)
      /\ DOMAIN Append(s, e) = 1 .. Len(s) + 1
      /\ \A i \in 1 .. Len(s) : Append(s, e)[i] = s[i]
      /\ Append(s, e)[Len(s) + 1] = e
  OBVIOUS
<1>2. IsFiniteSet(P) /\ Cardinality(P) \in Nat
  BY TimesType DEF Times
<1>3. Q = IF x = e THEN P \cup {Len(s) + 1} ELSE P
  BY <1>1
<1>4. Len(s) + 1 \notin P
  BY <1>1
<1>5. Times(x, s) = Cardinality(P) /\ Times(x, Append(s, e)) = Cardinality(Q)
  BY DEF Times
<1> HIDE DEF P, Q
<1>6. Cardinality(P \cup {Len(s) + 1}) = Cardinality(P) + 1
  BY <1>2, <1>4, FS_AddElement
<1>7. CASE x = e
  BY <1>3, <1>5, <1>6, <1>7
<1>8. CASE x # e
  BY <1>2, <1>3, <1>5, <1>8
<1> QED
  BY <1>7, <1>8

\* No block twice.
Single(s) == \A i, j \in DOMAIN s : s[i] = s[j] => i = j

LEMMA TimesConcat ==
  ASSUME NEW S, NEW s \in Seq(S), NEW p \in Seq(S), Single(p), NEW x
  PROVE  Times(x, s \o p) = Times(x, s) + (IF x \in Elems(p) THEN 1 ELSE 0)
<1> DEFINE P == {i \in DOMAIN s : s[i] = x}
           Q == {i \in DOMAIN (s \o p) : (s \o p)[i] = x}
<1>1. /\ Len(s) \in Nat /\ Len(p) \in Nat
      /\ DOMAIN s = 1 .. Len(s) /\ DOMAIN p = 1 .. Len(p)
      /\ DOMAIN (s \o p) = 1 .. Len(s) + Len(p)
  OBVIOUS
<1>2. \A i \in 1 .. Len(s) + Len(p) :
        (s \o p)[i] = IF i <= Len(s) THEN s[i] ELSE p[i - Len(s)]
  BY ConcatProperties
<1>3. IsFiniteSet(P) /\ Cardinality(P) \in Nat
  BY TimesType DEF Times
<1>4. Times(x, s) = Cardinality(P) /\ Times(x, s \o p) = Cardinality(Q)
  BY DEF Times
<1>5. CASE x \notin Elems(p)
  <2>1. \A j \in 1 .. Len(p) : p[j] # x
    BY <1>1, <1>5 DEF Elems
  <2>2. ASSUME NEW i \in 1 .. Len(s) + Len(p) PROVE i \in Q <=> i \in P
    <3>1. CASE i <= Len(s)
      BY <1>1, <1>2, <3>1
    <3>2. CASE ~(i <= Len(s))
      <4>1. i - Len(s) \in 1 .. Len(p)
        BY <1>1, <3>2
      <4> QED
        BY <1>1, <1>2, <2>1, <3>2, <4>1
    <3> QED
      BY <3>1, <3>2
  <2>3. Q = P
    BY <1>1, <2>2
  <2> HIDE DEF P, Q
  <2> QED
    BY <1>3, <1>4, <1>5, <2>3
<1>6. CASE x \in Elems(p)
  <2>1. PICK j \in 1 .. Len(p) : p[j] = x
    BY <1>1, <1>6 DEF Elems
  <2>2. \A k \in 1 .. Len(p) : p[k] = x => k = j
    BY <1>1, <2>1 DEF Single
  <2>3. ASSUME NEW i \in 1 .. Len(s) + Len(p) PROVE i \in Q <=> i \in P \cup {Len(s) + j}
    <3>1. CASE i <= Len(s)
      BY <1>1, <1>2, <3>1
    <3>2. CASE ~(i <= Len(s))
      <4>1. i - Len(s) \in 1 .. Len(p) /\ i \notin P
        BY <1>1, <3>2
      <4>2. i \in Q <=> p[i - Len(s)] = x
        BY <1>1, <1>2, <3>2
      <4>3. i \in Q <=> i - Len(s) = j
        BY <2>1, <2>2, <4>1, <4>2
      <4> QED
        BY <1>1, <4>1, <4>3
    <3> QED
      BY <3>1, <3>2
  <2>4. Q = P \cup {Len(s) + j} /\ Len(s) + j \notin P
    BY <1>1, <2>3
  <2> HIDE DEF P, Q
  <2>5. Cardinality(P \cup {Len(s) + j}) = Cardinality(P) + 1
    BY <1>3, <2>4, FS_AddElement
  <2> QED
    BY <1>4, <1>6, <2>4, <2>5
<1> QED
  BY <1>5, <1>6

(***************************************************************************)
(* Graphs in which both descriptions of the successors agree, and the      *)
(* primitives again.  What matters to a handler is how many targets the    *)
(* terminator of each block still lacks.                                   *)
(***************************************************************************)

Counted(h) == \A b, t \in Blk : Times(b, h.incoming[t]) = Times(t, h.succs[b])

\* How many targets a terminator has, by its kind; a switch has what it was given.
Shaped(h, b) ==
  /\ h.kind[b] \in {"none", "return"} => Len(h.tgt[b]) = 0
  /\ h.kind[b] = "goto" => Len(h.tgt[b]) = 1
  /\ h.kind[b] = "if" => Len(h.tgt[b]) = 2
  /\ h.kind[b] = "switch" => Len(h.tgt[b]) = Len(h.succs[b])

Balanced(h) ==
  /\ GraphOK(h) /\ Counted(h)
  /\ \A b \in Blk : Mirrored(h, b) /\ Shaped(h, b)
  /\ \A b \in Blk : b \notin Blocks(h) => ~Terminated(h, b)

Lack(h, b) == Len(h.tgt[b]) - Len(h.succs[b])
Lacks(h) == [b \in Blk |-> Lack(h, b)]

\* No assertion has failed.
Fine(h) == h.ice = ""

\* r follows h: no assertion has failed and no terminator has changed its kind.
Follows(h, r) ==
  /\ Balanced(r) /\ r.ice = h.ice /\ Extends(h, r)
  /\ \A b \in Blk : Terminated(h, b) => r.kind[b] = h.kind[b]

LEMMA FollowsRefl == ASSUME NEW h, Balanced(h) PROVE Follows(h, h)
  BY BlocksType DEF Follows, Balanced, GraphOK, Extends

LEMMA FollowsTrans ==
  ASSUME NEW f, NEW h, NEW r, Balanced(f), Follows(f, h), Follows(h, r)
  PROVE  Follows(f, r)
  BY BlocksType DEF Follows, Balanced, GraphOK, Extends

LEMMA GraphFields ==
  ASSUME NEW h, GraphOK(h), NEW b \in Blk
  PROVE  /\ h.kind[b] \in Kinds
         /\ h.tgt[b] \in Seq(Blk \cup {Null}) /\ Len(h.tgt[b]) \in Nat
         /\ h.succs[b] \in Seq(Blk) /\ Len(h.succs[b]) \in Nat
         /\ h.incoming[b] \in Seq(Blk)
         /\ h.kind \in [Blk -> Kinds]
         /\ h.tgt \in [Blk -> Seq(Blk \cup {Null})]
         /\ h.succs \in [Blk -> Seq(Blk)] /\ h.incoming \in [Blk -> Seq(Blk)]
<1>1. h \in Graphs
  BY DEF GraphOK
<1>2. /\ h.kind \in [Blk -> Kinds] /\ h.tgt \in [Blk -> Seq(Blk \cup {Null})]
      /\ h.succs \in [Blk -> Seq(Blk)] /\ h.incoming \in [Blk -> Seq(Blk)]
  BY <1>1 DEF Graphs
<1>3. /\ h.tgt[b] \in Seq(Blk \cup {Null}) /\ h.succs[b] \in Seq(Blk)
      /\ h.incoming[b] \in Seq(Blk) /\ h.kind[b] \in Kinds
  BY <1>2
<1>4. Len(h.tgt[b]) \in Nat /\ Len(h.succs[b]) \in Nat
  BY <1>3
<1> QED
  BY <1>2, <1>3, <1>4

LEMMA LackType ==
  ASSUME NEW h, Balanced(h), NEW b \in Blk
  PROVE  /\ Lack(h, b) \in Nat /\ Lacks(h)[b] = Lack(h, b)
         /\ Len(h.tgt[b]) \in Nat /\ Len(h.succs[b]) \in Nat
         /\ ~Terminated(h, b) => Lack(h, b) = 0 /\ Len(h.tgt[b]) = 0 /\ Len(h.succs[b]) = 0
         /\ Lack(h, b) = 0 => Len(h.succs[b]) = Len(h.tgt[b])
         /\ h.kind[b] \notin {"if", "goto"} => Lack(h, b) = 0
<1>1. /\ Len(h.tgt[b]) \in Nat /\ Len(h.succs[b]) \in Nat /\ h.kind[b] \in Kinds
      /\ Len(h.succs[b]) <= Len(h.tgt[b]) /\ Shaped(h, b)
  BY GraphFields DEF Balanced, Mirrored
<1>2. Lack(h, b) \in Nat /\ Lacks(h)[b] = Lack(h, b)
  BY <1>1 DEF Lack, Lacks
<1>3. h.kind[b] \in {"none", "return"} => Len(h.tgt[b]) = 0 /\ Len(h.succs[b]) = 0
  BY <1>1 DEF Shaped
<1>4. ~Terminated(h, b) => Lack(h, b) = 0 /\ Len(h.tgt[b]) = 0 /\ Len(h.succs[b]) = 0
  BY <1>1, <1>3 DEF Terminated, Lack
<1>5. h.kind[b] \notin {"if", "goto"} => Lack(h, b) = 0
  BY <1>1, <1>3 DEF Kinds, Shaped, Lack
<1>6. Lack(h, b) = 0 => Len(h.succs[b]) = Len(h.tgt[b])
  BY <1>1 DEF Lack
<1> QED
  BY <1>1, <1>2, <1>4, <1>5, <1>6

LEMMA EmptyGraphBalanced ==
  /\ Balanced(EmptyGraph) /\ Fine(EmptyGraph)
  /\ \A b \in Blk : Lacks(EmptyGraph)[b] = 0
<1> DEFINE e == EmptyGraph
<1>1. \A b \in Blk : /\ e.kind[b] = "none" /\ e.tgt[b] = << >>
                     /\ e.succs[b] = << >> /\ e.incoming[b] = << >>
  BY Zenon DEF EmptyGraph
<1>f. Fine(e)
  BY Zenon DEF EmptyGraph, Fine
<1> HIDE DEF e
<1>2. Counted(e)
  BY <1>1, TimesEmpty DEF Counted
<1>3. Len(<< >>) = 0
  OBVIOUS
<1>4. \A b \in Blk : Mirrored(e, b) /\ Shaped(e, b) /\ ~Terminated(e, b)
  BY <1>1, <1>3 DEF Mirrored, Shaped, Terminated
<1>5. \A b \in Blk : Lacks(e)[b] = 0
  BY <1>1, <1>3 DEF Lacks, Lack
<1>6. Balanced(e)
  BY <1>2, <1>4, EmptyGraphOK DEF Balanced, e
<1> QED
  BY <1>f, <1>5, <1>6 DEF e

LEMMA CreateFollows ==
  ASSUME NEW h, Balanced(h), h.n < MaxBlocks
  PROVE  /\ Follows(h, Create(h)) /\ Lacks(Create(h)) = Lacks(h)
         /\ Create(h).n = h.n + 1 /\ Create(h).kind = h.kind
         /\ ~Terminated(Create(h), Fresh(h))
         /\ Fresh(h) \in Blocks(Create(h)) /\ Fresh(h) \in Blk
<1> DEFINE r == Create(h)
<1>1. GraphOK(h) /\ Grows(h, r, 1) /\ Fresh(h) \in Blocks(r) /\ Fresh(h) \in Blk
  BY CreateGrows DEF Balanced
<1>2. /\ r.n = h.n + 1 /\ r.succs = h.succs /\ r.incoming = h.incoming
      /\ r.kind = h.kind /\ r.tgt = h.tgt /\ r.ice = h.ice
  BY <1>1 DEF Create, GraphOK, Graphs
<1>3. h.n \in Nat
  BY <1>1, BlocksType DEF GraphOK
<1> HIDE DEF r
<1>4. Counted(r)
  BY <1>2 DEF Balanced, Counted
<1>5. \A b \in Blk : Mirrored(r, b) /\ Shaped(r, b)
  BY <1>2 DEF Balanced, Mirrored, Shaped
<1>6. \A b \in Blk : b \notin Blocks(r) => ~Terminated(r, b)
  BY <1>2, <1>3 DEF Balanced, Blocks, Terminated
<1>7. ~Terminated(r, Fresh(h))
  BY <1>1, <1>2, <1>3 DEF Balanced, Blocks, Terminated, Fresh
<1>8. Lacks(r) = Lacks(h)
  BY <1>2 DEF Lacks, Lack
<1>9. Follows(h, r)
  BY <1>1, <1>2, <1>4, <1>5, <1>6 DEF Follows, Balanced, Grows
<1> QED
  BY <1>1, <1>2, <1>7, <1>8, <1>9 DEF r

LEMMA FailBalanced ==
  ASSUME NEW h, Balanced(h), NEW a \in Assertions
  PROVE  /\ Balanced(Fail(h, a)) /\ Lacks(Fail(h, a)) = Lacks(h)
         /\ Fail(h, a).ice = a /\ Fail(h, a).kind = h.kind /\ Extends(h, Fail(h, a))
<1> DEFINE r == Fail(h, a)
<1>1. GraphOK(h) /\ Grows(h, r, 0)
  BY FailGrows DEF Balanced
<1>2. /\ r.n = h.n /\ r.succs = h.succs /\ r.incoming = h.incoming
      /\ r.kind = h.kind /\ r.tgt = h.tgt /\ r.ice = a
  BY <1>1 DEF Fail, GraphOK, Graphs
<1> HIDE DEF r
<1>3. Counted(r)
  BY <1>2 DEF Balanced, Counted
<1>4. \A b \in Blk : Mirrored(r, b) /\ Shaped(r, b)
  BY <1>2 DEF Balanced, Mirrored, Shaped
<1>5. \A b \in Blk : b \notin Blocks(r) => ~Terminated(r, b)
  BY <1>2 DEF Balanced, Blocks, Terminated
<1>6. Lacks(r) = Lacks(h)
  BY <1>2 DEF Lacks, Lack
<1>7. Balanced(r) /\ Extends(h, r)
  BY <1>1, <1>3, <1>4, <1>5 DEF Balanced, Grows
<1> QED
  BY <1>2, <1>6, <1>7 DEF r

\* An open block gets a terminator, none of whose targets is known yet.
LEMMA TerminateFollows ==
  ASSUME NEW h, Balanced(h), NEW b \in Blocks(h), ~Terminated(h, b), NEW k \in Kinds \ {"none"}
  PROVE  LET r == Terminate(h, b, k)
         IN  /\ Follows(h, r) /\ r.n = h.n /\ r.kind = [h.kind EXCEPT ![b] = k]
             /\ Lacks(r) = [Lacks(h) EXCEPT ![b] = Len(NullTargets(k))]
             /\ Len(NullTargets(k)) = (CASE k = "if" -> 2 [] k = "goto" -> 1 [] OTHER -> 0)
             /\ b \in Blk /\ Linkable(r, b)
<1> DEFINE r == Terminate(h, b, k)
<1>1. GraphOK(h) /\ b \in Blk
  BY BlocksType DEF Balanced, GraphOK
<1>2. Grows(h, r, 0) /\ Terminated(r, b) /\ r.n = h.n
  <2>1. Grows(h, r, 0) /\ Terminated(r, b)
    BY <1>1, TerminateGrows
  <2> QED
    BY <1>1, <2>1, BlocksType DEF GraphOK, Grows
<1>3. /\ r.n = h.n /\ r.succs = h.succs /\ r.incoming = h.incoming /\ r.ice = h.ice
      /\ r.kind = [h.kind EXCEPT ![b] = k] /\ r.tgt = [h.tgt EXCEPT ![b] = NullTargets(k)]
  BY <1>1 DEF Terminate, GraphOK, Graphs
<1>4. /\ Len(NullTargets(k)) = (CASE k = "if" -> 2 [] k = "goto" -> 1 [] OTHER -> 0)
      /\ Len(NullTargets(k)) \in Nat
      /\ \A i \in 1 .. Len(NullTargets(k)) : NullTargets(k)[i] = Null
  BY DEF NullTargets, Kinds
<1>5. /\ Len(h.succs[b]) = 0
      /\ \A c \in Blk : r.kind[c] = IF c = b THEN k ELSE h.kind[c]
      /\ \A c \in Blk : r.tgt[c] = IF c = b THEN NullTargets(k) ELSE h.tgt[c]
  BY <1>1, <1>3, LackType, GraphFields
<1> HIDE DEF r
<1>6. Counted(r)
  BY <1>3 DEF Balanced, Counted
<1>7. ASSUME NEW c \in Blk PROVE Mirrored(r, c) /\ Shaped(r, c)
  <2>1. CASE c = b
    <3>1. Mirrored(r, c)
      BY <1>3, <1>4, <1>5, <2>1 DEF Mirrored, Kinds
    <3>2. Shaped(r, c)
      BY <1>3, <1>4, <1>5, <2>1 DEF Shaped, Kinds
    <3> QED
      BY <3>1, <3>2
  <2>2. CASE c # b
    BY <1>3, <1>5, <2>2 DEF Balanced, Mirrored, Shaped
  <2> QED
    BY <2>1, <2>2
<1>8. \A c \in Blk : c \notin Blocks(r) => ~Terminated(r, c)
  BY <1>3, <1>5 DEF Balanced, Blocks, Terminated
<1>9. Lacks(r) = [Lacks(h) EXCEPT ![b] = Len(NullTargets(k))]
  <2> DEFINE m == Len(NullTargets(k))
  <2> HIDE DEF m
  <2>1. m \in Nat /\ Lack(r, b) = m
    <3>1. Lack(r, b) = m - 0
      BY <1>1, <1>3, <1>5 DEF Lack, m
    <3> QED
      BY <1>4, <3>1 DEF m
  <2>2. \A c \in Blk : c # b => Lack(r, c) = Lack(h, c)
    BY <1>3, <1>5 DEF Lack
  <2>3. \A c \in Blk : Lacks(r)[c] = IF c = b THEN m ELSE Lacks(h)[c]
    BY <2>1, <2>2 DEF Lacks
  <2> QED
    BY <1>1, <2>3 DEF Lacks, m
<1>10. Follows(h, r)
  <2>1. \A c \in Blk : Terminated(h, c) => r.kind[c] = h.kind[c]
    BY <1>5
  <2> QED
    BY <1>2, <1>3, <1>6, <1>7, <1>8, <2>1 DEF Follows, Balanced, Grows
<1>11. Linkable(r, b)
  BY <1>2 DEF Linkable, Blocks
<1> QED
  BY <1>1, <1>3, <1>4, <1>9, <1>10, <1>11 DEF r

\* An edge counts once at each of its ends.
LEMMA LinkCounted ==
  ASSUME NEW h, GraphOK(h), Counted(h), NEW b \in Blk, NEW t \in Blk,
         NEW r, r.succs[b] = Append(h.succs[b], t), r.incoming[t] = Append(h.incoming[t], b),
         \A c \in Blk : c # b => r.succs[c] = h.succs[c],
         \A c \in Blk : c # t => r.incoming[c] = h.incoming[c]
  PROVE  Counted(r)
<1> SUFFICES ASSUME NEW c \in Blk, NEW d \in Blk
             PROVE  Times(c, r.incoming[d]) = Times(d, r.succs[c])
  BY DEF Counted
<1>1. Times(c, h.incoming[d]) = Times(d, h.succs[c]) /\ Times(d, h.succs[c]) \in Nat
  BY GraphFields, TimesType DEF Counted
<1>2. Times(c, r.incoming[d]) = Times(c, h.incoming[d]) + (IF c = b /\ d = t THEN 1 ELSE 0)
  <2>1. CASE d = t
    <3>1. r.incoming[d] = Append(h.incoming[d], b) /\ h.incoming[d] \in Seq(Blk)
      BY <2>1, GraphFields
    <3>2. Times(c, Append(h.incoming[d], b)) = Times(c, h.incoming[d]) + (IF c = b THEN 1 ELSE 0)
      BY <3>1, TimesAppend
    <3> QED
      BY <2>1, <3>1, <3>2
  <2>2. CASE d # t
    BY <1>1, <2>2, GraphFields
  <2> QED
    BY <2>1, <2>2
<1>3. Times(d, r.succs[c]) = Times(d, h.succs[c]) + (IF c = b /\ d = t THEN 1 ELSE 0)
  <2>1. CASE c = b
    <3>1. r.succs[c] = Append(h.succs[c], t) /\ h.succs[c] \in Seq(Blk)
      BY <2>1, GraphFields
    <3>2. Times(d, Append(h.succs[c], t)) = Times(d, h.succs[c]) + (IF d = t THEN 1 ELSE 0)
      BY <3>1, TimesAppend
    <3> QED
      BY <2>1, <3>1, <3>2
  <2>2. CASE c # b
    BY <1>1, <2>2, GraphFields
  <2> QED
    BY <2>1, <2>2
<1> QED
  BY <1>1, <1>2, <1>3

\* A terminator is given the first target it lacks.
LEMMA SetTargetFollows ==
  ASSUME NEW h, Balanced(h), NEW b, Linkable(h, b), NEW t \in Blocks(h),
         Lack(h, b) # 0, NEW i \in Nat, i = Len(h.succs[b]) + 1
  PROVE  LET r == SetTarget(h, b, i, t)
         IN  /\ Follows(h, r) /\ r.n = h.n /\ r.kind = h.kind
             /\ Lacks(r) = [Lacks(h) EXCEPT ![b] = @ - 1]
<1> DEFINE r == SetTarget(h, b, i, t)
<1>1. GraphOK(h) /\ b \in Blk /\ t \in Blk /\ h \in Graphs
  BY BlocksType DEF Balanced, GraphOK, Linkable
<1>2. Grows(h, r, 0)
  BY <1>1, SetTargetGrows
<1>3. /\ r.n = h.n /\ r.kind = h.kind /\ r.ice = h.ice
      /\ r.tgt = [h.tgt EXCEPT ![b] = [@ EXCEPT ![i] = t]]
      /\ r.succs = [h.succs EXCEPT ![b] = Append(@, t)]
      /\ r.incoming = [h.incoming EXCEPT ![t] = Append(@, b)]
  BY <1>1 DEF SetTarget, LinkTo, Graphs
<1> HIDE DEF r
<1>4. /\ h.tgt[b] \in Seq(Blk \cup {Null}) /\ Len(h.tgt[b]) \in Nat
      /\ h.succs[b] \in Seq(Blk) /\ Len(h.succs[b]) \in Nat
      /\ Mirrored(h, b)
  BY <1>1, GraphFields DEF Balanced
<1>5. i \in 1 .. Len(h.tgt[b])
  BY <1>4, LackType DEF Mirrored, Lack
<1>6. /\ \A c \in Blk : c # b => r.tgt[c] = h.tgt[c] /\ r.succs[c] = h.succs[c]
      /\ r.tgt[b] = [h.tgt[b] EXCEPT ![i] = t] /\ r.succs[b] = Append(h.succs[b], t)
  BY <1>1, <1>3, GraphFields
<1>7. /\ Len(r.tgt[b]) = Len(h.tgt[b]) /\ r.tgt[b][i] = t
      /\ \A j \in 1 .. Len(h.tgt[b]) : j # i => r.tgt[b][j] = h.tgt[b][j]
  BY <1>1, <1>4, <1>5, <1>6, ExceptSeq
<1>8. /\ Len(r.succs[b]) = i /\ r.succs[b][i] = t
      /\ \A j \in 1 .. Len(h.succs[b]) : r.succs[b][j] = h.succs[b][j]
  BY <1>1, <1>4, <1>6
<1>9. Counted(r)
  <2>1. /\ r.incoming[t] = Append(h.incoming[t], b)
        /\ \A c \in Blk : c # t => r.incoming[c] = h.incoming[c]
    BY <1>1, <1>3, GraphFields
  <2>2. Counted(h)
    BY DEF Balanced
  <2> QED
    BY ONLY <1>1, <1>6, <2>1, <2>2, LinkCounted
<1>10. Mirrored(r, b)
  <2> SUFFICES ASSUME NEW j \in 1 .. Len(h.tgt[b])
               PROVE  r.tgt[b][j] = IF j <= i THEN r.succs[b][j] ELSE Null
    BY <1>5, <1>7, <1>8 DEF Mirrored
  <2>1. j # i => h.tgt[b][j] = IF j <= Len(h.succs[b]) THEN h.succs[b][j] ELSE Null
    BY <1>4 DEF Mirrored
  <2>2. CASE j = i
    BY <1>7, <1>8, <2>2
  <2>3. CASE j < i
    <3>1. j \in 1 .. Len(h.succs[b]) /\ j # i /\ j <= Len(h.succs[b]) /\ j <= i
      BY <1>4, <1>5, <2>3
    <3> QED
      BY <1>7, <1>8, <2>1, <3>1
  <2>4. CASE i < j
    <3>1. ~(j <= Len(h.succs[b])) /\ j # i /\ ~(j <= i)
      BY <1>4, <1>5, <2>4
    <3> QED
      BY <1>7, <2>1, <3>1
  <2> QED
    BY <1>5, <2>2, <2>3, <2>4
<1>11. Shaped(r, b)
  <2>1. h.kind[b] # "switch"
    BY <1>1, LackType
  <2> QED
    BY <1>1, <1>3, <1>7, <2>1 DEF Balanced, Shaped
<1>12. \A c \in Blk : Mirrored(r, c) /\ Shaped(r, c)
  <2> SUFFICES ASSUME NEW c \in Blk, c # b PROVE Mirrored(r, c) /\ Shaped(r, c)
    BY <1>10, <1>11
  <2>1. Mirrored(h, c) /\ Shaped(h, c)
    BY DEF Balanced
  <2>2. r.tgt[c] = h.tgt[c] /\ r.succs[c] = h.succs[c] /\ r.kind = h.kind
    BY <1>3, <1>6
  <2> QED
    BY <2>1, <2>2 DEF Mirrored, Shaped
<1>13. \A c \in Blk : c \notin Blocks(r) => ~Terminated(r, c)
  BY <1>3 DEF Balanced, Blocks, Terminated
<1>14. Lacks(r) = [Lacks(h) EXCEPT ![b] = @ - 1]
  <2>1. Lack(r, b) = Lack(h, b) - 1
    BY <1>4, <1>7, <1>8 DEF Lack
  <2>2. \A c \in Blk : Lacks(r)[c] = IF c = b THEN Lacks(h)[b] - 1 ELSE Lacks(h)[c]
    BY <1>1, <1>6, <2>1 DEF Lacks, Lack
  <2> QED
    BY <1>1, <2>2 DEF Lacks
<1>15. Follows(h, r)
  BY <1>2, <1>3, <1>9, <1>12, <1>13 DEF Follows, Balanced, Grows
<1> QED
  BY <1>3, <1>14, <1>15 DEF r

LEMMA AddCaseFollows ==
  ASSUME NEW h, Balanced(h), NEW b \in Blocks(h), h.kind[b] = "switch", NEW t \in Blocks(h)
  PROVE  LET r == AddCase(h, b, t)
         IN  Follows(h, r) /\ r.n = h.n /\ r.kind = h.kind /\ Lacks(r) = Lacks(h)
<1> DEFINE r == AddCase(h, b, t)
<1>1. GraphOK(h) /\ b \in Blk /\ t \in Blk /\ h \in Graphs /\ Linkable(h, b)
  BY BlocksType DEF Balanced, GraphOK, Linkable, Terminated
<1>2. Grows(h, r, 0)
  BY <1>1, AddCaseGrows
<1>3. /\ r.n = h.n /\ r.kind = h.kind /\ r.ice = h.ice
      /\ r.tgt = [h.tgt EXCEPT ![b] = Append(@, t)]
      /\ r.succs = [h.succs EXCEPT ![b] = Append(@, t)]
      /\ r.incoming = [h.incoming EXCEPT ![t] = Append(@, b)]
  BY <1>1 DEF AddCase, LinkTo, Graphs
<1> HIDE DEF r
<1>4. /\ h.tgt[b] \in Seq(Blk \cup {Null}) /\ Len(h.tgt[b]) \in Nat
      /\ h.succs[b] \in Seq(Blk) /\ Len(h.succs[b]) \in Nat
      /\ Mirrored(h, b) /\ Len(h.tgt[b]) = Len(h.succs[b])
  BY <1>1, GraphFields DEF Balanced, Shaped
<1>5. /\ \A c \in Blk : c # b => r.tgt[c] = h.tgt[c] /\ r.succs[c] = h.succs[c]
      /\ r.tgt[b] = Append(h.tgt[b], t) /\ r.succs[b] = Append(h.succs[b], t)
      /\ r.incoming[t] = Append(h.incoming[t], b)
      /\ \A c \in Blk : c # t => r.incoming[c] = h.incoming[c]
  BY <1>1, <1>3, GraphFields
<1> DEFINE k == Len(h.tgt[b])
<1>6. /\ Len(r.tgt[b]) = k + 1 /\ Len(r.succs[b]) = k + 1 /\ k \in Nat
      /\ r.tgt[b][k + 1] = t /\ r.succs[b][k + 1] = t
      /\ \A j \in 1 .. k : r.tgt[b][j] = h.tgt[b][j] /\ r.succs[b][j] = h.succs[b][j]
  <2> DEFINE p == h.tgt[b]
             q == h.succs[b]
  <2>1. p \in Seq(Blk \cup {Null}) /\ q \in Seq(Blk) /\ Len(p) = k /\ Len(q) = k /\ k \in Nat
    BY <1>4
  <2> HIDE DEF p, q, k
  <2>2. /\ Len(Append(p, t)) = k + 1 /\ Append(p, t)[k + 1] = t
        /\ \A j \in 1 .. k : Append(p, t)[j] = p[j]
    BY <1>1, <2>1
  <2>3. /\ Len(Append(q, t)) = k + 1 /\ Append(q, t)[k + 1] = t
        /\ \A j \in 1 .. k : Append(q, t)[j] = q[j]
    BY <1>1, <2>1
  <2> QED
    BY <1>5, <2>1, <2>2, <2>3 DEF p, q
<1>7. \A j \in 1 .. k : h.tgt[b][j] = h.succs[b][j]
  BY <1>4 DEF Mirrored
<1> HIDE DEF k
<1>8. Counted(r)
  <2>1. Counted(h)
    BY DEF Balanced
  <2> QED
    BY ONLY <1>1, <1>5, <2>1, LinkCounted
<1>9. Mirrored(r, b) /\ Shaped(r, b)
  <2>1. \A j \in 1 .. k + 1 : r.tgt[b][j] = r.succs[b][j]
    <3> SUFFICES ASSUME NEW j \in 1 .. k + 1 PROVE r.tgt[b][j] = r.succs[b][j]
      OBVIOUS
    <3>1. j \in 1 .. k \/ j = k + 1
      BY <1>6
    <3> QED
      BY <1>6, <1>7, <3>1
  <2>2. Mirrored(r, b)
    <3>1. k + 1 <= k + 1 /\ \A j \in 1 .. k + 1 : j <= k + 1
      BY <1>6
    <3> QED
      BY <1>6, <2>1, <3>1 DEF Mirrored
  <2>3. Shaped(r, b)
    BY <1>3, <1>6 DEF Shaped
  <2> QED
    BY <2>2, <2>3
<1>10. \A c \in Blk : Mirrored(r, c) /\ Shaped(r, c)
  <2> SUFFICES ASSUME NEW c \in Blk, c # b PROVE Mirrored(r, c) /\ Shaped(r, c)
    BY <1>9
  <2>1. Mirrored(h, c) /\ Shaped(h, c)
    BY DEF Balanced
  <2>2. r.tgt[c] = h.tgt[c] /\ r.succs[c] = h.succs[c] /\ r.kind = h.kind
    BY <1>3, <1>5
  <2> QED
    BY <2>1, <2>2 DEF Mirrored, Shaped
<1>11. \A c \in Blk : c \notin Blocks(r) => ~Terminated(r, c)
  BY <1>3 DEF Balanced, Blocks, Terminated
<1>12. Lacks(r) = Lacks(h)
  <2>1. Lack(r, b) = Lack(h, b)
    BY <1>4, <1>6 DEF Lack, k
  <2>2. \A c \in Blk : Lack(r, c) = Lack(h, c)
    BY <1>5, <2>1 DEF Lack
  <2> QED
    BY <2>2 DEF Lacks
<1>13. Follows(h, r)
  BY <1>2, <1>3, <1>8, <1>10, <1>11 DEF Follows, Balanced, Grows
<1> QED
  BY <1>3, <1>12, <1>13 DEF r

\* Setters, for a terminator that lacks as much as the setter takes for granted.
LEMMA SettersFollow ==
  ASSUME NEW h, Balanced(h), NEW b \in Blocks(h), NEW t \in Blocks(h)
  PROVE  /\ h.kind[b] = "goto" /\ Lacks(h)[b] = 1 =>
              /\ Follows(h, SetGoto(h, b, t)) /\ SetGoto(h, b, t).n = h.n
              /\ SetGoto(h, b, t).kind = h.kind
              /\ Lacks(SetGoto(h, b, t)) = [Lacks(h) EXCEPT ![b] = 0]
         /\ h.kind[b] = "if" /\ Lacks(h)[b] = 2 =>
              /\ Follows(h, SetThen(h, b, t)) /\ SetThen(h, b, t).n = h.n
              /\ SetThen(h, b, t).kind = h.kind
              /\ Lacks(SetThen(h, b, t)) = [Lacks(h) EXCEPT ![b] = 1]
         /\ h.kind[b] = "if" /\ Lacks(h)[b] = 1 =>
              /\ Follows(h, SetElse(h, b, t)) /\ SetElse(h, b, t).n = h.n
              /\ SetElse(h, b, t).kind = h.kind
              /\ Lacks(SetElse(h, b, t)) = [Lacks(h) EXCEPT ![b] = 0]
<1>1. b \in Blk
  BY BlocksType DEF Balanced, GraphOK
<1> DEFINE m == Len(h.tgt[b])
           n == Len(h.succs[b])
           d == Lack(h, b)
<1>a. /\ m \in Nat /\ n \in Nat /\ d = m - n /\ Lacks(h)[b] = d
      /\ h.kind[b] = "goto" => m = 1
      /\ h.kind[b] = "if" => m = 2
  BY <1>1, LackType DEF Lack, Balanced, Shaped
<1> HIDE DEF m, n, d
<1>b. /\ h.kind[b] = "goto" /\ Lacks(h)[b] = 1 => 1 = n + 1 /\ d # 0
      /\ h.kind[b] = "if" /\ Lacks(h)[b] = 2 => 1 = n + 1 /\ d # 0
      /\ h.kind[b] = "if" /\ Lacks(h)[b] = 1 => 2 = n + 1 /\ d # 0
  BY ONLY <1>a
<1>2. /\ h.kind[b] = "goto" /\ Lacks(h)[b] = 1 => 1 = Len(h.succs[b]) + 1 /\ Lack(h, b) # 0
      /\ h.kind[b] = "if" /\ Lacks(h)[b] = 2 => 1 = Len(h.succs[b]) + 1 /\ Lack(h, b) # 0
      /\ h.kind[b] = "if" /\ Lacks(h)[b] = 1 => 2 = Len(h.succs[b]) + 1 /\ Lack(h, b) # 0
  BY <1>b DEF n, d
<1>3. h.kind[b] \in {"goto", "if"} => Linkable(h, b)
  BY DEF Linkable, Terminated
<1>4. CASE h.kind[b] = "goto" /\ Lacks(h)[b] = 1
  <2>1. 1 = Len(h.succs[b]) + 1 /\ Lack(h, b) # 0
    BY <1>2, <1>4
  <2>2. /\ Follows(h, SetTarget(h, b, 1, t)) /\ SetTarget(h, b, 1, t).n = h.n
        /\ SetTarget(h, b, 1, t).kind = h.kind
        /\ Lacks(SetTarget(h, b, 1, t)) = [Lacks(h) EXCEPT ![b] = @ - 1]
    BY <1>3, <1>4, <2>1, SetTargetFollows
  <2>3. [Lacks(h) EXCEPT ![b] = @ - 1] = [Lacks(h) EXCEPT ![b] = 0]
    BY <1>1, <1>4 DEF Lacks
  <2> QED
    BY <1>4, <2>2, <2>3 DEF SetGoto
<1>5. CASE h.kind[b] = "if" /\ Lacks(h)[b] = 2
  <2>1. 1 = Len(h.succs[b]) + 1 /\ Lack(h, b) # 0
    BY <1>2, <1>5
  <2>2. /\ Follows(h, SetTarget(h, b, 1, t)) /\ SetTarget(h, b, 1, t).n = h.n
        /\ SetTarget(h, b, 1, t).kind = h.kind
        /\ Lacks(SetTarget(h, b, 1, t)) = [Lacks(h) EXCEPT ![b] = @ - 1]
    BY <1>3, <1>5, <2>1, SetTargetFollows
  <2>3. [Lacks(h) EXCEPT ![b] = @ - 1] = [Lacks(h) EXCEPT ![b] = 1]
    BY <1>1, <1>5 DEF Lacks
  <2> QED
    BY <1>5, <2>2, <2>3 DEF SetThen
<1>6. CASE h.kind[b] = "if" /\ Lacks(h)[b] = 1
  <2>1. 2 = Len(h.succs[b]) + 1 /\ Lack(h, b) # 0
    BY <1>2, <1>6
  <2>2. /\ Follows(h, SetTarget(h, b, 2, t)) /\ SetTarget(h, b, 2, t).n = h.n
        /\ SetTarget(h, b, 2, t).kind = h.kind
        /\ Lacks(SetTarget(h, b, 2, t)) = [Lacks(h) EXCEPT ![b] = @ - 1]
    BY <1>3, <1>6, <2>1, SetTargetFollows
  <2>3. [Lacks(h) EXCEPT ![b] = @ - 1] = [Lacks(h) EXCEPT ![b] = 0]
    BY <1>1, <1>6 DEF Lacks
  <2> QED
    BY <1>6, <2>2, <2>3 DEF SetElse
<1> QED
  BY <1>4, <1>5, <1>6

\* A Goto made and linked at once lacks nothing.
LEMMA SetGotoFollows ==
  ASSUME NEW h, Balanced(h), NEW b \in Blocks(h), NEW t \in Blocks(h),
         h.kind[b] = "goto", Lacks(h)[b] = 1
  PROVE  LET r == SetGoto(h, b, t)
         IN  Follows(h, r) /\ r.n = h.n /\ r.kind = h.kind /\ Lacks(r) = [Lacks(h) EXCEPT ![b] = 0]
<1> DEFINE r == SetGoto(h, b, t)
<1>1. Follows(h, r) /\ r.n = h.n /\ r.kind = h.kind /\ Lacks(r) = [Lacks(h) EXCEPT ![b] = 0]
  BY SettersFollow, Zenon
<1> QED
  BY <1>1

LEMMA SetThenFollows ==
  ASSUME NEW h, Balanced(h), NEW b \in Blocks(h), NEW t \in Blocks(h),
         h.kind[b] = "if", Lacks(h)[b] = 2
  PROVE  LET r == SetThen(h, b, t)
         IN  Follows(h, r) /\ r.n = h.n /\ r.kind = h.kind /\ Lacks(r) = [Lacks(h) EXCEPT ![b] = 1]
<1> DEFINE r == SetThen(h, b, t)
<1>1. Follows(h, r) /\ r.n = h.n /\ r.kind = h.kind /\ Lacks(r) = [Lacks(h) EXCEPT ![b] = 1]
  BY SettersFollow, Zenon
<1> QED
  BY <1>1

LEMMA SetElseFollows ==
  ASSUME NEW h, Balanced(h), NEW b \in Blocks(h), NEW t \in Blocks(h),
         h.kind[b] = "if", Lacks(h)[b] = 1
  PROVE  LET r == SetElse(h, b, t)
         IN  Follows(h, r) /\ r.n = h.n /\ r.kind = h.kind /\ Lacks(r) = [Lacks(h) EXCEPT ![b] = 0]
<1> DEFINE r == SetElse(h, b, t)
<1>1. Follows(h, r) /\ r.n = h.n /\ r.kind = h.kind /\ Lacks(r) = [Lacks(h) EXCEPT ![b] = 0]
  BY SettersFollow, Zenon
<1> QED
  BY <1>1

LEMMA GotoFollows ==
  ASSUME NEW h, Balanced(h), NEW b \in Blocks(h), NEW t \in Blocks(h)
  PROVE  /\ ~Terminated(h, b) =>
              /\ Follows(h, GotoTo(h, b, t)) /\ GotoTo(h, b, t).n = h.n
              /\ Lacks(GotoTo(h, b, t)) = Lacks(h) /\ Terminated(GotoTo(h, b, t), b)
              /\ \A c \in Blk : c # b => GotoTo(h, b, t).kind[c] = h.kind[c]
         /\ Follows(h, GotoIfOpen(h, b, t)) /\ GotoIfOpen(h, b, t).n = h.n
         /\ Lacks(GotoIfOpen(h, b, t)) = Lacks(h) /\ Terminated(GotoIfOpen(h, b, t), b)
         /\ \A c \in Blk : c # b => GotoIfOpen(h, b, t).kind[c] = h.kind[c]
<1>1. CASE Terminated(h, b)
  BY <1>1, FollowsRefl DEF GotoIfOpen
<1>2. CASE ~Terminated(h, b)
  <2> DEFINE m == Terminate(h, b, "goto")
             r == SetGoto(m, b, t)
  <2>1. /\ Follows(h, m) /\ m.n = h.n /\ m.kind = [h.kind EXCEPT ![b] = "goto"]
        /\ Lacks(m) = [Lacks(h) EXCEPT ![b] = 1] /\ b \in Blk /\ Linkable(m, b)
    <3>1. "goto" \in Kinds \ {"none"} /\ Len(NullTargets("goto")) = 1
      BY DEF Kinds, NullTargets
    <3>2. /\ Follows(h, m) /\ m.n = h.n /\ m.kind = [h.kind EXCEPT ![b] = "goto"]
          /\ Lacks(m) = [Lacks(h) EXCEPT ![b] = Len(NullTargets("goto"))]
          /\ b \in Blk /\ Linkable(m, b)
      BY <1>2, <3>1, TerminateFollows
    <3> QED
      BY <3>1, <3>2
  <2> HIDE DEF m
  <2>2. /\ Balanced(m) /\ b \in Blocks(m) /\ t \in Blocks(m)
    BY <2>1 DEF Follows, Blocks
  <2>3. /\ m.kind[b] = "goto" /\ Lacks(m)[b] = 1 /\ Lacks(h)[b] = 0
        /\ \A c \in Blk : c # b => m.kind[c] = h.kind[c]
    <3>1. GraphOK(h)
      BY DEF Balanced
    <3>2. Lacks(h)[b] = 0
      BY <1>2, <2>1, LackType
    <3>3. m.kind[b] = "goto" /\ \A c \in Blk : c # b => m.kind[c] = h.kind[c]
      BY <2>1, <3>1, GraphFields
    <3>4. Lacks(m)[b] = 1
      BY <2>1 DEF Lacks
    <3> QED
      BY <3>2, <3>3, <3>4
  <2>4. /\ Follows(m, r) /\ r.n = m.n /\ r.kind = m.kind
        /\ Lacks(r) = [Lacks(m) EXCEPT ![b] = 0]
    BY <2>2, <2>3, SettersFollow
  <2> HIDE DEF r
  <2>5. Follows(h, r)
    BY <2>1, <2>4, FollowsTrans
  <2>6. Lacks(r) = Lacks(h)
    <3>1. \A c \in Blk : Lacks(r)[c] = Lacks(h)[c]
      BY <2>1, <2>3, <2>4 DEF Lacks
    <3> QED
      BY <3>1 DEF Lacks
  <2>7. Terminated(r, b) /\ \A c \in Blk : c # b => r.kind[c] = h.kind[c]
    BY <2>3, <2>4 DEF Terminated
  <2>8. GotoTo(h, b, t) = r /\ GotoIfOpen(h, b, t) = r
    BY <1>2 DEF GotoTo, GotoIfOpen, r, m
  <2> QED
    BY <2>1, <2>4, <2>5, <2>6, <2>7, <2>8
<1> QED
  BY <1>1, <1>2

\* Gotos that waited are all linked to one block.
LEMMA SetGotosFollow ==
  ASSUME NEW h, Balanced(h), NEW ps \in Seq(Blk), Single(ps), NEW t \in Blocks(h),
         \A b \in Elems(ps) : h.kind[b] = "goto" /\ Lacks(h)[b] = 1
  PROVE  LET r == SetGotos(h, ps, t)
         IN  /\ Follows(h, r) /\ r.n = h.n /\ r.kind = h.kind
             /\ Lacks(r) = [c \in Blk |-> IF c \in Elems(ps) THEN 0 ELSE Lacks(h)[c]]
<1> DEFINE r == SetGotos(h, ps, t)
<1>1. GraphOK(h) /\ h \in Graphs /\ t \in Blk /\ Elems(ps) \subseteq Blk
  BY BlocksType, ElemsIn DEF Balanced, GraphOK
<1>2. \A b \in Elems(ps) : Linkable(h, b)
  BY <1>1 DEF Balanced, Linkable, Terminated
<1>3. Grows(h, r, 0)
  BY <1>1, <1>2, SetGotosGrows
<1>4. /\ r.n = h.n /\ r.kind = h.kind /\ r.ice = h.ice
      /\ r.tgt = [b \in Blk |-> IF b \in Elems(ps) THEN << t >> ELSE h.tgt[b]]
      /\ r.succs = [b \in Blk |-> IF b \in Elems(ps) THEN Append(h.succs[b], t) ELSE h.succs[b]]
      /\ r.incoming = [h.incoming EXCEPT ![t] = @ \o ps]
  BY <1>1 DEF SetGotos, Graphs
<1> HIDE DEF r
<1>5. ASSUME NEW b \in Elems(ps)
      PROVE  /\ b \in Blk /\ r.tgt[b] = << t >> /\ r.succs[b] = << t >>
             /\ h.succs[b] = << >>
  <2>1. b \in Blk /\ h.kind[b] = "goto" /\ Lacks(h)[b] = 1
    BY <1>1
  <2>2. /\ Len(h.tgt[b]) = 1 /\ Len(h.succs[b]) \in Nat
        /\ Lacks(h)[b] = Len(h.tgt[b]) - Len(h.succs[b])
    BY <2>1, LackType DEF Balanced, Shaped, Lack
  <2>3. Len(h.succs[b]) = 0
    BY <2>1, <2>2
  <2>4. h.succs[b] = << >>
    BY <1>1, <2>1, <2>3, GraphFields, EmptySeq
  <2>5. Append(<< >>, t) = << t >>
    OBVIOUS
  <2> QED
    BY <1>4, <2>1, <2>4, <2>5
<1>6. \A c \in Blk : c \notin Elems(ps) => r.tgt[c] = h.tgt[c] /\ r.succs[c] = h.succs[c]
  BY <1>4
<1>7. /\ r.incoming[t] = h.incoming[t] \o ps
      /\ \A c \in Blk : c # t => r.incoming[c] = h.incoming[c]
  BY <1>1, <1>4, GraphFields
<1>8. Counted(r)
  <2> SUFFICES ASSUME NEW c \in Blk, NEW d \in Blk
               PROVE  Times(c, r.incoming[d]) = Times(d, r.succs[c])
    BY DEF Counted
  <2>1. Times(c, h.incoming[d]) = Times(d, h.succs[c]) /\ Times(d, h.succs[c]) \in Nat
    BY <1>1, GraphFields, TimesType DEF Balanced, Counted
  <2>2. Times(c, r.incoming[d]) =
          Times(c, h.incoming[d]) + (IF c \in Elems(ps) /\ d = t THEN 1 ELSE 0)
    <3>1. CASE d = t
      <4>1. h.incoming[t] \in Seq(Blk)
        BY <1>1, GraphFields
      <4>2. Times(c, h.incoming[t] \o ps) =
              Times(c, h.incoming[t]) + (IF c \in Elems(ps) THEN 1 ELSE 0)
        BY <4>1, TimesConcat
      <4> QED
        BY <1>7, <3>1, <4>2
    <3>2. CASE d # t
      BY <1>7, <2>1, <3>2
    <3> QED
      BY <3>1, <3>2
  <2>3. Times(d, r.succs[c]) =
          Times(d, h.succs[c]) + (IF c \in Elems(ps) /\ d = t THEN 1 ELSE 0)
    <3>1. CASE c \in Elems(ps)
      <4>1. h.succs[c] \in Seq(Blk) /\ r.succs[c] = Append(h.succs[c], t)
        BY <1>1, <1>4, <3>1, GraphFields
      <4>2. Times(d, Append(h.succs[c], t)) =
              Times(d, h.succs[c]) + (IF d = t THEN 1 ELSE 0)
        BY <1>1, <4>1, TimesAppend
      <4> QED
        BY <3>1, <4>1, <4>2
    <3>2. CASE c \notin Elems(ps)
      BY <1>6, <2>1, <3>2
    <3> QED
      BY <3>1, <3>2
  <2> QED
    BY <2>1, <2>2, <2>3
<1>9. ASSUME NEW c \in Blk PROVE Mirrored(r, c) /\ Shaped(r, c)
  <2>1. CASE c \in Elems(ps)
    <3>1. Len(<< t >>) = 1 /\ << t >>[1] = t
      OBVIOUS
    <3>2. r.tgt[c] = << t >> /\ r.succs[c] = << t >> /\ r.kind[c] = "goto"
      BY <1>4, <1>5, <2>1
    <3> QED
      BY <3>1, <3>2 DEF Mirrored, Shaped
  <2>2. CASE c \notin Elems(ps)
    BY <1>4, <1>6, <2>2 DEF Balanced, Mirrored, Shaped
  <2> QED
    BY <2>1, <2>2
<1>10. \A c \in Blk : c \notin Blocks(r) => ~Terminated(r, c)
  BY <1>4 DEF Balanced, Blocks, Terminated
<1>11. Lacks(r) = [c \in Blk |-> IF c \in Elems(ps) THEN 0 ELSE Lacks(h)[c]]
  <2>1. ASSUME NEW c \in Blk
        PROVE  Lack(r, c) = IF c \in Elems(ps) THEN 0 ELSE Lacks(h)[c]
    <3>1. Len(<< t >>) = 1
      OBVIOUS
    <3>2. CASE c \in Elems(ps)
      BY <1>5, <3>1, <3>2 DEF Lack
    <3>3. CASE c \notin Elems(ps)
      BY <1>6, <3>3 DEF Lack, Lacks
    <3> QED
      BY <3>2, <3>3
  <2> QED
    BY <2>1 DEF Lacks
<1>12. Follows(h, r)
  BY <1>3, <1>4, <1>8, <1>9, <1>10 DEF Follows, Balanced, Grows
<1> QED
  BY <1>4, <1>11, <1>12 DEF r

LEMMA InstructionFollows ==
  ASSUME NEW h, NEW b, ~Terminated(h, b)
  PROVE  AddInstruction(h, b) = h
  BY DEF AddInstruction

\* The block a handler opens is one it may add to.
LEMMA OpenFollows ==
  ASSUME Balanced(g), curr \in Blocks(g), Room(Opens)
  PROVE  /\ Follows(g, OpenGraph) /\ Lacks(OpenGraph) = Lacks(g)
         /\ OpenGraph.kind = g.kind /\ OpenGraph.n = g.n + Opens /\ Opens \in {0, 1}
         /\ OpenBlock \in Blocks(OpenGraph) /\ ~Terminated(OpenGraph, OpenBlock)
<1>1. g.n \in Nat /\ MaxBlocks \in Nat
  BY BlocksType, MaxBlocksAssumption DEF Balanced, GraphOK
<1>2. CASE Terminated(g, curr)
  <2>1. g.n < MaxBlocks /\ Opens = 1
    BY <1>1, <1>2 DEF Room, Opens
  <2> QED
    BY <1>2, <2>1, CreateFollows DEF OpenGraph, OpenBlock
<1>3. CASE ~Terminated(g, curr)
  <2>1. Opens = 0 /\ g.n + 0 = g.n
    BY <1>1, <1>3 DEF Opens
  <2> QED
    BY <1>3, <2>1, FollowsRefl DEF OpenGraph, OpenBlock
<1> QED
  BY <1>2, <1>3

LEMMA EvalFollows ==
  ASSUME NEW h, Balanced(h), NEW b \in Blocks(h), ~Terminated(h, b), NEW br \in BOOLEAN,
         h.n + EvalSize(br) <= MaxBlocks
  PROVE  LET r == EvalGraph(h, b, br)
         IN  /\ Follows(h, r) /\ Lacks(r) = Lacks(h) /\ r.n = h.n + EvalSize(br)
             /\ EvalBlock(h, b, br) \in Blocks(r) /\ ~Terminated(r, EvalBlock(h, b, br))
<1>1. h.n \in Nat /\ MaxBlocks \in Nat /\ b \in Blk /\ b # h.n + 1 /\ b # h.n + 2
      /\ b \in 1 .. h.n
  BY BlocksType, MaxBlocksAssumption DEF Balanced, GraphOK, Blocks
<1>2. CASE ~br
  <2>1. EvalSize(br) = 0 /\ h.n + 0 = h.n
    BY <1>1, <1>2 DEF EvalSize
  <2>2. EvalGraph(h, b, br) = h /\ EvalBlock(h, b, br) = b
    BY <1>2, InstructionFollows DEF EvalGraph, EvalBlock
  <2> QED
    BY <2>1, <2>2, FollowsRefl
<1>3. CASE br
  <2> DEFINE h1 == Create(h)
             h2 == Create(h1)
             h3 == Terminate(h2, b, "if")
             h4 == SetThen(h3, b, h.n + 1)
             h5 == SetElse(h4, b, h.n + 2)
             h6 == GotoTo(h5, h.n + 1, h.n + 2)
  <2>1. h.n < MaxBlocks /\ h.n + 1 < MaxBlocks /\ h.n + 1 \in Blk /\ h.n + 2 \in Blk
    BY <1>1, <1>3 DEF EvalSize, Blk
  <2>2. /\ Follows(h, h1) /\ Lacks(h1) = Lacks(h) /\ h1.n = h.n + 1 /\ h1.kind = h.kind
        /\ ~Terminated(h1, h.n + 1)
    BY <2>1, CreateFollows DEF Fresh
  <2> HIDE DEF h1
  <2>3. Balanced(h1)
    BY <2>2 DEF Follows
  <2>4. /\ Follows(h1, h2) /\ Lacks(h2) = Lacks(h) /\ h2.n = h.n + 2 /\ h2.kind = h.kind
        /\ ~Terminated(h2, h.n + 2)
    <3>1. h1.n < MaxBlocks /\ h.n + 1 + 1 = h.n + 2
      BY <1>1, <2>1, <2>2
    <3> QED
      BY <2>2, <2>3, <3>1, CreateFollows DEF Fresh
  <2> HIDE DEF h2
  <2>5. Balanced(h2) /\ b \in Blocks(h2) /\ h.n + 1 \in Blocks(h2) /\ h.n + 2 \in Blocks(h2)
    BY <1>1, <2>4 DEF Follows, Blocks
  <2>6. h2.kind[b] = "none" /\ h2.kind[h.n + 1] = "none" /\ h2.kind[h.n + 2] = "none"
    BY <2>2, <2>4 DEF Terminated
  <2>7. /\ Follows(h2, h3) /\ h3.n = h2.n /\ h3.kind = [h2.kind EXCEPT ![b] = "if"]
        /\ Lacks(h3) = [Lacks(h2) EXCEPT ![b] = 2]
    <3>1. "if" \in Kinds \ {"none"} /\ Len(NullTargets("if")) = 2 /\ ~Terminated(h2, b)
      BY <2>6 DEF Kinds, NullTargets, Terminated
    <3>2. /\ Follows(h2, h3) /\ h3.n = h2.n /\ h3.kind = [h2.kind EXCEPT ![b] = "if"]
          /\ Lacks(h3) = [Lacks(h2) EXCEPT ![b] = Len(NullTargets("if"))]
      BY <2>5, <3>1, TerminateFollows
    <3> QED
      BY <3>1, <3>2
  <2> HIDE DEF h3
  <2>8. /\ Balanced(h3) /\ b \in Blocks(h3) /\ h.n + 1 \in Blocks(h3) /\ h.n + 2 \in Blocks(h3)
        /\ h3.kind[b] = "if" /\ h3.kind[h.n + 1] = "none" /\ h3.kind[h.n + 2] = "none"
        /\ Lacks(h3)[b] = 2
    <3>1. h2.kind \in [Blk -> Kinds]
      BY <1>1, <2>5, GraphFields DEF Balanced
    <3> QED
      BY <1>1, <2>1, <2>5, <2>6, <2>7, <3>1 DEF Follows, Blocks, Lacks
  <2>9. /\ Follows(h3, h4) /\ h4.n = h3.n /\ h4.kind = h3.kind
        /\ Lacks(h4) = [Lacks(h3) EXCEPT ![b] = 1]
    BY <2>8, SettersFollow
  <2> HIDE DEF h4
  <2>10. /\ Balanced(h4) /\ b \in Blocks(h4) /\ h.n + 2 \in Blocks(h4)
         /\ h4.kind[b] = "if" /\ Lacks(h4)[b] = 1
    BY <1>1, <2>8, <2>9 DEF Follows, Blocks, Lacks
  <2>11. /\ Follows(h4, h5) /\ h5.n = h4.n /\ h5.kind = h4.kind
         /\ Lacks(h5) = [Lacks(h4) EXCEPT ![b] = 0]
    BY <2>10, SettersFollow
  <2> HIDE DEF h5
  <2>12. /\ Balanced(h5) /\ h.n + 1 \in Blocks(h5) /\ h.n + 2 \in Blocks(h5)
         /\ ~Terminated(h5, h.n + 1) /\ h5.kind[h.n + 2] = "none"
    BY <2>8, <2>9, <2>11 DEF Follows, Blocks, Terminated
  <2>13. Lacks(h5) = Lacks(h)
    <3>1. Lacks(h2)[b] = 0
      BY <1>1, <2>5, <2>6, LackType DEF Terminated
    <3> DEFINE L == Lacks(h2)
    <3>2. DOMAIN L = Blk /\ L[b] = 0
      BY <3>1 DEF Lacks
    <3> HIDE DEF L
    <3>3. Lacks(h5) = [[[L EXCEPT ![b] = 2] EXCEPT ![b] = 1] EXCEPT ![b] = 0]
      BY <2>7, <2>9, <2>11 DEF L
    <3>4. L = [c \in Blk |-> L[c]]
      BY DEF L, Lacks
    <3>5. Lacks(h5) = L
      BY <1>1, <3>2, <3>3, <3>4
    <3> QED
      BY <2>4, <3>5 DEF L
  <2>14. /\ Follows(h5, h6) /\ h6.n = h5.n /\ Lacks(h6) = Lacks(h5)
         /\ h6.kind[h.n + 2] = "none"
    <3>1. h.n + 2 # h.n + 1
      BY <1>1
    <3> QED
      BY <2>1, <2>12, <3>1, GotoFollows
  <2> HIDE DEF h6
  <2>15. Follows(h, h6)
    <3>1. Balanced(h1) /\ Balanced(h2) /\ Balanced(h3) /\ Balanced(h4) /\ Balanced(h5)
      BY <2>3, <2>5, <2>8, <2>10, <2>12
    <3>2. Follows(h, h2)
      BY ONLY <2>2, <2>4, FollowsTrans, Balanced(h)
    <3>3. Follows(h, h3)
      BY ONLY <3>2, <2>7, FollowsTrans, Balanced(h)
    <3>4. Follows(h, h4)
      BY ONLY <3>3, <2>9, FollowsTrans, Balanced(h)
    <3>5. Follows(h, h5)
      BY ONLY <3>4, <2>11, FollowsTrans, Balanced(h)
    <3> QED
      BY ONLY <3>5, <2>14, FollowsTrans, Balanced(h)
  <2>16. h6.n = h.n + 2 /\ h.n + 2 \in Blocks(h6) /\ ~Terminated(h6, h.n + 2)
    BY <1>1, <2>4, <2>7, <2>9, <2>11, <2>14 DEF Blocks, Terminated
  <2>17. EvalGraph(h, b, br) = h6 /\ EvalBlock(h, b, br) = h.n + 2 /\ EvalSize(br) = 2
    <3>1. Fresh(h) = h.n + 1 /\ Fresh(h) + 1 = h.n + 2
      BY <1>1 DEF Fresh
    <3> QED
      BY <1>3, <3>1 DEF EvalGraph, EvalBlock, EvalSize, h6, h5, h4, h3, h2, h1
  <2> QED
    BY <2>13, <2>14, <2>15, <2>16, <2>17
<1> QED
  BY <1>2, <1>3

\* Opening a block, then evaluating an expression in it.
LEMMA OpenEvalFollows ==
  ASSUME Balanced(g), curr \in Blocks(g), NEW br \in BOOLEAN, NEW k \in Nat,
         Room(Opens + EvalSize(br) + k)
  PROVE  LET h == EvalGraph(OpenGraph, OpenBlock, br)
             b == EvalBlock(OpenGraph, OpenBlock, br)
         IN  /\ Follows(g, h) /\ Lacks(h) = Lacks(g) /\ Balanced(h)
             /\ b \in Blocks(h) /\ ~Terminated(h, b) /\ h.n + k <= MaxBlocks
<1>1. g.n \in Nat /\ MaxBlocks \in Nat
  BY BlocksType, MaxBlocksAssumption DEF Balanced, GraphOK
<1>2. EvalSize(br) \in {0, 2} /\ Opens \in {0, 1}
  BY DEF EvalSize, Opens
<1>3. Room(Opens)
  BY <1>1, <1>2 DEF Room
<1>4. /\ Follows(g, OpenGraph) /\ Lacks(OpenGraph) = Lacks(g)
      /\ OpenBlock \in Blocks(OpenGraph) /\ ~Terminated(OpenGraph, OpenBlock)
      /\ Balanced(OpenGraph) /\ OpenGraph.n = g.n + Opens
  BY <1>3, OpenFollows DEF Follows
<1>5. OpenGraph.n + EvalSize(br) <= MaxBlocks
  BY <1>1, <1>2, <1>4 DEF Room
<1> DEFINE h == EvalGraph(OpenGraph, OpenBlock, br)
           b == EvalBlock(OpenGraph, OpenBlock, br)
<1>6. /\ Follows(OpenGraph, h) /\ Lacks(h) = Lacks(OpenGraph) /\ h.n = OpenGraph.n + EvalSize(br)
      /\ b \in Blocks(h) /\ ~Terminated(h, b)
  BY <1>4, <1>5, EvalFollows
<1> HIDE DEF h, b
<1>7. Follows(g, h) /\ Balanced(h)
  BY <1>4, <1>6, FollowsTrans DEF Follows
<1>8. h.n + k <= MaxBlocks
  BY <1>1, <1>2, <1>4, <1>6 DEF Room
<1> QED
  BY <1>4, <1>6, <1>7, <1>8 DEF h, b

(***************************************************************************)
(* Debts.  Whatever a terminator still lacks is remembered in exactly one  *)
(* place, a frame of the stack or the gotos that wait for one label, and   *)
(* that place knows how much: this is what makes the handlers that settle  *)
(* it set the right target, once.                                          *)
(***************************************************************************)

\* What the frame f will give to the terminator of b.
Owe(f, b) ==
  IF f.stmt = "if" THEN IF ~f.inElse /\ b = f.blk THEN 1 ELSE 0
  ELSE IF f.stmt = "loop"
  THEN IF b = f.entry \/ b \in Elems(f.merges) THEN 1
       ELSE IF f.cond # Null /\ b = f.condExit THEN 2 ELSE 0
  ELSE IF f.stmt = "switch" THEN IF b \in Elems(f.merges) THEN 1 ELSE 0
  ELSE 0

Owed(f) == [b \in Blk |-> Owe(f, b)]
Waiting(s) == [b \in Blk |-> IF b \in Elems(s) THEN 1 ELSE 0]
NoDebt == [b \in Blk |-> 0]

\* The places: frames by their position, and labels.
FrameSlot(i) == << 0, i >>
LabelSlot(l) == << 1, l >>
Slots == {FrameSlot(i) : i \in Nat} \cup {LabelSlot(l) : l \in Labels}

Debts(st, p) ==
  [x \in Slots |-> IF x[1] = 0
                   THEN IF x[2] \in 1 .. Len(st) THEN Owed(st[x[2]]) ELSE NoDebt
                   ELSE Waiting(p[x[2]])]

Accounted(lacks, D) ==
  /\ \A x \in Slots, b \in Blk : D[x][b] # 0 => lacks[b] = D[x][b]
  /\ \A b \in Blk : lacks[b] # 0 => \E x \in Slots : D[x][b] # 0
  /\ \A x, y \in Slots, b \in Blk : D[x][b] # 0 /\ D[y][b] # 0 => x = y

\* One place changes, and with it what the blocks it remembers lack, or blocks
\* that lacked nothing.
Moves(L, D, M, E, x) ==
  /\ \A y \in Slots : y # x => E[y] = D[y]
  /\ \A b \in Blk : \/ E[x][b] = D[x][b] /\ M[b] = L[b]
                    \/ (D[x][b] # 0 \/ L[b] = 0) /\ M[b] = E[x][b]

LEMMA DebtStep ==
  ASSUME NEW L, NEW D, NEW M, NEW E, NEW x \in Slots, Accounted(L, D), Moves(L, D, M, E, x)
  PROVE  Accounted(M, E)
<1>m. /\ \A y \in Slots : y # x => E[y] = D[y]
      /\ \A b \in Blk : \/ E[x][b] = D[x][b] /\ M[b] = L[b]
                        \/ (D[x][b] # 0 \/ L[b] = 0) /\ M[b] = E[x][b]
  BY DEF Moves
<1>1. ASSUME NEW y \in Slots, NEW b \in Blk, y # x, E[y][b] # 0
      PROVE  E[x][b] = 0 /\ M[b] = L[b] /\ L[b] = E[y][b]
  <2>1. D[y][b] # 0 /\ E[y][b] = D[y][b] /\ L[b] = D[y][b] /\ L[b] # 0
    BY <1>m, <1>1 DEF Accounted
  <2>2. D[x][b] = 0
    BY <1>1, <2>1 DEF Accounted
  <2>3. M[b] = L[b] /\ E[x][b] = D[x][b]
    BY <1>m, <2>1, <2>2
  <2> QED
    BY <2>1, <2>2, <2>3
<1>2. ASSUME NEW y \in Slots, NEW b \in Blk, E[y][b] # 0 PROVE M[b] = E[y][b]
  <2>1. CASE y = x
    <3>1. E[x][b] = D[x][b] => L[b] = D[x][b]
      BY <1>2, <2>1 DEF Accounted
    <3> QED
      BY <1>m, <1>2, <2>1, <3>1
  <2>2. CASE y # x
    BY <1>1, <1>2, <2>2
  <2> QED
    BY <2>1, <2>2
<1>3. ASSUME NEW b \in Blk, M[b] # 0 PROVE \E y \in Slots : E[y][b] # 0
  <2>1. CASE M[b] = E[x][b]
    BY <1>3, <2>1
  <2>2. CASE M[b] # E[x][b]
    <3>1. M[b] = L[b] /\ E[x][b] = D[x][b]
      BY <1>m, <2>2
    <3>2. PICK y \in Slots : D[y][b] # 0
      BY <1>3, <3>1 DEF Accounted
    <3> QED
      BY <1>m, <3>1, <3>2
  <2> QED
    BY <2>1, <2>2
<1>4. ASSUME NEW y \in Slots, NEW z \in Slots, NEW b \in Blk, E[y][b] # 0, E[z][b] # 0
      PROVE  y = z
  <2>1. CASE y = x \/ z = x
    BY <1>1, <1>4, <2>1
  <2>2. CASE y # x /\ z # x
    <3>1. D[y][b] # 0 /\ D[z][b] # 0
      BY <1>m, <1>4, <2>2
    <3> QED
      BY <3>1 DEF Accounted
  <2> QED
    BY <2>1, <2>2
<1> QED
  BY <1>2, <1>3, <1>4 DEF Accounted

LEMMA SlotFacts ==
  /\ \A i \in Nat : FrameSlot(i) \in Slots /\ FrameSlot(i)[1] = 0 /\ FrameSlot(i)[2] = i
  /\ \A l \in Labels : LabelSlot(l) \in Slots /\ LabelSlot(l)[1] = 1 /\ LabelSlot(l)[2] = l
  /\ \A x \in Slots : \/ \E i \in Nat : x = FrameSlot(i)
                      \/ \E l \in Labels : x = LabelSlot(l)
  /\ \A i, j \in Nat : FrameSlot(i) = FrameSlot(j) => i = j
  /\ \A l, m \in Labels : LabelSlot(l) = LabelSlot(m) => l = m
  /\ \A i \in Nat, l \in Labels : FrameSlot(i) # LabelSlot(l)
  BY DEF Slots, FrameSlot, LabelSlot

LEMMA DebtsAt ==
  ASSUME NEW st, NEW p
  PROVE  /\ \A i \in Nat : Debts(st, p)[FrameSlot(i)] =
                             IF i \in 1 .. Len(st) THEN Owed(st[i]) ELSE NoDebt
         /\ \A l \in Labels : Debts(st, p)[LabelSlot(l)] = Waiting(p[l])
<1>1. ASSUME NEW i \in Nat
      PROVE  Debts(st, p)[FrameSlot(i)] = IF i \in 1 .. Len(st) THEN Owed(st[i]) ELSE NoDebt
  BY SlotFacts DEF Debts
<1>2. ASSUME NEW l \in Labels PROVE Debts(st, p)[LabelSlot(l)] = Waiting(p[l])
  <2>1. LabelSlot(l) \in Slots /\ LabelSlot(l)[1] # 0 /\ LabelSlot(l)[2] = l
    BY SlotFacts
  <2> QED
    BY <2>1 DEF Debts
<1> QED
  BY <1>1, <1>2

\* A frame pushed, popped or changed, and the gotos that wait for a label.
LEMMA DebtsPush ==
  ASSUME stack \in Seq(Frames), NEW f \in Frames, NEW p
  PROVE  /\ FrameSlot(Len(stack) + 1) \in Slots
         /\ Debts(stack, p)[FrameSlot(Len(stack) + 1)] = NoDebt
         /\ Debts(Push(f), p)[FrameSlot(Len(stack) + 1)] = Owed(f)
         /\ \A y \in Slots : y # FrameSlot(Len(stack) + 1) => Debts(Push(f), p)[y] = Debts(stack, p)[y]
<1>1. /\ Len(stack) \in Nat /\ Len(Push(f)) = Len(stack) + 1
      /\ \A i \in 1 .. Len(stack) : Push(f)[i] = stack[i]
      /\ Push(f)[Len(stack) + 1] = f
  BY DEF Push
<1> DEFINE n == Len(stack) + 1
<1>2. n \in Nat /\ n \in 1 .. Len(Push(f)) /\ n \notin 1 .. Len(stack)
  BY <1>1
<1>3. FrameSlot(n) \in Slots
  BY <1>2, SlotFacts
<1>4. Debts(stack, p)[FrameSlot(n)] = NoDebt /\ Debts(Push(f), p)[FrameSlot(n)] = Owed(f)
  BY <1>1, <1>2, DebtsAt
<1>5. ASSUME NEW y \in Slots, y # FrameSlot(n)
      PROVE  Debts(Push(f), p)[y] = Debts(stack, p)[y]
  <2>1. ASSUME NEW i \in Nat, y = FrameSlot(i) PROVE Debts(Push(f), p)[y] = Debts(stack, p)[y]
    <3>1. i # n
      BY <1>5, <2>1
    <3>2. i \in 1 .. Len(Push(f)) <=> i \in 1 .. Len(stack)
      BY <1>1, <3>1
    <3>3. i \in 1 .. Len(stack) => Owed(Push(f)[i]) = Owed(stack[i])
      BY <1>1
    <3> QED
      BY <2>1, <3>2, <3>3, DebtsAt
  <2>2. ASSUME NEW l \in Labels, y = LabelSlot(l)
        PROVE  Debts(Push(f), p)[y] = Debts(stack, p)[y]
    BY <2>2, DebtsAt
  <2> QED
    BY <2>1, <2>2, SlotFacts
<1> QED
  BY <1>3, <1>4, <1>5

LEMMA DebtsPop ==
  ASSUME stack \in Seq(Frames), stack # << >>, NEW p
  PROVE  /\ FrameSlot(Len(stack)) \in Slots
         /\ Debts(stack, p)[FrameSlot(Len(stack))] = Owed(Top)
         /\ Debts(Pop, p)[FrameSlot(Len(stack))] = NoDebt
         /\ \A y \in Slots : y # FrameSlot(Len(stack)) => Debts(Pop, p)[y] = Debts(stack, p)[y]
<1> DEFINE n == Len(stack)
<1>1. /\ n \in Nat \ {0} /\ Len(Pop) = n - 1
      /\ \A i \in 1 .. n - 1 : Pop[i] = stack[i]
  BY FrontOf, EmptySeq DEF Pop
<1>2. n \in Nat /\ n \notin 1 .. Len(Pop) /\ n \in 1 .. Len(stack)
  BY <1>1
<1>3. FrameSlot(n) \in Slots
  BY <1>2, SlotFacts
<1>4. Debts(stack, p)[FrameSlot(n)] = Owed(Top) /\ Debts(Pop, p)[FrameSlot(n)] = NoDebt
  BY <1>2, DebtsAt DEF Top
<1>5. ASSUME NEW y \in Slots, y # FrameSlot(n)
      PROVE  Debts(Pop, p)[y] = Debts(stack, p)[y]
  <2>1. ASSUME NEW i \in Nat, y = FrameSlot(i) PROVE Debts(Pop, p)[y] = Debts(stack, p)[y]
    <3>1. i # n
      BY <1>5, <2>1
    <3>2. i \in 1 .. Len(Pop) <=> i \in 1 .. Len(stack)
      BY <1>1, <3>1
    <3>3. i \in 1 .. Len(Pop) => Owed(Pop[i]) = Owed(stack[i])
      BY <1>1
    <3> QED
      BY <2>1, <3>2, <3>3, DebtsAt
  <2>2. ASSUME NEW l \in Labels, y = LabelSlot(l) PROVE Debts(Pop, p)[y] = Debts(stack, p)[y]
    BY <2>2, DebtsAt
  <2> QED
    BY <2>1, <2>2, SlotFacts
<1> QED
  BY <1>3, <1>4, <1>5

LEMMA DebtsSet ==
  ASSUME stack \in Seq(Frames), NEW i \in 1 .. Len(stack), NEW f, NEW p, NEW st,
         Len(st) = Len(stack), \A j \in 1 .. Len(stack) : st[j] = IF j = i THEN f ELSE stack[j]
  PROVE  /\ FrameSlot(i) \in Slots
         /\ Debts(stack, p)[FrameSlot(i)] = Owed(stack[i])
         /\ Debts(st, p)[FrameSlot(i)] = Owed(f)
         /\ \A y \in Slots : y # FrameSlot(i) => Debts(st, p)[y] = Debts(stack, p)[y]
<1>1. /\ Len(stack) \in Nat /\ Len(st) = Len(stack) /\ st[i] = f
      /\ \A j \in 1 .. Len(stack) : j # i => st[j] = stack[j]
  OBVIOUS
<1>2. i \in Nat /\ i \in 1 .. Len(st)
  BY <1>1
<1>3. FrameSlot(i) \in Slots
  BY <1>2, SlotFacts
<1>4. Debts(stack, p)[FrameSlot(i)] = Owed(stack[i]) /\ Debts(st, p)[FrameSlot(i)] = Owed(f)
  BY <1>1, <1>2, DebtsAt
<1>5. ASSUME NEW y \in Slots, y # FrameSlot(i)
      PROVE  Debts(st, p)[y] = Debts(stack, p)[y]
  <2>1. ASSUME NEW j \in Nat, y = FrameSlot(j) PROVE Debts(st, p)[y] = Debts(stack, p)[y]
    <3>1. j # i
      BY <1>5, <2>1
    <3>2. j \in 1 .. Len(stack) => Owed(st[j]) = Owed(stack[j])
      BY <1>1, <3>1
    <3> QED
      BY <1>1, <2>1, <3>2, DebtsAt
  <2>2. ASSUME NEW l \in Labels, y = LabelSlot(l) PROVE Debts(st, p)[y] = Debts(stack, p)[y]
    BY <2>2, DebtsAt
  <2> QED
    BY <2>1, <2>2, SlotFacts
<1> QED
  BY <1>3, <1>4, <1>5

LEMMA DebtsWait ==
  ASSUME NEW st, NEW p, NEW l \in Labels, NEW s, NEW q,
         q[l] = s, \A m \in Labels : m # l => q[m] = p[m]
  PROVE  /\ LabelSlot(l) \in Slots
         /\ Debts(st, p)[LabelSlot(l)] = Waiting(p[l])
         /\ Debts(st, q)[LabelSlot(l)] = Waiting(s)
         /\ \A y \in Slots : y # LabelSlot(l) => Debts(st, q)[y] = Debts(st, p)[y]
<1>1. q[l] = s /\ \A m \in Labels : m # l => q[m] = p[m]
  OBVIOUS
<1>2. LabelSlot(l) \in Slots
  BY SlotFacts
<1>3. Debts(st, p)[LabelSlot(l)] = Waiting(p[l]) /\ Debts(st, q)[LabelSlot(l)] = Waiting(s)
  BY <1>1, DebtsAt
<1>4. ASSUME NEW y \in Slots, y # LabelSlot(l)
      PROVE  Debts(st, q)[y] = Debts(st, p)[y]
  <2>1. ASSUME NEW i \in Nat, y = FrameSlot(i) PROVE Debts(st, q)[y] = Debts(st, p)[y]
    BY <2>1, DebtsAt
  <2>2. ASSUME NEW m \in Labels, y = LabelSlot(m) PROVE Debts(st, q)[y] = Debts(st, p)[y]
    <3>1. m # l
      BY <1>4, <2>2
    <3> QED
      BY <1>1, <2>2, <3>1, DebtsAt
  <2> QED
    BY <2>1, <2>2, SlotFacts
<1> QED
  BY <1>2, <1>3, <1>4

\* Blocks that wait to be linked: each once, and each ended by a Goto.
GotosOK(h, s) == Single(s) /\ \A b \in Elems(s) : h.kind[b] = "goto"

\* The terminators a frame will complete are of the kinds its setters expect.
FrameKinds(h, f) ==
  /\ f.stmt = "if" => h.kind[f.blk] = "if"
  /\ f.stmt = "loop" =>
       /\ h.kind[f.entry] = "goto" /\ f.entry \notin Elems(f.merges)
       /\ f.cond # Null => h.kind[f.condExit] = "if"
       /\ GotosOK(h, f.merges)
  /\ f.stmt = "switch" => h.kind[f.blk] = "switch" /\ GotosOK(h, f.merges)

\* Functions do not nest.
FuncFirst(st) == \A i \in 1 .. Len(st) : st[i].stmt = "func" => i = 1

Held(h, st, p) ==
  /\ Balanced(h) /\ Accounted(Lacks(h), Debts(st, p)) /\ FuncFirst(st)
  /\ \A i \in 1 .. Len(st) : FrameKinds(h, st[i])
  /\ \A l \in Labels : GotosOK(h, p[l])

\* r has all the terminators of h.
Tracks(h, r) ==
  Balanced(r) /\ \A b \in Blk : Terminated(h, b) => r.kind[b] = h.kind[b]

LEMMA FollowsTracks == ASSUME NEW h, NEW r, Follows(h, r) PROVE Tracks(h, r)
  BY DEF Follows, Tracks

LEMMA FailTracks ==
  ASSUME NEW f, NEW h, Follows(f, h), NEW a \in Assertions
  PROVE  Tracks(f, Fail(h, a)) /\ Lacks(Fail(h, a)) = Lacks(h) /\ Fail(h, a).ice = a
  BY FailBalanced DEF Follows, Tracks

LEMMA GotosTracked ==
  ASSUME NEW h, NEW r, Tracks(h, r), NEW s \in Seq(Blk), GotosOK(h, s)
  PROVE  GotosOK(r, s)
<1>1. \A b \in Elems(s) : b \in Blk
  BY ElemsIn
<1> QED
  BY <1>1 DEF GotosOK, Tracks, Terminated

LEMMA FrameFields ==
  ASSUME NEW f \in Frames
  PROVE  /\ f.stmt \in {"func", "if", "loop", "switch"}
         /\ f.stmt = "if" => f.blk \in Blk /\ f.inElse \in BOOLEAN /\ f.thenExit \in Blk \cup {Null}
         /\ f.stmt = "loop" =>
              /\ f.entry \in Blk /\ f.body \in Blk /\ f.merges \in Seq(Blk)
              /\ f.cond \in Blk \cup {Null} /\ f.condExit \in Blk \cup {Null}
              /\ f.init \in Blk \cup {Null} /\ f.initExit \in Blk \cup {Null}
              /\ f.step \in Blk \cup {Null} /\ f.stepExit \in Blk \cup {Null}
         /\ f.stmt = "switch" => f.blk \in Blk /\ f.merges \in Seq(Blk)
  BY DEF Frames, FuncFrame, IfFrames, LoopFrames, SwitchFrames

LEMMA FrameTracked ==
  ASSUME NEW h, NEW r, GraphOK(h), Tracks(h, r), NEW f \in Frames, FrameOK(h, f), FrameKinds(h, f)
  PROVE  FrameKinds(r, f)
<1>1. \A b \in Blk : Linkable(h, b) => r.kind[b] = h.kind[b]
  BY DEF Tracks, Linkable
<1>2. CASE f.stmt = "if"
  BY <1>1, <1>2, FrameFields DEF FrameOK, FrameKinds
<1>3. CASE f.stmt = "loop"
  <2>1. f.entry \in Blk /\ f.merges \in Seq(Blk) /\ GotosOK(h, f.merges)
    BY <1>3, FrameFields DEF FrameKinds
  <2>2. GotosOK(r, f.merges)
    BY <2>1, GotosTracked
  <2>3. f.cond # Null => f.condExit \in Blk
    BY <1>3, BlocksType DEF FrameOK, Linkable, GraphOK
  <2> QED
    BY <1>1, <1>3, <2>1, <2>2, <2>3 DEF FrameOK, FrameKinds
<1>4. CASE f.stmt = "switch"
  <2>1. f.blk \in Blk /\ f.merges \in Seq(Blk) /\ GotosOK(h, f.merges)
    BY <1>4, FrameFields DEF FrameKinds
  <2>2. GotosOK(r, f.merges)
    BY <2>1, GotosTracked
  <2> QED
    BY <1>1, <1>4, <2>1, <2>2 DEF FrameOK, FrameKinds
<1>5. CASE f.stmt = "func"
  BY <1>5 DEF FrameKinds
<1> QED
  BY <1>2, <1>3, <1>4, <1>5, FrameFields

BInv == IInv /\ Held(g, stack, pending)

\* What all frames and labels expect stays so while the graph goes on.
LEMMA KindsTracked ==
  ASSUME BInv, NEW r, Tracks(g, r)
  PROVE  /\ \A i \in 1 .. Len(stack) : FrameKinds(r, stack[i])
         /\ \A l \in Labels : GotosOK(r, pending[l])
         /\ stack \in Seq(Frames) /\ pending \in [Labels -> Seq(Blk)]
<1>1. /\ stack \in Seq(Frames) /\ pending \in [Labels -> Seq(Blk)] /\ GraphOK(g)
      /\ \A i \in 1 .. Len(stack) : stack[i] \in Frames /\ FrameOK(g, stack[i])
  BY ElementOfSeq DEF BInv, IInv, StackOK, WaitingOK
<1>2. ASSUME NEW i \in 1 .. Len(stack) PROVE FrameKinds(r, stack[i])
  <2>1. FrameKinds(g, stack[i])
    BY DEF BInv, Held
  <2> QED
    BY <1>1, <2>1, FrameTracked
<1>3. ASSUME NEW l \in Labels PROVE GotosOK(r, pending[l])
  <2>1. GotosOK(g, pending[l]) /\ pending[l] \in Seq(Blk)
    BY <1>1 DEF BInv, Held
  <2> QED
    BY <2>1, GotosTracked
<1> QED
  BY <1>1, <1>2, <1>3

\* No place changes.
LEMMA HeldSame ==
  ASSUME BInv, NEW r, Tracks(g, r), Lacks(r) = Lacks(g)
  PROVE  Held(r, stack, pending)
  BY KindsTracked DEF BInv, Held, Tracks

LEMMA HeldPush ==
  ASSUME BInv, NEW r, Tracks(g, r), NEW f \in Frames, FrameKinds(r, f), f.stmt # "func",
         \A b \in Blk : \/ Owe(f, b) = 0 /\ Lacks(r)[b] = Lacks(g)[b]
                        \/ Lacks(g)[b] = 0 /\ Lacks(r)[b] = Owe(f, b)
  PROVE  Held(r, Push(f), pending)
<1> DEFINE D == Debts(stack, pending)
           E == Debts(Push(f), pending)
           x == FrameSlot(Len(stack) + 1)
<1>1. /\ \A i \in 1 .. Len(stack) : FrameKinds(r, stack[i])
      /\ \A l \in Labels : GotosOK(r, pending[l])
      /\ stack \in Seq(Frames)
  BY KindsTracked
<1>2. /\ x \in Slots /\ D[x] = NoDebt /\ E[x] = Owed(f)
      /\ \A y \in Slots : y # x => E[y] = D[y]
  BY <1>1, DebtsPush
<1>3. Accounted(Lacks(g), D)
  BY DEF BInv, Held
<1> HIDE DEF D, E, x
<1>4. \A b \in Blk : \/ E[x][b] = D[x][b] /\ Lacks(r)[b] = Lacks(g)[b]
                     \/ (D[x][b] # 0 \/ Lacks(g)[b] = 0) /\ Lacks(r)[b] = E[x][b]
  BY <1>2 DEF NoDebt, Owed
<1>5. Accounted(Lacks(r), E)
  <2>1. Moves(Lacks(g), D, Lacks(r), E, x)
    BY <1>2, <1>4 DEF Moves
  <2> QED
    BY ONLY <1>2, <1>3, <2>1, DebtStep
<1>6. \A i \in 1 .. Len(Push(f)) : FrameKinds(r, Push(f)[i])
  <2>1. /\ Len(stack) \in Nat /\ Len(Push(f)) = Len(stack) + 1
        /\ \A i \in 1 .. Len(stack) : Push(f)[i] = stack[i]
        /\ Push(f)[Len(stack) + 1] = f
    BY <1>1 DEF Push
  <2> QED
    BY <1>1, <2>1
<1>7. FuncFirst(Push(f))
  <2>1. FuncFirst(stack)
    BY DEF BInv, Held
  <2>2. /\ Len(stack) \in Nat /\ Len(Push(f)) = Len(stack) + 1
        /\ \A i \in 1 .. Len(stack) : Push(f)[i] = stack[i]
        /\ Push(f)[Len(stack) + 1] = f
    BY <1>1 DEF Push
  <2> QED
    BY <2>1, <2>2 DEF FuncFirst
<1> QED
  BY <1>1, <1>5, <1>6, <1>7 DEF Held, Tracks, E

LEMMA HeldPop ==
  ASSUME BInv, stack # << >>, NEW r, Tracks(g, r),
         \A b \in Blk : \/ Owe(Top, b) = 0 /\ Lacks(r)[b] = Lacks(g)[b]
                        \/ Owe(Top, b) # 0 /\ Lacks(r)[b] = 0
  PROVE  Held(r, Pop, pending)
<1> DEFINE D == Debts(stack, pending)
           E == Debts(Pop, pending)
           x == FrameSlot(Len(stack))
<1>1. /\ \A i \in 1 .. Len(stack) : FrameKinds(r, stack[i])
      /\ \A l \in Labels : GotosOK(r, pending[l])
      /\ stack \in Seq(Frames)
  BY KindsTracked
<1>2. /\ x \in Slots /\ D[x] = Owed(Top) /\ E[x] = NoDebt
      /\ \A y \in Slots : y # x => E[y] = D[y]
  BY <1>1, DebtsPop
<1>3. Accounted(Lacks(g), D)
  BY DEF BInv, Held
<1> HIDE DEF D, E, x
<1>4. \A b \in Blk : \/ E[x][b] = D[x][b] /\ Lacks(r)[b] = Lacks(g)[b]
                     \/ (D[x][b] # 0 \/ Lacks(g)[b] = 0) /\ Lacks(r)[b] = E[x][b]
  BY <1>2 DEF NoDebt, Owed
<1>5. Accounted(Lacks(r), E)
  <2>1. Moves(Lacks(g), D, Lacks(r), E, x)
    BY <1>2, <1>4 DEF Moves
  <2> QED
    BY ONLY <1>2, <1>3, <2>1, DebtStep
<1>6. \A i \in 1 .. Len(Pop) : FrameKinds(r, Pop[i])
  <2>1. /\ Len(stack) \in Nat \ {0} /\ Len(Pop) = Len(stack) - 1
        /\ \A i \in 1 .. Len(stack) - 1 : Pop[i] = stack[i]
    BY <1>1, FrontOf, EmptySeq DEF Pop
  <2> QED
    BY <1>1, <2>1
<1>7. FuncFirst(Pop)
  <2>1. FuncFirst(stack)
    BY DEF BInv, Held
  <2>2. /\ Len(stack) \in Nat \ {0} /\ Len(Pop) = Len(stack) - 1
        /\ \A i \in 1 .. Len(stack) - 1 : Pop[i] = stack[i]
    BY <1>1, FrontOf, EmptySeq DEF Pop
  <2> QED
    BY <2>1, <2>2 DEF FuncFirst
<1> QED
  BY <1>1, <1>5, <1>6, <1>7 DEF Held, Tracks, E

LEMMA HeldSet ==
  ASSUME BInv, NEW r, Tracks(g, r), NEW i \in 1 .. Len(stack), NEW f \in Frames, FrameKinds(r, f),
         f.stmt = stack[i].stmt,
         \A b \in Blk :
           \/ Owe(f, b) = Owe(stack[i], b) /\ Lacks(r)[b] = Lacks(g)[b]
           \/ (Owe(stack[i], b) # 0 \/ Lacks(g)[b] = 0) /\ Lacks(r)[b] = Owe(f, b)
  PROVE  Held(r, [stack EXCEPT ![i] = f], pending)
<1> DEFINE D  == Debts(stack, pending)
           st == [stack EXCEPT ![i] = f]
           E  == Debts(st, pending)
           x  == FrameSlot(i)
<1>1. /\ \A j \in 1 .. Len(stack) : FrameKinds(r, stack[j])
      /\ \A l \in Labels : GotosOK(r, pending[l])
      /\ stack \in Seq(Frames)
  BY KindsTracked
<1>4. Len(st) = Len(stack) /\ \A j \in 1 .. Len(stack) : st[j] = IF j = i THEN f ELSE stack[j]
  BY <1>1, ExceptSeq
<1> HIDE DEF st
<1>2. /\ x \in Slots /\ D[x] = Owed(stack[i]) /\ E[x] = Owed(f)
      /\ \A y \in Slots : y # x => E[y] = D[y]
  BY <1>1, <1>4, DebtsSet
<1>3. Accounted(Lacks(g), D)
  BY DEF BInv, Held
<1> HIDE DEF D, E, x
<1>5. \A b \in Blk : \/ E[x][b] = D[x][b] /\ Lacks(r)[b] = Lacks(g)[b]
                     \/ (D[x][b] # 0 \/ Lacks(g)[b] = 0) /\ Lacks(r)[b] = E[x][b]
  BY <1>2 DEF Owed
<1>6. Accounted(Lacks(r), E)
  <2>1. Moves(Lacks(g), D, Lacks(r), E, x)
    BY <1>2, <1>5 DEF Moves
  <2> QED
    BY ONLY <1>2, <1>3, <2>1, DebtStep
<1>7. \A j \in 1 .. Len(st) : FrameKinds(r, st[j])
  BY <1>1, <1>4
<1>8. FuncFirst(st)
  <2>1. FuncFirst(stack)
    BY DEF BInv, Held
  <2> QED
    BY <1>4, <2>1 DEF FuncFirst
<1> QED
  BY <1>1, <1>6, <1>7, <1>8 DEF Held, Tracks, E, st

LEMMA HeldWait ==
  ASSUME BInv, NEW r, Tracks(g, r), NEW l \in Labels, NEW s \in Seq(Blk), GotosOK(r, s),
         \A b \in Blk :
           \/ (b \in Elems(s) <=> b \in Elems(pending[l])) /\ Lacks(r)[b] = Lacks(g)[b]
           \/ /\ b \in Elems(pending[l]) \/ Lacks(g)[b] = 0
              /\ Lacks(r)[b] = IF b \in Elems(s) THEN 1 ELSE 0
  PROVE  Held(r, stack, [pending EXCEPT ![l] = s])
<1> DEFINE D == Debts(stack, pending)
           q == [pending EXCEPT ![l] = s]
           E == Debts(stack, q)
           x == LabelSlot(l)
<1>1. /\ \A j \in 1 .. Len(stack) : FrameKinds(r, stack[j])
      /\ \A m \in Labels : GotosOK(r, pending[m])
      /\ pending \in [Labels -> Seq(Blk)]
  BY KindsTracked
<1>4. q[l] = s /\ \A m \in Labels : m # l => q[m] = pending[m]
  BY <1>1
<1> HIDE DEF q
<1>2. /\ x \in Slots /\ D[x] = Waiting(pending[l]) /\ E[x] = Waiting(s)
      /\ \A y \in Slots : y # x => E[y] = D[y]
  BY <1>4, DebtsWait
<1>3. Accounted(Lacks(g), D)
  BY DEF BInv, Held
<1> HIDE DEF D, E, x
<1>5. \A b \in Blk : \/ E[x][b] = D[x][b] /\ Lacks(r)[b] = Lacks(g)[b]
                     \/ (D[x][b] # 0 \/ Lacks(g)[b] = 0) /\ Lacks(r)[b] = E[x][b]
  BY <1>2 DEF Waiting
<1>6. Accounted(Lacks(r), E)
  <2>1. Moves(Lacks(g), D, Lacks(r), E, x)
    BY <1>2, <1>5 DEF Moves
  <2> QED
    BY ONLY <1>2, <1>3, <2>1, DebtStep
<1>7. \A m \in Labels : GotosOK(r, q[m])
  BY <1>1, <1>4
<1>8. FuncFirst(stack)
  BY DEF BInv, Held
<1> QED
  BY <1>1, <1>6, <1>7, <1>8 DEF Held, Tracks, E, q

\* The debts of one place are what its blocks lack.
LEMMA DebtKnown ==
  ASSUME BInv, NEW b \in Blk
  PROVE  /\ \A i \in 1 .. Len(stack) : Owe(stack[i], b) # 0 => Lacks(g)[b] = Owe(stack[i], b)
         /\ \A l \in Labels : b \in Elems(pending[l]) => Lacks(g)[b] = 1
<1>1. Accounted(Lacks(g), Debts(stack, pending)) /\ stack \in Seq(Frames)
  BY DEF BInv, Held, IInv, StackOK
<1>2. ASSUME NEW i \in 1 .. Len(stack), Owe(stack[i], b) # 0
      PROVE  Lacks(g)[b] = Owe(stack[i], b)
  <2>1. i \in Nat /\ FrameSlot(i) \in Slots
    BY <1>1, SlotFacts
  <2>2. Debts(stack, pending)[FrameSlot(i)][b] = Owe(stack[i], b)
    BY <2>1, DebtsAt DEF Owed
  <2> QED
    BY <1>1, <1>2, <2>1, <2>2 DEF Accounted
<1>3. ASSUME NEW l \in Labels, b \in Elems(pending[l]) PROVE Lacks(g)[b] = 1
  <2>1. LabelSlot(l) \in Slots
    BY SlotFacts
  <2>2. Debts(stack, pending)[LabelSlot(l)] = Waiting(pending[l])
    BY DebtsAt
  <2>3. Debts(stack, pending)[LabelSlot(l)][b] = 1
    BY <1>3, <2>2 DEF Waiting
  <2> QED
    BY <1>1, <2>1, <2>3 DEF Accounted
<1> QED
  BY <1>2, <1>3

\* One more Goto waits.
LEMMA GotosAppend ==
  ASSUME NEW h, NEW s \in Seq(Blk), GotosOK(h, s), NEW b \in Blk, b \notin Elems(s),
         h.kind[b] = "goto"
  PROVE  GotosOK(h, Append(s, b)) /\ Append(s, b) \in Seq(Blk)
         /\ Elems(Append(s, b)) = Elems(s) \cup {b}
<1>1. /\ Len(s) \in Nat /\ DOMAIN s = 1 .. Len(s) /\ DOMAIN Append(s, b) = 1 .. Len(s) + 1
      /\ \A i \in 1 .. Len(s) : Append(s, b)[i] = s[i]
      /\ Append(s, b)[Len(s) + 1] = b
  OBVIOUS
<1>2. Append(s, b) \in Seq(Blk) /\ Elems(Append(s, b)) = Elems(s) \cup {b}
  BY ElemsAppend
<1>3. \A i \in 1 .. Len(s) : s[i] # b
  BY <1>1 DEF Elems
<1>4. Single(Append(s, b))
  <2> DEFINE a == Append(s, b)
             n == Len(s)
  <2>1. /\ n \in Nat /\ DOMAIN a = 1 .. n + 1 /\ a[n + 1] = b
        /\ \A i \in 1 .. n : a[i] = s[i] /\ a[i] # b
        /\ \A i, j \in 1 .. n : s[i] = s[j] => i = j
    BY <1>1, <1>3 DEF GotosOK, Single
  <2> HIDE DEF a, n
  <2>2. ASSUME NEW i \in 1 .. n + 1, NEW j \in 1 .. n + 1, a[i] = a[j] PROVE i = j
    <3>1. (i \in 1 .. n \/ i = n + 1) /\ (j \in 1 .. n \/ j = n + 1)
      BY <2>1
    <3> QED
      BY <2>1, <2>2, <3>1
  <2> QED
    BY <2>1, <2>2 DEF Single, a
<1> QED
  BY <1>2, <1>4 DEF GotosOK

(***************************************************************************)
(* Every handler keeps the debts, and no assertion of a block fails in it  *)
(***************************************************************************)

LEMMA FineFollows == ASSUME NEW h, Fine(h), NEW r, Follows(h, r) PROVE Fine(r)
<1>1. r.ice = h.ice
  BY DEF Follows
<1> QED
  BY <1>1, Zenon DEF Fine

LEMMA RunningFacts == Running => stack # << >> /\ Fine(g)
  BY Zenon DEF Running, Fine

LEMMA StateFacts ==
  ASSUME BInv
  PROVE  /\ Balanced(g) /\ GraphOK(g) /\ curr \in Blocks(g) /\ curr \in Blk
         /\ g.n \in Nat /\ MaxBlocks \in Nat
         /\ stack \in Seq(Frames) /\ pending \in [Labels -> Seq(Blk)]
  BY BlocksType, MaxBlocksAssumption DEF BInv, Held, Balanced, IInv, GraphOK, StackOK, WaitingOK

\* Opening a block and ending it, for the handlers that evaluate nothing.
LEMMA EndedFollows ==
  ASSUME BInv, Room(Opens), NEW k \in Kinds \ {"none"}
  PROVE  LET r == Terminate(OpenGraph, OpenBlock, k)
         IN  /\ Follows(g, r) /\ Balanced(r) /\ r.kind[OpenBlock] = k
             /\ Lacks(r) = [Lacks(g) EXCEPT ![OpenBlock] = Len(NullTargets(k))]
             /\ Lacks(g)[OpenBlock] = 0
             /\ OpenBlock \in Blk /\ OpenBlock \in Blocks(r) /\ Blocks(OpenGraph) = Blocks(r)
<1> DEFINE r == Terminate(OpenGraph, OpenBlock, k)
<1>1. /\ Follows(g, OpenGraph) /\ Lacks(OpenGraph) = Lacks(g) /\ Balanced(OpenGraph)
      /\ OpenBlock \in Blocks(OpenGraph) /\ ~Terminated(OpenGraph, OpenBlock)
  BY StateFacts, OpenFollows DEF Follows
<1>2. /\ Follows(OpenGraph, r) /\ r.n = OpenGraph.n /\ r.kind = [OpenGraph.kind EXCEPT ![OpenBlock] = k]
      /\ Lacks(r) = [Lacks(OpenGraph) EXCEPT ![OpenBlock] = Len(NullTargets(k))]
      /\ OpenBlock \in Blk
  BY <1>1, TerminateFollows
<1> HIDE DEF r
<1>3. Follows(g, r) /\ Balanced(r)
  <2>1. Balanced(r)
    BY <1>2 DEF Follows
  <2> QED
    BY <1>1, <1>2, <2>1, StateFacts, FollowsTrans
<1>4. Lacks(g)[OpenBlock] = 0
  BY <1>1, <1>2, LackType
<1>5. r.kind[OpenBlock] = k
  BY <1>1, <1>2, GraphFields DEF Balanced
<1>6. Blocks(OpenGraph) = Blocks(r)
  BY <1>2 DEF Blocks
<1> QED
  BY <1>1, <1>2, <1>3, <1>4, <1>5, <1>6 DEF r

\* A new block, entered from the current one unless that has ended.
LEMMA EnteredFollows ==
  ASSUME BInv, Room(1)
  PROVE  LET r == GotoIfOpen(Create(g), curr, Fresh(g))
         IN  /\ Follows(g, r) /\ Balanced(r) /\ Lacks(r) = Lacks(g)
             /\ Fresh(g) \in Blocks(r) /\ Blocks(g) \subseteq Blocks(r)
<1> DEFINE c == Create(g)
           r == GotoIfOpen(c, curr, Fresh(g))
<1>1. Balanced(g) /\ curr \in Blocks(g) /\ g.n \in Nat /\ g.n < MaxBlocks
  BY StateFacts DEF Room
<1>2. /\ Follows(g, c) /\ Lacks(c) = Lacks(g) /\ c.n = g.n + 1 /\ Fresh(g) \in Blocks(c)
  BY <1>1, CreateFollows
<1> HIDE DEF c
<1>3. Balanced(c) /\ Blocks(g) \subseteq Blocks(c) /\ curr \in Blocks(c)
  BY <1>1, <1>2 DEF Follows, Blocks
<1>4. Follows(c, r) /\ r.n = c.n /\ Lacks(r) = Lacks(c)
  BY <1>2, <1>3, GotoFollows
<1> HIDE DEF r
<1>5. Follows(g, r) /\ Balanced(r)
  BY <1>1, <1>2, <1>4, FollowsTrans DEF Follows
<1>6. Blocks(r) = Blocks(c)
  BY <1>4 DEF Blocks
<1> QED
  BY <1>2, <1>3, <1>4, <1>5, <1>6 DEF r, c

LEMMA VisitExprStmtHolds ==
  ASSUME BInv, NEW br \in BOOLEAN, VisitExprStmt(br)
  PROVE  Held(g', stack', pending') /\ Fine(g')
<1> DEFINE h == EvalGraph(OpenGraph, OpenBlock, br)
<1>1. /\ g' = h /\ stack' = stack /\ pending' = pending /\ Running
      /\ Room(Opens + EvalSize(br))
  BY DEF VisitExprStmt
<1>2. Room(Opens + EvalSize(br) + 0)
  BY <1>1 DEF Room, Opens, EvalSize
<1>3. Follows(g, h) /\ Lacks(h) = Lacks(g)
  BY <1>2, StateFacts, OpenEvalFollows
<1> HIDE DEF h
<1>4. Held(h, stack, pending)
  BY <1>3, FollowsTracks, HeldSame
<1>5. Fine(h)
  BY <1>1, <1>3, RunningFacts, FineFollows
<1> QED
  BY <1>1, <1>4, <1>5

LEMMA VisitReturnHolds ==
  ASSUME BInv, NEW br \in BOOLEAN, VisitReturn(br)
  PROVE  Held(g', stack', pending') /\ Fine(g')
<1> DEFINE h == EvalGraph(OpenGraph, OpenBlock, br)
           b == EvalBlock(OpenGraph, OpenBlock, br)
           r == Terminate(h, b, "return")
<1>1. /\ g' = r /\ stack' = stack /\ pending' = pending /\ Running
      /\ Room(Opens + EvalSize(br))
  BY DEF VisitReturn
<1>2. Room(Opens + EvalSize(br) + 0)
  BY <1>1 DEF Room, Opens, EvalSize
<1>3. /\ Follows(g, h) /\ Lacks(h) = Lacks(g) /\ Balanced(h)
      /\ b \in Blocks(h) /\ ~Terminated(h, b)
  BY <1>2, StateFacts, OpenEvalFollows
<1> HIDE DEF h, b
<1>4. Follows(h, r) /\ Lacks(r) = Lacks(h)
  <2>1. "return" \in Kinds \ {"none"} /\ Len(NullTargets("return")) = 0
    BY DEF Kinds, NullTargets
  <2>2. /\ Follows(h, r) /\ b \in Blk
        /\ Lacks(r) = [Lacks(h) EXCEPT ![b] = Len(NullTargets("return"))]
    BY <1>3, <2>1, TerminateFollows
  <2>3. Lacks(h)[b] = 0
    BY <1>3, <2>2, LackType
  <2>4. [Lacks(h) EXCEPT ![b] = 0] = Lacks(h)
    BY <2>2, <2>3 DEF Lacks
  <2> QED
    BY <2>1, <2>2, <2>4
<1> HIDE DEF r
<1>5. Follows(g, r) /\ Lacks(r) = Lacks(g)
  BY <1>3, <1>4, StateFacts, FollowsTrans
<1>6. Held(r, stack, pending)
  BY <1>5, FollowsTracks, HeldSame
<1>7. Fine(r)
  BY <1>1, <1>5, RunningFacts, FineFollows
<1> QED
  BY <1>1, <1>6, <1>7

LEMMA VisitGotoHolds ==
  ASSUME BInv, NEW l \in Labels, VisitGoto(l)
  PROVE  Held(g', stack', pending') /\ Fine(g')
<1> DEFINE h == Terminate(OpenGraph, OpenBlock, "goto")
           b == OpenBlock
           s == Append(pending[l], b)
<1>1. /\ Running /\ Room(Opens) /\ stack' = stack
      /\ labeled[l] # Null => g' = SetGoto(h, b, labeled[l]) /\ pending' = pending
      /\ labeled[l] = Null => g' = h /\ pending' = [pending EXCEPT ![l] = s]
  BY DEF VisitGoto
<1>2. /\ Follows(g, h) /\ Balanced(h) /\ h.kind[b] = "goto"
      /\ Lacks(h) = [Lacks(g) EXCEPT ![b] = 1] /\ Lacks(g)[b] = 0
      /\ b \in Blk /\ b \in Blocks(h)
  <2>1. "goto" \in Kinds \ {"none"} /\ Len(NullTargets("goto")) = 1
    BY DEF Kinds, NullTargets
  <2>2. /\ Follows(g, h) /\ Balanced(h) /\ h.kind[b] = "goto"
        /\ Lacks(h) = [Lacks(g) EXCEPT ![b] = Len(NullTargets("goto"))] /\ Lacks(g)[b] = 0
        /\ b \in Blk /\ b \in Blocks(h)
    BY <1>1, <2>1, EndedFollows
  <2> QED
    BY <2>1, <2>2
<1> HIDE DEF h, b
<1>3. Tracks(g, h)
  BY <1>2, FollowsTracks
<1>4. CASE labeled[l] # Null
  <2>1. labeled[l] \in Blocks(h)
    <3>1. labeled[l] \in Blocks(g) /\ g.n <= h.n /\ g.n \in Nat /\ h.n \in Nat
      BY <1>2, <1>4, BlocksType DEF BInv, IInv, LabelsOK, Follows, Extends, Balanced, GraphOK
    <3> QED
      BY <3>1 DEF Blocks
  <2>2. Lacks(h)[b] = 1
    BY <1>2 DEF Lacks
  <2>3. /\ Follows(h, g') /\ Lacks(g') = [Lacks(h) EXCEPT ![b] = 0]
    <3> DEFINE t == labeled[l]
    <3>1. t \in Blocks(h)
      BY <2>1
    <3>2. g' = SetGoto(h, b, t)
      BY <1>1, <1>4
    <3> HIDE DEF t
    <3>3. Balanced(h) /\ b \in Blocks(h) /\ h.kind[b] = "goto"
      BY <1>2
    <3>4. Follows(h, SetGoto(h, b, t)) /\ Lacks(SetGoto(h, b, t)) = [Lacks(h) EXCEPT ![b] = 0]
      BY ONLY <2>2, <3>1, <3>3, SetGotoFollows
    <3> QED
      BY <3>2, <3>4
  <2>4. Lacks(g') = Lacks(g)
    <3>1. [[Lacks(g) EXCEPT ![b] = 1] EXCEPT ![b] = 0] = Lacks(g)
      BY <1>2 DEF Lacks
    <3> QED
      BY <1>2, <2>3, <3>1
  <2>5. Follows(g, g')
    BY <1>2, <2>3, StateFacts, FollowsTrans
  <2>6. Held(g', stack, pending)
    BY <2>4, <2>5, FollowsTracks, HeldSame
  <2>7. Fine(g')
    BY <1>1, <2>5, RunningFacts, FineFollows
  <2> QED
    BY <1>1, <1>4, <2>6, <2>7
<1>5. CASE labeled[l] = Null
  <2>1. pending[l] \in Seq(Blk) /\ GotosOK(h, pending[l])
    BY <1>3, KindsTracked
  <2>2. b \notin Elems(pending[l])
    BY <1>2, DebtKnown
  <2>3. GotosOK(h, s) /\ s \in Seq(Blk) /\ Elems(s) = Elems(pending[l]) \cup {b}
    BY <1>2, <2>1, <2>2, GotosAppend
  <2> HIDE DEF s
  <2>4. ASSUME NEW c \in Blk
        PROVE  \/ (c \in Elems(s) <=> c \in Elems(pending[l])) /\ Lacks(h)[c] = Lacks(g)[c]
               \/ /\ c \in Elems(pending[l]) \/ Lacks(g)[c] = 0
                  /\ Lacks(h)[c] = IF c \in Elems(s) THEN 1 ELSE 0
    <3>1. Lacks(h)[c] = IF c = b THEN 1 ELSE Lacks(g)[c]
      BY <1>2 DEF Lacks
    <3> QED
      BY <1>2, <2>3, <3>1
  <2>5. Held(h, stack, [pending EXCEPT ![l] = s])
    BY <1>3, <2>3, <2>4, HeldWait
  <2>6. Fine(h)
    BY <1>1, <1>2, RunningFacts, FineFollows
  <2> QED
    BY <1>1, <1>5, <2>5, <2>6
<1> QED
  BY <1>4, <1>5

\* Only a goto that waits for another label makes this assertion fail.
LEMMA VisitLabelDeclHolds ==
  ASSUME BInv, NEW l \in Labels, VisitLabelDecl(l)
  PROVE  /\ Held(g', stack', pending')
         /\ (\A m \in Labels \ {l} : pending[m] = << >>) => Fine(g')
         /\ Fine(g') \/ g'.ice = "num_pending_gotos() == 0"
<1> DEFINE new == Fresh(g)
           h   == GotoIfOpen(Create(g), curr, new)
           ps  == pending[l]
           r   == SetGotos(h, ps, new)
           a   == "num_pending_gotos() == 0"
           e   == << >>
<1>1. /\ Running /\ Room(1) /\ stack' = stack /\ pending' = [pending EXCEPT ![l] = e]
      /\ g' = r \/ g' = Fail(r, a)
      /\ (\A m \in Labels \ {l} : pending[m] = << >>) => g' = r
  BY DEF VisitLabelDecl
<1>2. Follows(g, h) /\ Balanced(h) /\ Lacks(h) = Lacks(g) /\ new \in Blocks(h)
  BY <1>1, EnteredFollows
<1>3. Tracks(g, h)
  BY <1>2, FollowsTracks
<1> HIDE DEF new, h
<1>4. ps \in Seq(Blk) /\ GotosOK(h, ps)
  BY <1>3, KindsTracked
<1>5. \A b \in Elems(ps) : b \in Blk /\ h.kind[b] = "goto" /\ Lacks(h)[b] = 1
  BY <1>2, <1>4, ElemsIn, DebtKnown DEF GotosOK
<1>6. /\ Follows(h, r)
      /\ Lacks(r) = [c \in Blk |-> IF c \in Elems(ps) THEN 0 ELSE Lacks(h)[c]]
  BY <1>2, <1>4, <1>5, SetGotosFollow DEF GotosOK
<1> HIDE DEF r
<1>7. Follows(g, r)
  BY <1>2, <1>6, StateFacts, FollowsTrans
<1>8. a \in Assertions
  BY DEF Assertions
<1>9. Tracks(g, Fail(r, a)) /\ Lacks(Fail(r, a)) = Lacks(r) /\ Fail(r, a).ice = a
  BY <1>7, <1>8, FailTracks
<1>10. Tracks(g, g') /\ Lacks(g') = Lacks(r)
  BY <1>1, <1>7, <1>9, FollowsTracks
<1>11. e \in Seq(Blk) /\ Elems(e) = {} /\ GotosOK(g', e)
  BY DEF Elems, GotosOK, Single
<1> HIDE DEF e, a
<1>12. ASSUME NEW c \in Blk
       PROVE  \/ (c \in Elems(e) <=> c \in Elems(pending[l])) /\ Lacks(g')[c] = Lacks(g)[c]
              \/ /\ c \in Elems(pending[l]) \/ Lacks(g)[c] = 0
                 /\ Lacks(g')[c] = IF c \in Elems(e) THEN 1 ELSE 0
  <2>1. Lacks(g')[c] = IF c \in Elems(ps) THEN 0 ELSE Lacks(g)[c]
    BY <1>2, <1>6, <1>10
  <2> QED
    BY <1>11, <2>1
<1>13. Held(g', stack, [pending EXCEPT ![l] = e])
  BY <1>10, <1>11, <1>12, HeldWait
<1>14. Fine(r)
  BY <1>1, <1>7, RunningFacts, FineFollows
<1>15. Held(g', stack', pending')
  BY <1>1, <1>13
<1>16. Fine(g') \/ g'.ice = a
  BY <1>1, <1>9, <1>14
<1>17. (\A m \in Labels \ {l} : pending[m] = << >>) => Fine(g')
  BY <1>1, <1>14
<1> QED
  BY <1>15, <1>16, <1>17 DEF a


\* A case outside a switch, or a break or continue outside a loop: assertions that
\* only a source the earlier passes reject makes fail.
Misplaced ==
  { "unable to find switch NestedStmtInfo", "unable to find loop NestedStmtInfo",
    "unable to find loop or switch NestedStmtInfo" }

LEMMA MisplacedHolds ==
  ASSUME BInv, NEW h, Follows(g, h), Lacks(h) = Lacks(g), NEW a \in Misplaced
  PROVE  Held(Fail(h, a), stack, pending) /\ Fail(h, a).ice \in Misplaced
<1>1. a \in Assertions
  BY DEF Misplaced, Assertions
<1>2. Tracks(g, Fail(h, a)) /\ Lacks(Fail(h, a)) = Lacks(h) /\ Fail(h, a).ice = a
  BY <1>1, FailTracks
<1> QED
  BY <1>2, HeldSame

LEMMA VisitCaseHolds ==
  ASSUME BInv, VisitCase
  PROVE  /\ Held(g', stack', pending')
         /\ FindInfo({"switch"}) # 0 => Fine(g')
         /\ Fine(g') \/ g'.ice \in Misplaced
<1> DEFINE new == Fresh(g)
           h   == GotoIfOpen(Create(g), curr, new)
           sw  == FindInfo({"switch"})
           f   == stack[sw]
           a   == "unable to find switch NestedStmtInfo"
<1>1. /\ Running /\ Room(1) /\ stack' = stack /\ pending' = pending
      /\ sw = 0 => g' = Fail(h, a)
      /\ sw # 0 => g' = AddCase(h, f.blk, new)
  BY DEF VisitCase
<1>2. Follows(g, h) /\ Balanced(h) /\ Lacks(h) = Lacks(g) /\ new \in Blocks(h)
  BY <1>1, EnteredFollows
<1> HIDE DEF new, h
<1>3. CASE sw = 0
  <2>1. a \in Misplaced
    BY DEF Misplaced
  <2>2. Held(Fail(h, a), stack, pending) /\ Fail(h, a).ice \in Misplaced
    BY <1>2, <2>1, MisplacedHolds
  <2> QED
    BY <1>1, <1>3, <2>2
<1>4. CASE sw # 0
  <2>1. sw \in 1 .. Len(stack) /\ f.stmt = "switch"
    BY <1>4, StateFacts, FindsInfo
  <2>2. FrameKinds(h, f) /\ FrameOK(g, f)
    BY <1>2, <2>1, FollowsTracks, KindsTracked DEF BInv, IInv, StackOK
  <2> HIDE DEF sw
  <2>3. f.blk \in Blocks(h) /\ h.kind[f.blk] = "switch"
    <3>1. f.blk \in Blocks(g) /\ h.kind[f.blk] = "switch"
      BY <2>1, <2>2 DEF FrameKinds, FrameOK, Linkable
    <3>2. g.n <= h.n /\ g.n \in Nat /\ h.n \in Nat
      BY <1>2, BlocksType, StateFacts DEF Follows, Extends, Balanced, GraphOK
    <3> QED
      BY <3>1, <3>2 DEF Blocks
  <2> DEFINE b == f.blk
             r == AddCase(h, b, new)
  <2>4. b \in Blocks(h) /\ h.kind[b] = "switch"
    BY <2>3
  <2> HIDE DEF b
  <2>5. Follows(h, r) /\ Lacks(r) = Lacks(h)
    BY <1>2, <2>4, AddCaseFollows
  <2> HIDE DEF r
  <2>6. Follows(g, r) /\ Lacks(r) = Lacks(g)
    BY <1>2, <2>5, StateFacts, FollowsTrans
  <2>7. Held(r, stack, pending) /\ Fine(r)
    BY <1>1, <2>6, FollowsTracks, HeldSame, RunningFacts, FineFollows
  <2>8. g' = r
    BY <1>1, <1>4 DEF r, b
  <2> QED
    BY <1>1, <2>7, <2>8
<1> QED
  BY <1>3, <1>4

LEMMA VisitContinueHolds ==
  ASSUME BInv, VisitContinue
  PROVE  /\ Held(g', stack', pending')
         /\ FindInfo({"loop"}) # 0 => Fine(g')
         /\ Fine(g') \/ g'.ice \in Misplaced
<1> DEFINE i == FindInfo({"loop"})
           f == stack[i]
           h == OpenGraph
           b == OpenBlock
           t == ContinueTarget(f)
           a == "unable to find loop NestedStmtInfo"
<1>1. /\ Running /\ Room(Opens) /\ stack' = stack /\ pending' = pending
      /\ i = 0 => g' = Fail(h, a)
      /\ i # 0 => g' = GotoTo(h, b, t)
  BY DEF VisitContinue
<1>2. /\ Follows(g, h) /\ Lacks(h) = Lacks(g)
      /\ b \in Blocks(h) /\ ~Terminated(h, b)
  BY <1>1, StateFacts, OpenFollows
<1>3. Balanced(h)
  BY <1>2 DEF Follows
<1> HIDE DEF h, b
<1>4. CASE i = 0
  <2>1. a \in Misplaced
    BY DEF Misplaced
  <2>2. Held(Fail(h, a), stack, pending) /\ Fail(h, a).ice \in Misplaced
    BY <1>2, <2>1, MisplacedHolds
  <2> QED
    BY <1>1, <1>4, <2>2
<1>5. CASE i # 0
  <2>1. i \in 1 .. Len(stack) /\ f.stmt = "loop"
    BY <1>5, StateFacts, FindsInfo
  <2>2. FrameOK(g, f)
    BY <2>1 DEF BInv, IInv, StackOK
  <2> HIDE DEF i
  <2>3. t \in Blocks(h)
    <3>1. t \in Blocks(g)
      BY <2>1, <2>2 DEF FrameOK, ContinueTarget
    <3>2. g.n <= h.n /\ g.n \in Nat /\ h.n \in Nat
      BY <1>2, <1>3, BlocksType, StateFacts DEF Follows, Extends, Balanced, GraphOK
    <3> QED
      BY <3>1, <3>2 DEF Blocks
  <2> HIDE DEF t
  <2> DEFINE r == GotoTo(h, b, t)
  <2>4. Follows(h, r) /\ Lacks(r) = Lacks(h)
    BY <1>2, <1>3, <2>3, GotoFollows
  <2> HIDE DEF r
  <2>5. Follows(g, r) /\ Lacks(r) = Lacks(g)
    BY <1>2, <2>4, StateFacts, FollowsTrans
  <2>6. Held(r, stack, pending) /\ Fine(r)
    BY <1>1, <2>5, FollowsTracks, HeldSame, RunningFacts, FineFollows
  <2>7. g' = r
    BY <1>1, <1>5 DEF r
  <2> QED
    BY <1>1, <2>6, <2>7
<1> QED
  BY <1>4, <1>5


\* A frame that remembers one more block to link to what follows its statement.
LEMMA MergesAppend ==
  ASSUME NEW h, NEW f \in Frames, f.stmt \in {"loop", "switch"}, FrameKinds(h, f), NEW b \in Blk,
         Owe(f, b) = 0, h.kind[b] = "goto", NEW e, e = [f EXCEPT !.merges = Append(f.merges, b)]
  PROVE  /\ e \in Frames /\ e.stmt = f.stmt /\ FrameKinds(h, e)
         /\ Owe(e, b) = 1 /\ \A c \in Blk : c # b => Owe(e, c) = Owe(f, c)
<1> DEFINE s == Append(f.merges, b)
<1>0. e = [f EXCEPT !.merges = s]
  OBVIOUS
<1>1. f.merges \in Seq(Blk) /\ GotosOK(h, f.merges)
  BY FrameFields DEF FrameKinds
<1>2. b \notin Elems(f.merges) /\ (f.stmt = "loop" => b # f.entry)
  BY DEF Owe
<1>3. GotosOK(h, s) /\ s \in Seq(Blk) /\ Elems(s) = Elems(f.merges) \cup {b}
  BY <1>1, <1>2, GotosAppend
<1> HIDE DEF s
<1>4. CASE f.stmt = "loop"
  <2>1. f \in LoopFrames
    BY <1>4, FrameTypes
  <2>2. /\ e \in LoopFrames /\ e.stmt = "loop" /\ e.merges = s
        /\ e.entry = f.entry /\ e.cond = f.cond /\ e.condExit = f.condExit
    BY <1>0, <1>3, <1>4, <2>1 DEF LoopFrames
  <2>3. FrameKinds(h, e)
    BY <1>2, <1>3, <1>4, <2>2 DEF FrameKinds
  <2>4. Owe(e, b) = 1 /\ \A c \in Blk : c # b => Owe(e, c) = Owe(f, c)
    BY <1>3, <1>4, <2>2 DEF Owe
  <2>5. e \in Frames /\ e.stmt = f.stmt
    BY <1>4, <2>2 DEF Frames
  <2> QED
    BY <2>3, <2>4, <2>5
<1>5. CASE f.stmt = "switch"
  <2>1. f \in SwitchFrames
    BY <1>5, FrameTypes
  <2>2. e \in SwitchFrames /\ e.stmt = "switch" /\ e.merges = s /\ e.blk = f.blk
    BY <1>0, <1>3, <1>5, <2>1 DEF SwitchFrames
  <2>3. FrameKinds(h, e)
    BY <1>3, <1>5, <2>2 DEF FrameKinds
  <2>4. Owe(e, b) = 1 /\ \A c \in Blk : c # b => Owe(e, c) = Owe(f, c)
    BY <1>3, <1>5, <2>2 DEF Owe
  <2>5. e \in Frames /\ e.stmt = f.stmt
    BY <1>5, <2>2 DEF Frames
  <2> QED
    BY <2>3, <2>4, <2>5
<1> QED
  BY <1>4, <1>5

LEMMA VisitBreakHolds ==
  ASSUME BInv, VisitBreak
  PROVE  /\ Held(g', stack', pending')
         /\ FindInfo({"loop", "switch"}) # 0 => Fine(g')
         /\ Fine(g') \/ g'.ice \in Misplaced
<1> DEFINE i == FindInfo({"loop", "switch"})
           f == stack[i]
           b == OpenBlock
           h == Terminate(OpenGraph, b, "goto")
           e == [f EXCEPT !.merges = Append(f.merges, b)]
           a == "unable to find loop or switch NestedStmtInfo"
<1>1. /\ Running /\ Room(Opens) /\ pending' = pending
      /\ i = 0 => g' = Fail(OpenGraph, a) /\ stack' = stack
      /\ i # 0 => g' = h /\ stack' = [stack EXCEPT ![i].merges = Append(@, b)]
  BY DEF VisitBreak
<1>2. CASE i = 0
  <2>1. a \in Misplaced
    BY DEF Misplaced
  <2>2. Follows(g, OpenGraph) /\ Lacks(OpenGraph) = Lacks(g)
    BY <1>1, StateFacts, OpenFollows
  <2>3. Held(Fail(OpenGraph, a), stack, pending) /\ Fail(OpenGraph, a).ice \in Misplaced
    BY <2>1, <2>2, MisplacedHolds
  <2> QED
    BY <1>1, <1>2, <2>3
<1>3. CASE i # 0
  <2>1. i \in 1 .. Len(stack) /\ f.stmt \in {"loop", "switch"}
    BY <1>3, StateFacts, FindsInfo
  <2>2. f \in Frames /\ stack \in Seq(Frames)
    BY <2>1, StateFacts, ElementOfSeq
  <2>3. g' = h /\ stack' = [stack EXCEPT ![i] = e]
    BY <1>1, <1>3, <2>1, <2>2
  <2>4. /\ Follows(g, h) /\ h.kind[b] = "goto" /\ Lacks(g)[b] = 0 /\ b \in Blk
        /\ Lacks(h) = [Lacks(g) EXCEPT ![b] = 1]
    <3>1. "goto" \in Kinds \ {"none"} /\ Len(NullTargets("goto")) = 1
      BY DEF Kinds, NullTargets
    <3>2. /\ Follows(g, h) /\ h.kind[b] = "goto" /\ Lacks(g)[b] = 0 /\ b \in Blk
          /\ Lacks(h) = [Lacks(g) EXCEPT ![b] = Len(NullTargets("goto"))]
      BY <1>1, <3>1, EndedFollows
    <3> QED
      BY <3>1, <3>2
  <2> HIDE DEF h, i, b
  <2>5. FrameKinds(h, f)
    BY <2>1, <2>4, FollowsTracks, KindsTracked
  <2>6. Owe(f, b) = 0
    BY <2>1, <2>4, DebtKnown
  <2>7. /\ e \in Frames /\ e.stmt = f.stmt /\ FrameKinds(h, e)
        /\ Owe(e, b) = 1 /\ \A c \in Blk : c # b => Owe(e, c) = Owe(f, c)
    <3>1. f \in Frames /\ f.stmt \in {"loop", "switch"} /\ FrameKinds(h, f) /\ Owe(f, b) = 0
      BY <2>1, <2>2, <2>5, <2>6
    <3>2. e = [f EXCEPT !.merges = Append(f.merges, b)]
      OBVIOUS
    <3> HIDE DEF f, e
    <3> QED
      BY <2>4, <3>1, <3>2, MergesAppend
  <2> HIDE DEF e
  <2>8. ASSUME NEW c \in Blk
        PROVE  \/ Owe(e, c) = Owe(stack[i], c) /\ Lacks(h)[c] = Lacks(g)[c]
               \/ (Owe(stack[i], c) # 0 \/ Lacks(g)[c] = 0) /\ Lacks(h)[c] = Owe(e, c)
    <3>1. Lacks(h)[c] = IF c = b THEN 1 ELSE Lacks(g)[c]
      BY <2>4 DEF Lacks
    <3> QED
      BY <2>4, <2>7, <3>1
  <2>9. Held(h, [stack EXCEPT ![i] = e], pending)
    BY <2>1, <2>4, <2>7, <2>8, FollowsTracks, HeldSet
  <2>10. Fine(h)
    BY <1>1, <2>4, RunningFacts, FineFollows
  <2> QED
    BY <1>1, <2>3, <2>9, <2>10
<1> QED
  BY <1>2, <1>3


LEMMA FollowsBlocks ==
  ASSUME NEW h, Balanced(h), NEW r, Follows(h, r)
  PROVE  Blocks(h) \subseteq Blocks(r) /\ Balanced(r) /\ Blocks(r) \subseteq Blk
<1>1. h.n <= r.n /\ h.n \in Nat /\ r.n \in Nat /\ Balanced(r)
  BY BlocksType DEF Follows, Extends, Balanced, GraphOK
<1> QED
  BY <1>1, BlocksType DEF Blocks, Balanced, GraphOK

LEMMA TopFacts ==
  ASSUME BInv, stack # << >>
  PROVE  /\ Len(stack) \in 1 .. Len(stack) /\ Top = stack[Len(stack)] /\ Top \in Frames
         /\ FrameOK(g, Top)
         /\ \A r : Tracks(g, r) => FrameKinds(r, Top)
         /\ \A b \in Blk : Owe(Top, b) # 0 => Lacks(g)[b] = Owe(Top, b)
<1>1. stack \in Seq(Frames) /\ StackOK(g, stack)
  BY StateFacts DEF BInv, IInv
<1>2. Len(stack) \in 1 .. Len(stack) /\ Top = stack[Len(stack)] /\ Top \in Frames /\ FrameOK(g, Top)
  BY <1>1, StackTop
<1>3. ASSUME NEW r, Tracks(g, r) PROVE FrameKinds(r, Top)
  BY <1>2, <1>3, KindsTracked
<1>4. ASSUME NEW b \in Blk, Owe(Top, b) # 0 PROVE Lacks(g)[b] = Owe(Top, b)
  BY <1>2, <1>4, DebtKnown
<1> QED
  BY <1>2, <1>3, <1>4

\* Room for one more block is what Create asks for.
LEMMA RoomForOne ==
  ASSUME BInv, Room(1)
  PROVE  LET c == Create(g)
         IN  /\ Follows(g, c) /\ Lacks(c) = Lacks(g) /\ Balanced(c) /\ Fresh(g) \in Blocks(c)
             /\ Blocks(g) \subseteq Blocks(c)
<1> DEFINE c == Create(g)
<1>1. g.n < MaxBlocks
  BY StateFacts DEF Room
<1>2. Follows(g, c) /\ Lacks(c) = Lacks(g) /\ Fresh(g) \in Blocks(c)
  BY <1>1, StateFacts, CreateFollows
<1> HIDE DEF c
<1>3. Balanced(c) /\ Blocks(g) \subseteq Blocks(c)
  BY <1>2, StateFacts, FollowsBlocks
<1> QED
  BY <1>2, <1>3 DEF c

LEMMA EnterElseHolds ==
  ASSUME BInv, EnterElse
  PROVE  Held(g', stack', pending') /\ Fine(g')
<1> DEFINE c == Create(g)
           b == Top.blk
           n == Fresh(g)
           r == SetElse(c, b, n)
           i == Len(stack)
           f == [Top EXCEPT !.thenExit = curr, !.inElse = TRUE]
<1>1. /\ Running /\ Room(1) /\ Top.stmt = "if" /\ ~Top.inElse /\ pending' = pending
      /\ g' = r /\ stack' = [stack EXCEPT ![i] = f]
  BY DEF EnterElse, SetTop
<1>2. /\ Follows(g, c) /\ Lacks(c) = Lacks(g) /\ Balanced(c) /\ n \in Blocks(c)
      /\ Blocks(g) \subseteq Blocks(c)
  BY <1>1, RoomForOne
<1>3. i \in 1 .. i /\ Top = stack[i] /\ Top \in Frames /\ FrameOK(g, Top) /\ Top \in IfFrames
  BY <1>1, RunningFacts, TopFacts, FrameTypes
<1>4. b \in Blocks(c) /\ b \in Blk
  BY <1>1, <1>2, <1>3 DEF FrameOK, Linkable, IfFrames
<1>5. c.kind[b] = "if"
  BY <1>1, <1>2, FollowsTracks, RunningFacts, TopFacts DEF FrameKinds
<1>6. Lacks(c)[b] = 1
  <2>1. Owe(Top, b) = 1
    BY <1>1 DEF Owe
  <2> QED
    BY <1>1, <1>2, <1>4, <2>1, RunningFacts, TopFacts
<1>7. f \in IfFrames /\ f.stmt = "if" /\ f.blk = b /\ f.inElse
  BY <1>3, StateFacts DEF IfFrames
<1> HIDE DEF c, n, b, f
<1>8. Follows(c, r) /\ r.kind = c.kind /\ Lacks(r) = [Lacks(c) EXCEPT ![b] = 0]
  BY <1>2, <1>4, <1>5, <1>6, SetElseFollows
<1> HIDE DEF r
<1>9. Follows(g, r) /\ Tracks(g, r)
  BY <1>2, <1>8, StateFacts, FollowsTrans, FollowsTracks
<1>10. FrameKinds(r, f)
  BY <1>5, <1>7, <1>8 DEF FrameKinds
<1>11. ASSUME NEW d \in Blk
       PROVE  \/ Owe(f, d) = Owe(stack[i], d) /\ Lacks(r)[d] = Lacks(g)[d]
              \/ (Owe(stack[i], d) # 0 \/ Lacks(g)[d] = 0) /\ Lacks(r)[d] = Owe(f, d)
  <2>1. Lacks(r)[d] = IF d = b THEN 0 ELSE Lacks(g)[d]
    BY <1>2, <1>8 DEF Lacks
  <2>2. Owe(f, d) = 0
    BY <1>7 DEF Owe
  <2>3. Owe(Top, d) = IF d = b THEN 1 ELSE 0
    BY <1>1 DEF Owe, b
  <2> QED
    BY <1>3, <2>1, <2>2, <2>3
<1>12. f \in Frames /\ f.stmt = stack[i].stmt /\ i \in 1 .. Len(stack)
  BY <1>1, <1>3, <1>7 DEF Frames
<1> HIDE DEF i
<1>13. Held(r, [stack EXCEPT ![i] = f], pending)
  BY <1>9, <1>10, <1>11, <1>12, HeldSet
<1>14. Fine(r)
  BY <1>1, <1>9, RunningFacts, FineFollows
<1> QED
  BY <1>1, <1>13, <1>14 DEF r, c, n, b

LEMMA ExitIfNoElseHolds ==
  ASSUME BInv, ExitIfNoElse
  PROVE  Held(g', stack', pending') /\ Fine(g')
<1> DEFINE n == Fresh(g)
           h == GotoIfOpen(Create(g), curr, n)
           b == Top.blk
           r == SetElse(h, b, n)
<1>1. /\ Running /\ Room(1) /\ Top.stmt = "if" /\ ~Top.inElse /\ pending' = pending
      /\ g' = r /\ stack' = Pop
  BY DEF ExitIfNoElse
<1>2. /\ Follows(g, h) /\ Balanced(h) /\ Lacks(h) = Lacks(g) /\ n \in Blocks(h)
      /\ Blocks(g) \subseteq Blocks(h)
  BY <1>1, EnteredFollows
<1>3. FrameOK(g, Top) /\ Top \in IfFrames
  BY <1>1, RunningFacts, TopFacts, FrameTypes
<1>4. b \in Blocks(h) /\ b \in Blk
  BY <1>1, <1>2, <1>3 DEF FrameOK, Linkable, IfFrames
<1>5. h.kind[b] = "if"
  BY <1>1, <1>2, FollowsTracks, RunningFacts, TopFacts DEF FrameKinds
<1>6. Lacks(h)[b] = 1
  <2>1. Owe(Top, b) = 1
    BY <1>1 DEF Owe
  <2> QED
    BY <1>1, <1>2, <1>4, <2>1, RunningFacts, TopFacts
<1> HIDE DEF h, n, b
<1>7. Follows(h, r) /\ Lacks(r) = [Lacks(h) EXCEPT ![b] = 0]
  BY <1>2, <1>4, <1>5, <1>6, SetElseFollows
<1> HIDE DEF r
<1>8. Follows(g, r) /\ Tracks(g, r)
  BY <1>2, <1>7, StateFacts, FollowsTrans, FollowsTracks
<1>9. ASSUME NEW d \in Blk
      PROVE  \/ Owe(Top, d) = 0 /\ Lacks(r)[d] = Lacks(g)[d]
             \/ Owe(Top, d) # 0 /\ Lacks(r)[d] = 0
  <2>1. Lacks(r)[d] = IF d = b THEN 0 ELSE Lacks(g)[d]
    BY <1>2, <1>7 DEF Lacks
  <2>2. Owe(Top, d) = IF d = b THEN 1 ELSE 0
    BY <1>1 DEF Owe, b
  <2> QED
    BY <2>1, <2>2
<1>10. Held(r, Pop, pending)
  BY <1>1, <1>8, <1>9, RunningFacts, HeldPop
<1>11. Fine(r)
  BY <1>1, <1>8, RunningFacts, FineFollows
<1> QED
  BY <1>1, <1>10, <1>11 DEF r, h, n, b

\* Both branches are built: the frame remembers no terminator any more.
LEMMA ElseOwesNothing ==
  ASSUME BInv, stack # << >>, Top.stmt = "if", Top.inElse, NEW r, Follows(g, r),
         Lacks(r) = Lacks(g)
  PROVE  Held(r, Pop, pending)
<1>1. \A d \in Blk : Owe(Top, d) = 0
  BY DEF Owe
<1> QED
  BY <1>1, FollowsTracks, HeldPop

LEMMA ExitIfBothEndedHolds ==
  ASSUME BInv, ExitIfBothEnded
  PROVE  Held(g', stack', pending') /\ Fine(g')
<1>1. /\ Running /\ Top.stmt = "if" /\ Top.inElse /\ pending' = pending
      /\ g' = g /\ stack' = Pop
  BY DEF ExitIfBothEnded
<1>2. Held(g, Pop, pending)
  BY <1>1, RunningFacts, StateFacts, FollowsRefl, ElseOwesNothing
<1> QED
  BY <1>1, <1>2, RunningFacts

LEMMA ExitIfMergeHolds ==
  ASSUME BInv, ExitIfMerge
  PROVE  Held(g', stack', pending') /\ Fine(g')
<1> DEFINE c == Create(g)
           n == Fresh(g)
           b == Top.thenExit
           h == GotoIfOpen(c, b, n)
           r == GotoIfOpen(h, curr, n)
<1>1. /\ Running /\ Room(1) /\ Top.stmt = "if" /\ Top.inElse /\ pending' = pending
      /\ g' = r /\ stack' = Pop
  BY DEF ExitIfMerge
<1>2. /\ Follows(g, c) /\ Lacks(c) = Lacks(g) /\ Balanced(c) /\ n \in Blocks(c)
      /\ Blocks(g) \subseteq Blocks(c)
  BY <1>1, RoomForOne
<1>3. b \in Blocks(c) /\ curr \in Blocks(c)
  BY <1>1, <1>2, RunningFacts, TopFacts, StateFacts DEF FrameOK
<1> HIDE DEF c, n, b
<1>4. Follows(c, h) /\ Lacks(h) = Lacks(c)
  BY <1>2, <1>3, GotoFollows
<1> HIDE DEF h
<1>5. Balanced(h) /\ n \in Blocks(h) /\ curr \in Blocks(h)
  BY <1>2, <1>3, <1>4, FollowsBlocks
<1>6. Follows(h, r) /\ Lacks(r) = Lacks(h)
  BY <1>5, GotoFollows
<1> HIDE DEF r
<1>7. Follows(g, r) /\ Lacks(r) = Lacks(g)
  <2>1. Follows(g, h)
    BY <1>2, <1>4, StateFacts, FollowsTrans
  <2> QED
    BY <1>2, <1>4, <1>6, <2>1, StateFacts, FollowsTrans
<1>8. Held(r, Pop, pending)
  BY <1>1, <1>7, RunningFacts, ElseOwesNothing
<1>9. Fine(r)
  BY <1>1, <1>7, RunningFacts, FineFollows
<1> QED
  BY <1>1, <1>8, <1>9 DEF r, h, c, n, b


LEMMA EnterIfHolds ==
  ASSUME BInv, NEW br \in BOOLEAN, EnterIf(br)
  PROVE  Held(g', stack', pending') /\ Fine(g')
<1> DEFINE h == EvalGraph(OpenGraph, OpenBlock, br)
           b == EvalBlock(OpenGraph, OpenBlock, br)
           c == Create(h)
           n == Fresh(h)
           t == Terminate(c, b, "if")
           r == SetThen(t, b, n)
           f == [stmt |-> "if", blk |-> b, thenExit |-> Null, inElse |-> FALSE]
<1>1. /\ Running /\ Room(Opens + EvalSize(br) + 1) /\ pending' = pending
      /\ g' = r /\ stack' = Push(f)
  BY DEF EnterIf
<1>2. /\ Follows(g, h) /\ Lacks(h) = Lacks(g) /\ Balanced(h)
      /\ b \in Blocks(h) /\ ~Terminated(h, b) /\ h.n + 1 <= MaxBlocks
  BY <1>1, StateFacts, OpenEvalFollows
<1> HIDE DEF h, b
<1>3. /\ Follows(h, c) /\ Lacks(c) = Lacks(h) /\ c.kind = h.kind /\ n \in Blocks(c)
      /\ Balanced(c) /\ b \in Blocks(c) /\ b \in Blk
  <2>1. h.n < MaxBlocks
    BY <1>2, BlocksType, StateFacts DEF Balanced, GraphOK
  <2>2. Follows(h, c) /\ Lacks(c) = Lacks(h) /\ c.kind = h.kind /\ n \in Blocks(c)
    BY <1>2, <2>1, CreateFollows
  <2> HIDE DEF c
  <2>3. Balanced(c) /\ b \in Blocks(c) /\ b \in Blk
    BY <1>2, <2>2, FollowsBlocks
  <2> QED
    BY <2>2, <2>3 DEF c
<1>4. ~Terminated(c, b)
  BY <1>2, <1>3 DEF Terminated
<1> HIDE DEF c, n
<1>5. /\ Follows(c, t) /\ t.kind = [c.kind EXCEPT ![b] = "if"]
      /\ Lacks(t) = [Lacks(c) EXCEPT ![b] = 2]
  <2>1. "if" \in Kinds \ {"none"} /\ Len(NullTargets("if")) = 2
    BY DEF Kinds, NullTargets
  <2>2. /\ Follows(c, t) /\ t.kind = [c.kind EXCEPT ![b] = "if"]
        /\ Lacks(t) = [Lacks(c) EXCEPT ![b] = Len(NullTargets("if"))]
    BY <1>3, <1>4, <2>1, TerminateFollows
  <2> QED
    BY <2>1, <2>2
<1> HIDE DEF t
<1>6. Balanced(t) /\ b \in Blocks(t) /\ n \in Blocks(t)
  BY <1>3, <1>5, FollowsBlocks
<1>7. t.kind[b] = "if" /\ Lacks(t)[b] = 2
  BY <1>3, <1>5, GraphFields DEF Balanced, Lacks
<1>8. Follows(t, r) /\ r.kind = t.kind /\ Lacks(r) = [Lacks(t) EXCEPT ![b] = 1]
  BY <1>6, <1>7, SetThenFollows
<1> HIDE DEF r
<1>9. Follows(g, r) /\ Tracks(g, r)
  <2>1. Follows(g, c)
    BY <1>2, <1>3, StateFacts, FollowsTrans
  <2>2. Follows(g, t)
    BY <1>5, <2>1, StateFacts, FollowsTrans
  <2> QED
    BY <1>8, <2>2, StateFacts, FollowsTrans, FollowsTracks
<1>10. Lacks(g)[b] = 0
  BY <1>2, <1>3, LackType
<1>11. f \in IfFrames /\ f.stmt = "if" /\ f.blk = b /\ ~f.inElse
  BY <1>3 DEF IfFrames
<1> HIDE DEF f
<1>12. FrameKinds(r, f) /\ f \in Frames
  BY <1>7, <1>8, <1>11 DEF FrameKinds, Frames
<1>13. ASSUME NEW d \in Blk
       PROVE  \/ Owe(f, d) = 0 /\ Lacks(r)[d] = Lacks(g)[d]
              \/ Lacks(g)[d] = 0 /\ Lacks(r)[d] = Owe(f, d)
  <2>1. Lacks(r)[d] = IF d = b THEN 1 ELSE Lacks(g)[d]
    <3> HIDE DEF h, c, t, r
    <3>1. Lacks(h)[d] = Lacks(g)[d] /\ Lacks(c)[d] = Lacks(h)[d]
      BY <1>2, <1>3
    <3>2. Lacks(t)[d] = IF d = b THEN 2 ELSE Lacks(c)[d]
      BY <1>5 DEF Lacks
    <3>3. Lacks(r)[d] = IF d = b THEN 1 ELSE Lacks(t)[d]
      BY <1>8 DEF Lacks
    <3> QED
      BY <3>1, <3>2, <3>3
  <2>2. Owe(f, d) = IF d = b THEN 1 ELSE 0
    BY <1>11 DEF Owe
  <2> QED
    BY <1>10, <2>1, <2>2
<1>14. Held(r, Push(f), pending)
  BY <1>9, <1>11, <1>12, <1>13, HeldPush
<1>15. Fine(r)
  BY <1>1, <1>9, RunningFacts, FineFollows
<1> QED
  BY <1>1, <1>14, <1>15 DEF r, t, c, n, h, b, f

LEMMA EnterSwitchHolds ==
  ASSUME BInv, NEW br \in BOOLEAN, EnterSwitch(br)
  PROVE  Held(g', stack', pending') /\ Fine(g')
<1> DEFINE h == EvalGraph(OpenGraph, OpenBlock, br)
           b == EvalBlock(OpenGraph, OpenBlock, br)
           r == Terminate(h, b, "switch")
           e == << >>
           f == [stmt |-> "switch", blk |-> b, merges |-> e]
<1>1. /\ Running /\ Room(Opens + EvalSize(br)) /\ pending' = pending
      /\ g' = r /\ stack' = Push(f)
  BY DEF EnterSwitch
<1>2. /\ Follows(g, h) /\ Lacks(h) = Lacks(g) /\ Balanced(h)
      /\ b \in Blocks(h) /\ ~Terminated(h, b)
  <2>1. Room(Opens + EvalSize(br) + 0)
    BY <1>1 DEF Room, Opens, EvalSize
  <2> QED
    BY <2>1, StateFacts, OpenEvalFollows
<1> HIDE DEF h, b
<1>3. /\ Follows(h, r) /\ r.kind = [h.kind EXCEPT ![b] = "switch"]
      /\ Lacks(r) = [Lacks(h) EXCEPT ![b] = 0] /\ b \in Blk
  <2>1. "switch" \in Kinds \ {"none"} /\ Len(NullTargets("switch")) = 0
    BY DEF Kinds, NullTargets
  <2>2. /\ Follows(h, r) /\ r.kind = [h.kind EXCEPT ![b] = "switch"] /\ b \in Blk
        /\ Lacks(r) = [Lacks(h) EXCEPT ![b] = Len(NullTargets("switch"))]
    BY <1>2, <2>1, TerminateFollows
  <2> QED
    BY <2>1, <2>2
<1> HIDE DEF r
<1>4. Follows(g, r) /\ Tracks(g, r)
  BY <1>2, <1>3, StateFacts, FollowsTrans, FollowsTracks
<1>5. r.kind[b] = "switch" /\ Lacks(g)[b] = 0
  BY <1>2, <1>3, LackType, GraphFields DEF Balanced
<1>6. e \in Seq(Blk) /\ Elems(e) = {} /\ GotosOK(r, e)
  BY DEF Elems, GotosOK, Single
<1> HIDE DEF e
<1>7. f \in SwitchFrames /\ f.stmt = "switch" /\ f.blk = b /\ f.merges = e
  BY <1>3, <1>6 DEF SwitchFrames
<1> HIDE DEF f
<1>8. FrameKinds(r, f) /\ f \in Frames
  BY <1>5, <1>6, <1>7 DEF FrameKinds, Frames
<1>9. ASSUME NEW d \in Blk
      PROVE  \/ Owe(f, d) = 0 /\ Lacks(r)[d] = Lacks(g)[d]
             \/ Lacks(g)[d] = 0 /\ Lacks(r)[d] = Owe(f, d)
  <2>1. Lacks(r)[d] = IF d = b THEN 0 ELSE Lacks(g)[d]
    BY <1>2, <1>3 DEF Lacks
  <2>2. Owe(f, d) = 0
    BY <1>6, <1>7 DEF Owe
  <2> QED
    BY <1>5, <2>1, <2>2
<1>10. Held(r, Push(f), pending)
  BY <1>4, <1>7, <1>8, <1>9, HeldPush
<1>11. Fine(r)
  BY <1>1, <1>4, RunningFacts, FineFollows
<1> QED
  BY <1>1, <1>10, <1>11 DEF r, h, b, f, e

LEMMA ExitSwitchHolds ==
  ASSUME BInv, ExitSwitch
  PROVE  Held(g', stack', pending') /\ Fine(g')
<1> DEFINE c  == Create(g)
           n  == Fresh(g)
           ms == Top.merges
           r  == SetGotos(c, ms, n)
<1>1. /\ Running /\ Room(1) /\ Top.stmt = "switch" /\ pending' = pending
      /\ g' = r /\ stack' = Pop
  BY DEF ExitSwitch
<1>2. Follows(g, c) /\ Lacks(c) = Lacks(g) /\ Balanced(c) /\ n \in Blocks(c)
  BY <1>1, RoomForOne
<1>3. ms \in Seq(Blk) /\ GotosOK(c, ms)
  BY <1>1, <1>2, FollowsTracks, RunningFacts, TopFacts, FrameFields DEF FrameKinds
<1>4. \A d \in Blk : Owe(Top, d) = IF d \in Elems(ms) THEN 1 ELSE 0
  BY <1>1 DEF Owe
<1>5. \A d \in Elems(ms) : d \in Blk /\ c.kind[d] = "goto" /\ Lacks(c)[d] = 1
  BY <1>1, <1>2, <1>3, <1>4, ElemsIn, RunningFacts, TopFacts DEF GotosOK
<1> HIDE DEF c, n, ms
<1>6. /\ Follows(c, r)
      /\ Lacks(r) = [d \in Blk |-> IF d \in Elems(ms) THEN 0 ELSE Lacks(c)[d]]
  BY <1>2, <1>3, <1>5, SetGotosFollow DEF GotosOK
<1> HIDE DEF r
<1>7. Follows(g, r) /\ Tracks(g, r)
  BY <1>2, <1>6, StateFacts, FollowsTrans, FollowsTracks
<1>8. ASSUME NEW d \in Blk
      PROVE  \/ Owe(Top, d) = 0 /\ Lacks(r)[d] = Lacks(g)[d]
             \/ Owe(Top, d) # 0 /\ Lacks(r)[d] = 0
  BY <1>2, <1>4, <1>6
<1>9. Held(r, Pop, pending)
  BY <1>1, <1>7, <1>8, RunningFacts, HeldPop
<1>10. Fine(r)
  BY <1>1, <1>7, RunningFacts, FineFollows
<1> QED
  BY <1>1, <1>9, <1>10 DEF r, c, n, ms


\* The init or the step of a loop, when there is one: a block that stays open.
LEMMA PartFollows ==
  ASSUME NEW h, Balanced(h), NEW has \in BOOLEAN, h.n + One(has) <= MaxBlocks
  PROVE  LET r == IF has THEN AddInstruction(Create(h), Fresh(h)) ELSE h
         IN  Follows(h, r) /\ Balanced(r) /\ Lacks(r) = Lacks(h) /\ r.n = h.n + One(has)
<1>1. h.n \in Nat /\ MaxBlocks \in Nat
  BY BlocksType, MaxBlocksAssumption DEF Balanced, GraphOK
<1>2. CASE ~has
  <2>1. One(has) = 0 /\ h.n = h.n + 0
    BY <1>1, <1>2 DEF One
  <2> QED
    BY <1>2, <2>1, FollowsRefl
<1>3. CASE has
  <2> DEFINE c == Create(h)
  <2>1. One(has) = 1
    BY <1>3 DEF One
  <2>2. h.n < MaxBlocks
    BY <1>1, <2>1
  <2>3. Follows(h, c) /\ Lacks(c) = Lacks(h) /\ c.n = h.n + 1 /\ ~Terminated(c, Fresh(h))
    BY <2>2, CreateFollows
  <2> HIDE DEF c
  <2>4. AddInstruction(c, Fresh(h)) = c
    BY <2>3, InstructionFollows
  <2>5. Balanced(c)
    BY <2>3, FollowsBlocks
  <2> QED
    BY <1>3, <2>1, <2>3, <2>4, <2>5 DEF c
<1> QED
  BY <1>2, <1>3

\* The condition, when there is one: it ends in an If that lacks both targets.
LEMMA CondFollows ==
  ASSUME NEW h, Balanced(h), NEW has \in BOOLEAN, NEW br \in BOOLEAN, br => has,
         h.n + (One(has) + EvalSize(br)) <= MaxBlocks
  PROVE  LET x == EvalBlock(Create(h), Fresh(h), br)
             r == IF has THEN Terminate(EvalGraph(Create(h), Fresh(h), br), x, "if") ELSE h
         IN  /\ Follows(h, r) /\ Balanced(r) /\ r.n = h.n + (One(has) + EvalSize(br))
             /\ has => /\ x \in Blk /\ ~Terminated(h, x) /\ Lacks(h)[x] = 0 /\ r.kind[x] = "if"
                       /\ \A b \in Blk : Lacks(r)[b] = IF b = x THEN 2 ELSE Lacks(h)[b]
             /\ ~has => Lacks(r) = Lacks(h)
<1> DEFINE n == Fresh(h)
           c == Create(h)
           x == EvalBlock(c, n, br)
           e == EvalGraph(c, n, br)
           r == Terminate(e, x, "if")
<1>1. h.n \in Nat /\ MaxBlocks \in Nat /\ EvalSize(br) \in Nat
  BY BlocksType, MaxBlocksAssumption DEF Balanced, GraphOK, EvalSize
<1>2. CASE ~has
  <2>1. One(has) = 0 /\ EvalSize(br) = 0 /\ h.n = h.n + (0 + 0)
    BY <1>1, <1>2 DEF One, EvalSize
  <2> QED
    BY <1>2, <2>1, FollowsRefl
<1>3. CASE has
  <2> DEFINE k == EvalSize(br)
  <2>1. One(has) = 1 /\ k \in Nat
    BY <1>1, <1>3 DEF One
  <2>m. h.n + (1 + k) <= MaxBlocks
    BY <2>1
  <2> HIDE DEF k
  <2>2. h.n < MaxBlocks
    BY ONLY <1>1, <2>1, <2>m
  <2>3. /\ Follows(h, c) /\ Lacks(c) = Lacks(h) /\ c.n = h.n + 1
        /\ ~Terminated(c, n) /\ n \in Blocks(c)
    BY <2>2, CreateFollows
  <2> HIDE DEF c, n
  <2>4. Balanced(c)
    BY <2>3, FollowsBlocks
  <2>5. c.n + k <= MaxBlocks
    BY ONLY <1>1, <2>1, <2>3, <2>m
  <2>6. /\ Follows(c, e) /\ Lacks(e) = Lacks(c) /\ e.n = c.n + k
        /\ x \in Blocks(e) /\ ~Terminated(e, x)
    BY <2>3, <2>4, <2>5, EvalFollows DEF k
  <2> HIDE DEF e, x
  <2>7. Balanced(e)
    BY <2>4, <2>6, FollowsBlocks
  <2>8. /\ Follows(e, r) /\ r.n = e.n /\ r.kind = [e.kind EXCEPT ![x] = "if"]
        /\ Lacks(r) = [Lacks(e) EXCEPT ![x] = 2] /\ x \in Blk
    <3>1. "if" \in Kinds \ {"none"} /\ Len(NullTargets("if")) = 2
      BY DEF Kinds, NullTargets
    <3>2. /\ Follows(e, r) /\ r.n = e.n /\ r.kind = [e.kind EXCEPT ![x] = "if"]
          /\ Lacks(r) = [Lacks(e) EXCEPT ![x] = Len(NullTargets("if"))] /\ x \in Blk
      BY <2>6, <2>7, <3>1, TerminateFollows
    <3> QED
      BY <3>1, <3>2
  <2> HIDE DEF r
  <2>9. Follows(h, e) /\ Follows(h, r) /\ Balanced(r)
    BY <2>3, <2>6, <2>7, <2>8, FollowsTrans, FollowsBlocks
  <2>10. ~Terminated(h, x)
    BY <2>6, <2>8, <2>9 DEF Follows, Terminated
  <2>11. Lacks(h)[x] = 0
    BY <2>8, <2>10, LackType
  <2>12. r.n = h.n + (1 + k)
    BY ONLY <1>1, <2>1, <2>3, <2>6, <2>8
  <2>13. r.kind[x] = "if"
    BY <2>7, <2>8, GraphFields DEF Balanced
  <2>14. \A b \in Blk : Lacks(r)[b] = IF b = x THEN 2 ELSE Lacks(h)[b]
    BY <2>3, <2>6, <2>8 DEF Lacks
  <2> QED
    BY <1>3, <2>1, <2>8, <2>9, <2>10, <2>11, <2>12, <2>13, <2>14 DEF r, e, x, c, n, k
<1> QED
  BY <1>2, <1>3

LEMMA EnterLoopHolds ==
  ASSUME BInv, NEW s \in Shapes, NEW br \in BOOLEAN, EnterLoop(s, br)
  PROVE  Held(g', stack', pending') /\ Fine(g')
<1> DEFINE entry == OpenBlock
           g1    == Terminate(OpenGraph, entry, "goto")
           init  == IF s.init THEN Fresh(g1) ELSE Null
           g2    == IF s.init THEN AddInstruction(Create(g1), Fresh(g1)) ELSE g1
           x     == EvalBlock(Create(g2), Fresh(g2), br)
           cond  == IF s.cond THEN Fresh(g2) ELSE Null
           cexit == IF s.cond THEN x ELSE Null
           g3    == IF s.cond
                    THEN Terminate(EvalGraph(Create(g2), Fresh(g2), br), x, "if")
                    ELSE g2
           step  == IF s.step THEN Fresh(g3) ELSE Null
           g4    == IF s.step THEN AddInstruction(Create(g3), Fresh(g3)) ELSE g3
           g5    == Create(g4)
           body  == Fresh(g4)
           e     == << >>
           f     == [stmt |-> "loop", entry |-> entry, init |-> init, initExit |-> init,
                     cond |-> cond, condExit |-> cexit, step |-> step, stepExit |-> step,
                     body |-> body, dowhile |-> s.dowhile, merges |-> e]
<1>0. s.init \in BOOLEAN /\ s.cond \in BOOLEAN /\ s.step \in BOOLEAN /\ s.dowhile \in BOOLEAN
  BY DEF Shapes
<1>1. /\ Running /\ g' = g5 /\ stack' = Push(f) /\ pending' = pending
      /\ br => s.cond
  BY ZenonT(60) DEF EnterLoop
<1>2. /\ One(s.init) \in Nat /\ One(s.cond) \in Nat /\ One(s.step) \in Nat
      /\ Opens \in Nat /\ EvalSize(br) \in Nat /\ g.n \in Nat /\ MaxBlocks \in Nat
      /\ g.n + (Opens + (One(s.init) + One(s.cond) + One(s.step) + 1) + EvalSize(br)) <= MaxBlocks
  <2>1. /\ One(s.init) \in Nat /\ One(s.cond) \in Nat /\ One(s.step) \in Nat
        /\ Opens \in Nat /\ EvalSize(br) \in Nat /\ g.n \in Nat /\ MaxBlocks \in Nat
    BY StateFacts DEF One, Opens, EvalSize
  <2>2. Room(Opens + LoopSize(s) + EvalSize(br))
    BY DEF EnterLoop
  <2>3. LoopSize(s) = One(s.init) + One(s.cond) + One(s.step) + 1
    BY DEF LoopSize, One
  <2> QED
    BY <2>1, <2>2, <2>3 DEF Room
<1>3. /\ Follows(g, g1) /\ Balanced(g1) /\ g1.n = g.n + Opens
      /\ g1.kind[entry] = "goto" /\ Lacks(g1) = [Lacks(g) EXCEPT ![entry] = 1]
      /\ Lacks(g)[entry] = 0 /\ entry \in Blk
  <2>1. "goto" \in Kinds \ {"none"} /\ Len(NullTargets("goto")) = 1
    BY DEF Kinds, NullTargets
  <2>2. Room(Opens)
    BY <1>2 DEF Room
  <2>3. /\ Follows(g, g1) /\ Balanced(g1)
        /\ g1.kind[entry] = "goto" /\ Lacks(g1) = [Lacks(g) EXCEPT ![entry] = Len(NullTargets("goto"))]
        /\ Lacks(g)[entry] = 0 /\ entry \in Blk
    BY <2>1, <2>2, EndedFollows
  <2>4. g1.n = g.n + Opens
    BY <2>1, <2>2, Ended DEF BInv, Grows
  <2> QED
    BY <2>1, <2>3, <2>4
<1> HIDE DEF entry, g1
<1>4. Follows(g1, g2) /\ Balanced(g2) /\ Lacks(g2) = Lacks(g1) /\ g2.n = g1.n + One(s.init)
  <2>1. g1.n + One(s.init) <= MaxBlocks
    BY <1>2, <1>3
  <2> QED
    BY <1>0, <1>3, <2>1, PartFollows
<1> HIDE DEF g2
<1>5. /\ Follows(g2, g3) /\ Balanced(g3) /\ g3.n = g2.n + (One(s.cond) + EvalSize(br))
      /\ s.cond => /\ x \in Blk /\ ~Terminated(g2, x) /\ Lacks(g2)[x] = 0 /\ g3.kind[x] = "if"
                   /\ \A b \in Blk : Lacks(g3)[b] = IF b = x THEN 2 ELSE Lacks(g2)[b]
      /\ ~s.cond => Lacks(g3) = Lacks(g2)
  <2>1. g2.n + (One(s.cond) + EvalSize(br)) <= MaxBlocks
    BY <1>2, <1>3, <1>4
  <2> QED
    BY <1>0, <1>1, <1>4, <2>1, CondFollows
<1> HIDE DEF g3, x
<1>6. Follows(g3, g4) /\ Balanced(g4) /\ Lacks(g4) = Lacks(g3) /\ g4.n = g3.n + One(s.step)
  <2>1. g3.n + One(s.step) <= MaxBlocks
    BY <1>2, <1>3, <1>4, <1>5
  <2> QED
    BY <1>0, <1>5, <2>1, PartFollows
<1> HIDE DEF g4
<1>7. Follows(g4, g5) /\ Lacks(g5) = Lacks(g4)
  <2>1. g4.n < MaxBlocks
    BY <1>2, <1>3, <1>4, <1>5, <1>6
  <2> QED
    BY <1>6, <2>1, CreateFollows
<1> HIDE DEF g5
<1>8. Follows(g, g2) /\ Follows(g1, g5) /\ Follows(g3, g5) /\ Follows(g, g5)
  <2>1. Follows(g, g2)
    BY <1>3, <1>4, StateFacts, FollowsTrans
  <2>2. Follows(g3, g5)
    BY <1>5, <1>6, <1>7, FollowsTrans
  <2>3. Follows(g2, g5)
    BY <1>4, <1>5, <2>2, FollowsTrans
  <2>4. Follows(g1, g5)
    BY <1>3, <1>4, <2>3, FollowsTrans
  <2>5. Follows(g, g5)
    BY <1>3, <2>4, StateFacts, FollowsTrans
  <2> QED
    BY <2>1, <2>2, <2>4, <2>5
<1>9. /\ g5.kind[entry] = "goto" /\ (s.cond => g5.kind[x] = "if")
  <2>1. g5.kind[entry] = "goto"
    BY <1>3, <1>8 DEF Follows, Terminated
  <2>2. s.cond => g5.kind[x] = "if"
    BY <1>5, <1>8 DEF Follows, Terminated
  <2> QED
    BY <2>1, <2>2
<1>10. s.cond => x # entry /\ Lacks(g)[x] = 0
  <2>1. g2.kind[entry] = "goto"
    BY <1>3, <1>4 DEF Follows, Terminated
  <2>2. s.cond => x # entry
    BY <1>5, <2>1 DEF Terminated
  <2>3. s.cond => Lacks(g)[x] = 0
    BY <1>3, <1>4, <1>5, <2>2 DEF Lacks
  <2> QED
    BY <2>2, <2>3
<1>11. e \in Seq(Blk) /\ Elems(e) = {} /\ GotosOK(g5, e)
  BY DEF Elems, GotosOK, Single
<1> HIDE DEF e
<1>12. /\ f.stmt = "loop" /\ f.entry = entry /\ f.merges = e
       /\ f.cond # Null <=> s.cond
       /\ s.cond => f.condExit = x
  <2>1. s.cond => Fresh(g2) # Null
    <3>1. g2.n \in Nat
      BY <1>4, BlocksType DEF Balanced, GraphOK
    <3>2. Fresh(g2) = g2.n + 1
      BY DEF Fresh
    <3> QED
      BY <3>1, <3>2 DEF Null
  <2> QED
    BY <1>0, <2>1
<1>13. f \in Frames
  <2>1. IInv'
    BY EnterLoopOK DEF BInv
  <2>2. stack' \in Seq(Frames)
    BY <2>1 DEF IInv, StackOK
  <2> HIDE DEF f
  <2>3. Append(stack, f) \in Seq(Frames) /\ stack \in Seq(Frames)
    BY <1>1, <2>2, StateFacts DEF Push
  <2>4. Len(stack) \in Nat /\ Len(Append(stack, f)) = Len(stack) + 1 /\ Append(stack, f)[Len(stack) + 1] = f
    BY <2>3
  <2>5. Len(stack) + 1 \in 1 .. Len(Append(stack, f))
    BY <2>4
  <2> QED
    BY <2>3, <2>4, <2>5, ElementOfSeq
<1> HIDE DEF f
<1>14. FrameKinds(g5, f)
  BY <1>9, <1>11, <1>12 DEF FrameKinds
<1>15. ASSUME NEW d \in Blk
       PROVE  \/ Owe(f, d) = 0 /\ Lacks(g5)[d] = Lacks(g)[d]
              \/ Lacks(g)[d] = 0 /\ Lacks(g5)[d] = Owe(f, d)
  <2>1. Lacks(g2)[d] = IF d = entry THEN 1 ELSE Lacks(g)[d]
    BY <1>3, <1>4 DEF Lacks
  <2>2. CASE s.cond
    <3>1. Lacks(g5)[d] = IF d = x THEN 2 ELSE Lacks(g2)[d]
      BY <1>5, <1>6, <1>7, <2>2
    <3>2. Owe(f, d) = IF d = entry THEN 1 ELSE IF d = x THEN 2 ELSE 0
      BY <1>11, <1>12, <2>2 DEF Owe
    <3> QED
      BY <1>3, <1>10, <2>1, <2>2, <3>1, <3>2
  <2>3. CASE ~s.cond
    <3>1. Lacks(g5)[d] = Lacks(g2)[d]
      BY <1>5, <1>6, <1>7, <2>3
    <3>2. Owe(f, d) = IF d = entry THEN 1 ELSE 0
      BY <1>11, <1>12, <2>3 DEF Owe
    <3> QED
      BY <1>3, <2>1, <3>1, <3>2
  <2> QED
    BY <1>0, <2>2, <2>3
<1>16. f.stmt # "func"
  BY <1>12
<1>17. Held(g5, Push(f), pending)
  BY <1>8, <1>13, <1>14, <1>15, <1>16, FollowsTracks, HeldPush
<1>18. Fine(g5)
  BY <1>1, <1>8, RunningFacts, FineFollows
<1> QED
  BY <1>1, <1>17, <1>18


LEMMA ExitLoopHolds ==
  ASSUME BInv, ExitLoop
  PROVE  Held(g', stack', pending') /\ Fine(g')
<1> DEFINE f  == Top
           m  == Fresh(g)
           c  == Create(g)
           g1 == SetGoto(c, f.entry, EntryTarget(f))
           g2 == IF f.init # Null THEN GotoIfOpen(g1, f.initExit, BackedgeTarget(f)) ELSE g1
           g3 == IF f.cond # Null THEN SetThen(g2, f.condExit, f.body) ELSE g2
           g4 == GotoIfOpen(g3, curr, BodyTarget(f))
           g5 == IF f.step # Null THEN GotoIfOpen(g4, f.stepExit, BackedgeTarget(f)) ELSE g4
           g6 == IF f.cond # Null THEN SetElse(g5, f.condExit, m) ELSE g5
           g7 == SetGotos(g6, f.merges, m)
           Ready(h) == Balanced(h) /\ Follows(g, h) /\ m \in Blocks(h) /\ Blocks(g) \subseteq Blocks(h)
<1>1. /\ Running /\ Room(1) /\ f.stmt = "loop" /\ g' = g7 /\ stack' = Pop /\ pending' = pending
  BY DEF ExitLoop
<1>2. Ready(c) /\ Lacks(c) = Lacks(g)
  BY <1>1, RoomForOne
<1>3. /\ f \in Frames /\ FrameOK(g, f) /\ (\A r : Tracks(g, r) => FrameKinds(r, f))
      /\ \A b \in Blk : Owe(f, b) # 0 => Lacks(g)[b] = Owe(f, b)
  BY <1>1, RunningFacts, TopFacts
<1>4. /\ f.entry \in Blk /\ f.merges \in Seq(Blk) /\ (f.cond # Null => f.condExit \in Blk)
      /\ curr \in Blocks(g)
  BY <1>1, <1>3, FrameFields, BlocksType, StateFacts DEF FrameOK, Linkable, GraphOK
<1> HIDE DEF f, m, c
\* Each of the setters keeps what the next one needs.
<1>5. ASSUME NEW h, NEW r, Ready(h), Follows(h, r) PROVE Ready(r)
  <2>1. Balanced(r) /\ Blocks(h) \subseteq Blocks(r)
    BY <1>5, FollowsBlocks
  <2>2. Follows(g, r)
    BY <1>5, StateFacts, FollowsTrans
  <2> QED
    BY <1>5, <2>1, <2>2
\* The blocks of the loop, what ends them, and where its edges go.
<1>6. ASSUME NEW h, Ready(h)
      PROVE  /\ Balanced(h) /\ m \in Blocks(h) /\ curr \in Blocks(h)
             /\ f.entry \in Blocks(h) /\ f.body \in Blocks(h)
             /\ f.init # Null => f.initExit \in Blocks(h)
             /\ f.cond # Null => f.condExit \in Blocks(h)
             /\ f.step # Null => f.stepExit \in Blocks(h)
             /\ EntryTarget(f) \in Blocks(h) /\ BackedgeTarget(f) \in Blocks(h)
             /\ BodyTarget(f) \in Blocks(h)
             /\ h.kind[f.entry] = "goto" /\ GotosOK(h, f.merges)
             /\ f.cond # Null => h.kind[f.condExit] = "if"
  <2>1. /\ f.entry \in Blocks(g) /\ f.body \in Blocks(g)
        /\ f.init # Null => f.init \in Blocks(g) /\ f.initExit \in Blocks(g)
        /\ f.cond # Null => f.cond \in Blocks(g) /\ f.condExit \in Blocks(g)
        /\ f.step # Null => f.step \in Blocks(g) /\ f.stepExit \in Blocks(g)
    BY <1>1, <1>3 DEF FrameOK, Linkable
  <2>2. FrameKinds(h, f)
    BY <1>3, <1>6, FollowsTracks
  <2>3. /\ EntryTarget(f) \in Blocks(g) /\ BackedgeTarget(f) \in Blocks(g)
        /\ BodyTarget(f) \in Blocks(g)
    BY <2>1 DEF EntryTarget, BackedgeTarget, BodyTarget
  <2>4. /\ h.kind[f.entry] = "goto" /\ GotosOK(h, f.merges)
        /\ f.cond # Null => h.kind[f.condExit] = "if"
    BY <1>1, <2>2 DEF FrameKinds
  <2> QED
    BY <1>4, <1>6, <2>1, <2>3, <2>4
<1> HIDE DEF Ready
\* What the frame owes: its condition's block is neither its entry nor a break.
<1>7. /\ f.entry \notin Elems(f.merges)
      /\ f.cond # Null => f.condExit # f.entry /\ f.condExit \notin Elems(f.merges)
      /\ \A b \in Blk : Owe(f, b) = IF b = f.entry \/ b \in Elems(f.merges) THEN 1
                                    ELSE IF f.cond # Null /\ b = f.condExit THEN 2 ELSE 0
  <2>1. FrameKinds(g, f)
    BY <1>3, StateFacts, FollowsRefl, FollowsTracks
  <2> QED
    BY <1>1, <2>1 DEF FrameKinds, GotosOK, Owe
<1>8. /\ Lacks(g)[f.entry] = 1
      /\ \A b \in Elems(f.merges) : b \in Blk /\ Lacks(g)[b] = 1
      /\ f.cond # Null => Lacks(g)[f.condExit] = 2
  <2>1. \A b \in Elems(f.merges) : b \in Blk
    BY <1>4, ElemsIn
  <2> QED
    BY <1>3, <1>4, <1>7, <2>1
<1>9. Ready(g1) /\ Lacks(g1) = [Lacks(g) EXCEPT ![f.entry] = 0]
  <2> DEFINE b == f.entry
             t == EntryTarget(f)
  <2>1. /\ Balanced(c) /\ b \in Blocks(c) /\ t \in Blocks(c) /\ c.kind[b] = "goto"
        /\ Lacks(c)[b] = 1
    BY <1>2, <1>6, <1>8
  <2> HIDE DEF b, t
  <2>2. Follows(c, g1) /\ Lacks(g1) = [Lacks(c) EXCEPT ![b] = 0]
    BY <2>1, SetGotoFollows DEF b, t
  <2> QED
    BY <1>2, <1>5, <2>2 DEF b
<1> HIDE DEF g1
<1>10. Ready(g2) /\ Lacks(g2) = Lacks(g1)
  <2>1. f.init # Null => Follows(g1, g2) /\ Lacks(g2) = Lacks(g1)
    <3> DEFINE b == f.initExit
               t == BackedgeTarget(f)
    <3>1. Balanced(g1) /\ t \in Blocks(g1) /\ (f.init # Null => b \in Blocks(g1))
      BY <1>6, <1>9
    <3>2. f.init # Null => g2 = GotoIfOpen(g1, b, t)
      OBVIOUS
    <3> HIDE DEF b, t, g2
    <3> QED
      BY <3>1, <3>2, GotoFollows
  <2> QED
    BY <1>5, <1>9, <2>1
<1> HIDE DEF g2
<1>11. /\ Ready(g3)
       /\ f.cond # Null => Lacks(g3) = [Lacks(g2) EXCEPT ![f.condExit] = 1]
       /\ f.cond = Null => Lacks(g3) = Lacks(g2)
  <2>1. CASE f.cond # Null
    <3> DEFINE b == f.condExit
               t == f.body
    <3>1. Lacks(g2)[b] = 2
      BY <1>4, <1>7, <1>8, <1>9, <1>10, <2>1 DEF Lacks
    <3>2. Balanced(g2) /\ b \in Blocks(g2) /\ t \in Blocks(g2) /\ g2.kind[b] = "if"
      BY <1>6, <1>10, <2>1
    <3> HIDE DEF b, t
    <3>3. Follows(g2, SetThen(g2, b, t)) /\ Lacks(SetThen(g2, b, t)) = [Lacks(g2) EXCEPT ![b] = 1]
      BY <3>1, <3>2, SetThenFollows
    <3>4. g3 = SetThen(g2, b, t)
      BY <2>1 DEF b, t
    <3> QED
      BY <1>5, <1>10, <2>1, <3>3, <3>4 DEF b
  <2>2. CASE f.cond = Null
    BY <1>10, <2>2
  <2> QED
    BY <2>1, <2>2
<1> HIDE DEF g3
<1>12. Ready(g4) /\ Lacks(g4) = Lacks(g3)
  <2>1. Follows(g3, g4) /\ Lacks(g4) = Lacks(g3)
    BY <1>6, <1>11, GotoFollows
  <2> QED
    BY <1>5, <1>11, <2>1
<1> HIDE DEF g4
<1>13. Ready(g5) /\ Lacks(g5) = Lacks(g4)
  <2>1. f.step # Null => Follows(g4, g5) /\ Lacks(g5) = Lacks(g4)
    BY <1>6, <1>12, GotoFollows
  <2> QED
    BY <1>5, <1>12, <2>1
<1> HIDE DEF g5
<1>14. /\ Ready(g6)
       /\ f.cond # Null => Lacks(g6) = [Lacks(g5) EXCEPT ![f.condExit] = 0]
       /\ f.cond = Null => Lacks(g6) = Lacks(g5)
  <2>1. CASE f.cond # Null
    <3> DEFINE b == f.condExit
    <3>1. Lacks(g5)[b] = 1
      BY <1>4, <1>11, <1>12, <1>13, <2>1 DEF Lacks
    <3>2. Balanced(g5) /\ b \in Blocks(g5) /\ m \in Blocks(g5) /\ g5.kind[b] = "if"
      BY <1>6, <1>13, <2>1
    <3> HIDE DEF b
    <3>3. Follows(g5, SetElse(g5, b, m)) /\ Lacks(SetElse(g5, b, m)) = [Lacks(g5) EXCEPT ![b] = 0]
      BY <3>1, <3>2, SetElseFollows
    <3>4. g6 = SetElse(g5, b, m)
      BY <2>1 DEF b
    <3> QED
      BY <1>5, <1>13, <2>1, <3>3, <3>4 DEF b
  <2>2. CASE f.cond = Null
    BY <1>13, <2>2
  <2> QED
    BY <2>1, <2>2
<1> HIDE DEF g6
\* So far: all but the breaks are linked.
<1>15. ASSUME NEW d \in Blk
       PROVE  Lacks(g6)[d] = IF d = f.entry \/ (f.cond # Null /\ d = f.condExit) THEN 0
                             ELSE Lacks(g)[d]
  <2>1. Lacks(g2)[d] = IF d = f.entry THEN 0 ELSE Lacks(g)[d]
    BY <1>9, <1>10 DEF Lacks
  <2>2. CASE f.cond # Null
    <3>1. Lacks(g5)[d] = IF d = f.condExit THEN 1 ELSE Lacks(g2)[d]
      BY <1>11, <1>12, <1>13, <2>2 DEF Lacks
    <3>2. Lacks(g6)[d] = IF d = f.condExit THEN 0 ELSE Lacks(g5)[d]
      BY <1>14, <2>2 DEF Lacks
    <3> QED
      BY <2>1, <2>2, <3>1, <3>2
  <2>3. CASE f.cond = Null
    BY <1>11, <1>12, <1>13, <1>14, <2>1, <2>3
  <2> QED
    BY <2>2, <2>3
<1>16. /\ Follows(g6, g7)
       /\ Lacks(g7) = [d \in Blk |-> IF d \in Elems(f.merges) THEN 0 ELSE Lacks(g6)[d]]
  <2> DEFINE ms == f.merges
  <2>1. /\ Balanced(g6) /\ m \in Blocks(g6) /\ ms \in Seq(Blk) /\ Single(ms)
        /\ \A b \in Elems(ms) : b \in Blk /\ g6.kind[b] = "goto"
    BY <1>4, <1>6, <1>8, <1>14 DEF GotosOK
  <2>2. \A b \in Elems(ms) : Lacks(g6)[b] = 1
    BY <1>7, <1>8, <1>15
  <2> HIDE DEF ms
  <2>3. /\ Follows(g6, SetGotos(g6, ms, m))
        /\ Lacks(SetGotos(g6, ms, m)) = [d \in Blk |-> IF d \in Elems(ms) THEN 0 ELSE Lacks(g6)[d]]
    BY <2>1, <2>2, SetGotosFollow
  <2> QED
    BY <2>3 DEF ms
<1> HIDE DEF g7
<1>17. Follows(g, g7) /\ Tracks(g, g7)
  <2>1. Ready(g7)
    BY <1>5, <1>14, <1>16
  <2> QED
    BY <2>1, FollowsTracks DEF Ready
<1>18. ASSUME NEW d \in Blk
       PROVE  \/ Owe(f, d) = 0 /\ Lacks(g7)[d] = Lacks(g)[d]
              \/ Owe(f, d) # 0 /\ Lacks(g7)[d] = 0
  BY <1>7, <1>15, <1>16
<1>19. Held(g7, Pop, pending)
  BY <1>1, <1>17, <1>18, RunningFacts, HeldPop DEF f
<1>20. Fine(g7)
  BY <1>1, <1>17, RunningFacts, FineFollows
<1> QED
  BY <1>1, <1>19, <1>20


(***************************************************************************)
(* Between functions                                                       *)
(***************************************************************************)

LEMMA NothingOwed ==
  ASSUME NEW st, Len(st) \in {0, 1}, Len(st) = 1 => st[1] = FuncFrame,
         NEW p, \A l \in Labels : p[l] = << >>
  PROVE  Held(EmptyGraph, st, p)
<1>1. \A b \in Blk : Owe(FuncFrame, b) = 0 /\ Waiting(<< >>)[b] = 0
  BY DEF Owe, FuncFrame, Waiting, Elems
<1>2. ASSUME NEW x \in Slots, NEW b \in Blk PROVE Debts(st, p)[x][b] = 0
  <2>1. CASE \E i \in Nat : x = FrameSlot(i)
    <3>1. PICK i \in Nat : x = FrameSlot(i)
      BY <2>1
    <3>2. Debts(st, p)[x] = IF i \in 1 .. Len(st) THEN Owed(st[i]) ELSE NoDebt
      BY <3>1, DebtsAt
    <3>3. i \in 1 .. Len(st) => st[i] = FuncFrame
      OBVIOUS
    <3> QED
      BY <1>1, <3>2, <3>3 DEF Owed, NoDebt
  <2>2. CASE \E l \in Labels : x = LabelSlot(l)
    <3>1. PICK l \in Labels : x = LabelSlot(l)
      BY <2>2
    <3>2. Debts(st, p)[x] = Waiting(<< >>)
      BY <3>1, DebtsAt
    <3> QED
      BY <1>1, <3>2
  <2> QED
    BY <2>1, <2>2, SlotFacts
<1>3. Accounted(Lacks(EmptyGraph), Debts(st, p))
  BY <1>2, EmptyGraphBalanced DEF Accounted
<1>4. FuncFirst(st) /\ \A i \in 1 .. Len(st) : FrameKinds(EmptyGraph, st[i])
  <2>1. FrameKinds(EmptyGraph, FuncFrame)
    BY DEF FrameKinds, FuncFrame
  <2>2. \A i \in 1 .. Len(st) : i = 1 /\ st[i] = FuncFrame
    OBVIOUS
  <2> QED
    BY <2>1, <2>2 DEF FuncFirst
<1>5. \A l \in Labels : GotosOK(EmptyGraph, p[l])
  BY DEF GotosOK, Single, Elems
<1> QED
  BY <1>3, <1>4, <1>5, EmptyGraphBalanced DEF Held

LEMMA InitHolds == Init => BInv /\ Fine(g)
<1> SUFFICES ASSUME Init PROVE BInv /\ Fine(g)
  OBVIOUS
<1>1. g = EmptyGraph /\ stack = << >> /\ \A l \in Labels : pending[l] = << >>
  BY DEF Init
<1>2. Len(<< >>) \in {0, 1} /\ ~(Len(<< >>) = 1)
  OBVIOUS
<1>3. Held(EmptyGraph, stack, pending)
  BY <1>1, <1>2, NothingOwed
<1> QED
  BY <1>1, <1>3, InitOK, EmptyGraphBalanced DEF BInv

LEMMA EnterFunctionHolds ==
  ASSUME BInv, EnterFunction
  PROVE  Held(g', stack', pending') /\ Fine(g')
<1> DEFINE st == << FuncFrame >>
<1>1. g' = EmptyGraph /\ stack' = st /\ pending' = pending /\ stack = << >>
  BY DEF EnterFunction
<1>2. \A l \in Labels : pending[l] = << >>
  BY <1>1 DEF BInv, IInv, PendingOK
<1>3. Len(st) = 1 /\ st[1] = FuncFrame
  OBVIOUS
<1> HIDE DEF st
<1>4. Held(EmptyGraph, st, pending)
  BY <1>2, <1>3, NothingOwed
<1> QED
  BY <1>1, <1>4, EmptyGraphBalanced

LEMMA ExitFunctionHolds ==
  ASSUME BInv, ExitFunction
  PROVE  Held(g', stack', pending') /\ Fine(g')
<1>1. /\ Running /\ Top.stmt = "func" /\ g' = g /\ pending' = pending /\ stack' = << >>
  BY DEF ExitFunction
<1>2. Len(stack) \in 1 .. Len(stack) /\ Top = stack[Len(stack)]
  BY <1>1, RunningFacts, TopFacts
<1>3. FuncFirst(stack)
  BY DEF BInv, Held
<1>4. Len(stack) = 1
  BY <1>1, <1>2, <1>3 DEF FuncFirst
<1>5. Pop = << >>
  BY <1>4, StateFacts DEF Pop
<1>6. \A b \in Blk : Owe(Top, b) = 0
  BY <1>1 DEF Owe
<1>7. Held(g, Pop, pending)
  BY <1>1, <1>6, RunningFacts, StateFacts, FollowsRefl, FollowsTracks, HeldPop
<1> QED
  BY <1>1, <1>5, <1>7, RunningFacts

(***************************************************************************)
(* The theorems                                                            *)
(***************************************************************************)

\* The assertions a source can make fail: the two of CFGBuilder about blocks that
\* have ended already are not among them.
SourceFaults == Misplaced \cup {"num_pending_gotos() == 0"}

Asserted == Fine(g) \/ g.ice \in SourceFaults

LEMMA BStep == BInv /\ Asserted /\ [Next]_vars => (BInv /\ Asserted)'
<1> SUFFICES ASSUME BInv, Asserted, [Next]_vars PROVE (BInv /\ Asserted)'
  OBVIOUS
<1>i. IInv'
  BY StepOK DEF BInv
<1>s. ASSUME Held(g', stack', pending'), Fine(g') \/ g'.ice \in SourceFaults
      PROVE  (BInv /\ Asserted)'
  BY <1>i, <1>s DEF BInv, Asserted
<1> DEFINE Done == Held(g', stack', pending') /\ (Fine(g') \/ g'.ice \in SourceFaults)
<1>1. ASSUME UNCHANGED vars PROVE Done
  <2>1. g' = g /\ stack' = stack /\ pending' = pending
    BY <1>1 DEF vars
  <2>2. Held(g, stack, pending) /\ (Fine(g) \/ g.ice \in SourceFaults)
    BY DEF BInv, Asserted
  <2> QED
    BY <2>1, <2>2
<1>2. ASSUME NEW br \in BOOLEAN, VisitExprStmt(br) PROVE Done
  BY <1>2, VisitExprStmtHolds
<1>3. ASSUME NEW br \in BOOLEAN, VisitReturn(br) PROVE Done
  BY <1>3, VisitReturnHolds
<1>4. ASSUME NEW l \in Labels, VisitGoto(l) PROVE Done
  BY <1>4, VisitGotoHolds
<1>5. ASSUME NEW l \in Labels, VisitLabelDecl(l) PROVE Done
  <2>1. Held(g', stack', pending') /\ (Fine(g') \/ g'.ice = "num_pending_gotos() == 0")
    BY <1>5, VisitLabelDeclHolds
  <2> QED
    BY <2>1 DEF SourceFaults
<1>6. ASSUME NEW br \in BOOLEAN, EnterIf(br) PROVE Done
  BY <1>6, EnterIfHolds
<1>7. ASSUME NEW s \in Shapes, NEW br \in BOOLEAN, EnterLoop(s, br) PROVE Done
  BY <1>7, EnterLoopHolds
<1>8. ASSUME NEW br \in BOOLEAN, EnterSwitch(br) PROVE Done
  BY <1>8, EnterSwitchHolds
<1>9. VisitCase \/ VisitBreak \/ VisitContinue => Done
  BY VisitCaseHolds, VisitBreakHolds, VisitContinueHolds DEF SourceFaults
<1>10. EnterFunction \/ ExitFunction \/ EnterElse \/ ExitIfNoElse \/ ExitIfBothEnded => Done
  BY EnterFunctionHolds, ExitFunctionHolds, EnterElseHolds, ExitIfNoElseHolds, ExitIfBothEndedHolds
<1>11. ExitIfMerge \/ ExitLoop \/ ExitSwitch => Done
  BY ExitIfMergeHolds, ExitLoopHolds, ExitSwitchHolds
<1>12. ASSUME Done PROVE (BInv /\ Asserted)'
  BY <1>12, <1>s
<1> HIDE DEF Done
<1>13. Next => Done
  BY <1>2, <1>3, <1>4, <1>5, <1>6, <1>7, <1>8, <1>9, <1>10, <1>11 DEF Next
<1> QED
  BY <1>1, <1>12, <1>13

LEMMA Inductive == Spec => [](BInv /\ Asserted)
<1>1. Init => BInv /\ Asserted
  BY InitHolds DEF Asserted
<1> QED
  BY <1>1, BStep, PTL DEF Spec

\* A terminator keeps its targets itself (successors()), and link_to keeps the edges
\* in the blocks (num_successors, the incoming list the phis are built from);
\* builder.cpp updates the three from its setters, in orders that depend on the
\* statement, and much later than the blocks are made.  They never disagree.
THEOREM SuccessorsAgree == Spec => []WellFormed
<1>1. BInv => SuccsMirrorTargets
  BY BlocksType DEF BInv, Held, Balanced, GraphOK, Counted, SuccsMirrorTargets
<1>2. BInv => TypeOK
  BY BlocksType DEF BInv, IInv, GraphOK, StackOK, WaitingOK, LabelsOK, TypeOK
<1> QED
  BY <1>1, <1>2, Inductive, PTL DEF WellFormed

\* Whatever the visits, builder.cpp neither gives a block a second terminator nor
\* appends to a block that has one: of its assertions only those about the source fail.
THEOREM EndedOnce == Spec => []Asserted
  BY Inductive, PTL

\* Between two functions no frame and no label remembers a terminator, so none lacks
\* a target: nothing of one function's graph leaks into the next.
THEOREM Resolved == Spec => []TargetsResolved
<1>1. ASSUME BInv PROVE TargetsResolved
  <2> SUFFICES ASSUME stack = << >>
               PROVE  /\ \A b \in Blocks(g) : Null \notin Elems(g.tgt[b])
                      /\ \A l \in Labels : pending[l] = << >>
    BY DEF TargetsResolved, Built
  <2>1. \A l \in Labels : pending[l] = << >>
    BY <1>1 DEF BInv, IInv, PendingOK
  <2>2. ASSUME NEW x \in Slots, NEW b \in Blk PROVE Debts(stack, pending)[x][b] = 0
    <3>1. CASE \E i \in Nat : x = FrameSlot(i)
      <4>1. PICK i \in Nat : x = FrameSlot(i)
        BY <3>1
      <4>2. Len(stack) = 0
        BY EmptySeq, StateFacts, <1>1
      <4>3. i \notin 1 .. Len(stack)
        BY <4>2
      <4>4. Debts(stack, pending)[x] = NoDebt
        BY <4>1, <4>3, DebtsAt
      <4> QED
        BY <4>4 DEF NoDebt
    <3>2. CASE \E l \in Labels : x = LabelSlot(l)
      <4>1. PICK l \in Labels : x = LabelSlot(l)
        BY <3>2
      <4>2. Debts(stack, pending)[x] = Waiting(<< >>)
        BY <2>1, <4>1, DebtsAt
      <4> QED
        BY <4>2 DEF Waiting, Elems
    <3> QED
      BY <3>1, <3>2, SlotFacts
  <2>3. ASSUME NEW b \in Blocks(g) PROVE Null \notin Elems(g.tgt[b])
    <3>1. b \in Blk /\ Balanced(g)
      BY <1>1, StateFacts, BlocksType DEF GraphOK
    <3>2. Lacks(g)[b] = 0
      BY <1>1, <2>2, <3>1 DEF BInv, Held, Accounted
    <3>3. Len(g.succs[b]) = Len(g.tgt[b]) /\ Len(g.tgt[b]) \in Nat
      BY <3>1, <3>2, LackType
    <3>4. \A i \in 1 .. Len(g.tgt[b]) : g.tgt[b][i] = g.succs[b][i]
      BY <3>1, <3>3 DEF Balanced, Mirrored
    <3>5. g.tgt[b] \in Seq(Blk \cup {Null}) /\ g.succs[b] \in Seq(Blk)
      BY <3>1, GraphFields DEF Balanced
    <3>6. \A i \in 1 .. Len(g.succs[b]) : g.succs[b][i] \in Blk
      BY <3>5
    <3>7. DOMAIN g.tgt[b] = 1 .. Len(g.tgt[b]) /\ Null \notin Blk
      BY <3>5 DEF Null, Blk
    <3> QED
      BY <3>3, <3>4, <3>6, <3>7 DEF Elems
  <2> QED
    BY <2>1, <2>3
<1> QED
  BY <1>1, Inductive, PTL


(***************************************************************************)
(* The programs the earlier passes accept                                  *)
(***************************************************************************)

\* A label was declared while a goto waited for another one: nothing goes on then.
GotoAhead == g.ice = "num_pending_gotos() == 0" /\ \E l \in Labels : pending[l] # << >>

Accepted == family \in Families /\ (Fine(g) \/ GotoAhead)

\* No visit begins after an assertion has failed.
LEMMA StepsWhileFine == Next => Fine(g)
<1>1. EnterFunction \/ ExitFunction => Fine(g)
  BY DEF EnterFunction, ExitFunction, Running, Fine
<1>2. ASSUME NEW br \in BOOLEAN, VisitExprStmt(br) \/ VisitReturn(br) \/ EnterIf(br) \/ EnterSwitch(br)
      PROVE  Fine(g)
  BY <1>2 DEF VisitExprStmt, VisitReturn, EnterIf, EnterSwitch, Running, Fine
<1>3. ASSUME NEW l \in Labels, VisitGoto(l) \/ VisitLabelDecl(l) PROVE Fine(g)
  BY <1>3 DEF VisitGoto, VisitLabelDecl, Running, Fine
<1>4. VisitCase \/ VisitBreak \/ VisitContinue => Fine(g)
  BY DEF VisitCase, VisitBreak, VisitContinue, Running, Fine
<1>5. EnterElse \/ ExitIfNoElse \/ ExitIfBothEnded \/ ExitIfMerge => Fine(g)
  BY DEF EnterElse, ExitIfNoElse, ExitIfBothEnded, ExitIfMerge, Running, Fine
<1>6. ASSUME NEW s \in Shapes, NEW br \in BOOLEAN, EnterLoop(s, br) PROVE Fine(g)
  BY <1>6 DEF EnterLoop, Running, Fine
<1>7. ExitLoop \/ ExitSwitch => Fine(g)
  BY DEF ExitLoop, ExitSwitch, Running, Fine
<1> QED
  BY <1>1, <1>2, <1>3, <1>4, <1>5, <1>6, <1>7 DEF Next

\* A label that is declared, accepted or not, leaves what waits for others alone.
LEMMA VisitLabelDeclAccepted ==
  ASSUME BInv, NEW l \in Labels, VisitLabelDecl(l)
  PROVE  Fine(g') \/ GotoAhead'
<1>1. CASE \A m \in Labels \ {l} : pending[m] = << >>
  BY <1>1, VisitLabelDeclHolds
<1>2. ASSUME NEW m \in Labels \ {l}, pending[m] # << >>
      PROVE  Fine(g') \/ GotoAhead'
  <2>1. pending' = [pending EXCEPT ![l] = << >>]
    BY DEF VisitLabelDecl
  <2>2. pending \in [Labels -> Seq(Blk)]
    BY StateFacts
  <2>3. pending'[m] # << >>
    BY <1>2, <2>1, <2>2
  <2> QED
    BY <2>3, VisitLabelDeclHolds DEF GotoAhead
<1> QED
  BY <1>1, <1>2

LEMMA RestrictsStep ==
  ASSUME [SNext]_allvars
  PROVE  [Next]_vars
<1>1. CASE UNCHANGED allvars
  BY <1>1 DEF allvars, vars
<1>2. CASE SNext
  <2>1. ASSUME NEW br \in Branches, SVisitExprStmt(br) \/ SVisitReturn(br) \/ SEnterIf(br) \/ SEnterSwitch(br)
        PROVE  Next
    <3>1. br \in BOOLEAN
      BY DEF Branches
    <3> QED
      BY <2>1, <3>1 DEF Next, SVisitExprStmt, SVisitReturn, SEnterIf, SEnterSwitch
  <2>2. ASSUME NEW l \in Labels, SVisitGoto(l) \/ SVisitLabelDecl(l) PROVE Next
    BY <2>2 DEF Next, SVisitGoto, SVisitLabelDecl
  <2>3. ASSUME NEW d \in BOOLEAN, SVisitCase(d) PROVE Next
    BY <2>3 DEF Next, SVisitCase
  <2>4. ASSUME NEW s \in Shapes, NEW br \in Branches, NEW t \in BOOLEAN, SEnterLoop(s, br, t) PROVE Next
    <3>1. br \in BOOLEAN
      BY DEF Branches
    <3> QED
      BY <2>4, <3>1 DEF Next, SEnterLoop
  <2>5. SEnterFunction \/ SExitFunction \/ SVisitBreak \/ SVisitContinue => Next
    BY DEF Next, SEnterFunction, SExitFunction, SVisitBreak, SVisitContinue
  <2>6. SEnterElse \/ SExitIf \/ SExitLoop \/ SExitSwitch => Next
    BY DEF Next, SEnterElse, SExitIf, SExitLoop, SExitSwitch
  <2> QED
    BY <1>2, <2>1, <2>2, <2>3, <2>4, <2>5, <2>6 DEF SNext
<1> QED
  BY <1>1, <1>2

LEMMA Restricts == SSpec => Spec
  BY RestrictsStep, PTL DEF SSpec, SInit, Spec

LEMMA AcceptedStep ==
  ASSUME BInv, Accepted, [SNext]_allvars
  PROVE  Accepted'
<1>1. CASE UNCHANGED allvars
  <2>1. g' = g /\ family' = family /\ pending' = pending
    BY <1>1 DEF allvars, vars, srcvars
  <2> QED
    BY <2>1 DEF Accepted, Fine, GotoAhead
<1>2. CASE SNext
  <2>1. family' = family
    BY <1>2 DEF SNext, Within
  <2>2. ASSUME NEW br \in Branches, SVisitExprStmt(br) \/ SVisitReturn(br) \/ SEnterIf(br) \/ SEnterSwitch(br)
        PROVE  Fine(g')
    <3>1. br \in BOOLEAN
      BY DEF Branches
    <3>2. VisitExprStmt(br) \/ VisitReturn(br) \/ EnterIf(br) \/ EnterSwitch(br)
      BY <2>2 DEF SVisitExprStmt, SVisitReturn, SEnterIf, SEnterSwitch
    <3> QED
      BY <3>1, <3>2, VisitExprStmtHolds, VisitReturnHolds, EnterIfHolds, EnterSwitchHolds
  <2>3. ASSUME NEW l \in Labels, SVisitGoto(l) \/ SVisitLabelDecl(l)
        PROVE  Fine(g') \/ GotoAhead'
    <3>1. VisitGoto(l) \/ VisitLabelDecl(l)
      BY <2>3 DEF SVisitGoto, SVisitLabelDecl
    <3> QED
      BY <3>1, VisitGotoHolds, VisitLabelDeclAccepted
  <2>4. ASSUME NEW d \in BOOLEAN, SVisitCase(d) PROVE Fine(g')
    <3>1. VisitCase /\ FindInfo({"switch"}) # 0
      BY <2>4 DEF SVisitCase
    <3> QED
      BY <3>1, VisitCaseHolds
  <2>5. ASSUME NEW s \in Shapes, NEW br \in Branches, NEW t \in BOOLEAN, SEnterLoop(s, br, t)
        PROVE  Fine(g')
    <3>1. br \in BOOLEAN /\ EnterLoop(s, br)
      BY <2>5 DEF Branches, SEnterLoop
    <3> QED
      BY <3>1, EnterLoopHolds
  <2>6. SVisitBreak => Fine(g')
    <3>1. SVisitBreak => VisitBreak /\ FindInfo({"loop", "switch"}) # 0
      BY DEF SVisitBreak
    <3> QED
      BY <3>1, VisitBreakHolds
  <2>7. SVisitContinue => Fine(g')
    <3>1. SVisitContinue => VisitContinue /\ FindInfo({"loop"}) # 0
      BY DEF SVisitContinue
    <3> QED
      BY <3>1, VisitContinueHolds
  <2>8. SEnterFunction \/ SExitFunction \/ SEnterElse => Fine(g')
    <3>1. SEnterFunction \/ SExitFunction \/ SEnterElse => EnterFunction \/ ExitFunction \/ EnterElse
      BY DEF SEnterFunction, SExitFunction, SEnterElse
    <3> QED
      BY <3>1, EnterFunctionHolds, ExitFunctionHolds, EnterElseHolds
  <2>9. SExitIf \/ SExitLoop \/ SExitSwitch => Fine(g')
    <3>1. SExitIf \/ SExitLoop \/ SExitSwitch
            => ExitIfNoElse \/ ExitIfBothEnded \/ ExitIfMerge \/ ExitLoop \/ ExitSwitch
      BY DEF SExitIf, SExitLoop, SExitSwitch
    <3> QED
      BY <3>1, ExitIfNoElseHolds, ExitIfBothEndedHolds, ExitIfMergeHolds, ExitLoopHolds, ExitSwitchHolds
  <2>10. Fine(g') \/ GotoAhead'
    BY <1>2, <2>2, <2>3, <2>4, <2>5, <2>6, <2>7, <2>8, <2>9 DEF SNext
  <2> QED
    BY <2>1, <2>10 DEF Accepted
<1> QED
  BY <1>1, <1>2

\* Whatever the labels and gotos of a program the earlier passes accept, one
\* assertion of builder.cpp can fail in it at most: that no goto waits while a
\* label is declared, and it does only with a goto that waits for another label.
THEOREM AssertionsHold == SSpec => []OnlyGotosAhead
<1>1. SInit => Accepted
  BY InitHolds DEF SInit, Accepted
<1>2. BInv /\ Accepted /\ [SNext]_allvars => Accepted'
  BY AcceptedStep
<1>3. SSpec => []BInv
  BY Restricts, Inductive, PTL
<1>4. BInv /\ Accepted => OnlyGotosAhead
  <2> SUFFICES ASSUME BInv, GotoAhead
               PROVE  /\ g.ice = "num_pending_gotos() == 0" /\ stack # << >>
                      /\ \E l \in used : pending[l] # << >> /\ labeled[l] = Null
    BY DEF Accepted, Fine, OnlyGotosAhead
  <2>1. PICK l \in Labels : pending[l] # << >>
    BY DEF GotoAhead
  <2>2. l \in used /\ labeled[l] = Null /\ stack # << >>
    BY <2>1 DEF BInv, IInv, PendingOK
  <2> QED
    BY <2>1, <2>2 DEF GotoAhead
<1> QED
  BY <1>1, <1>2, <1>3, <1>4, PTL DEF SSpec


(***************************************************************************)
(* The blocks that stay open.  Whatever their edges, a block without a     *)
(* terminator is the current one or one that a frame will come back to.    *)
(***************************************************************************)

\* The blocks that have no terminator yet.
Unended(h) == {b \in Blocks(h) : ~Terminated(h, b)}

\* All that has to be known of a graph to follow them.
Recorded(h) == {"n", "kind"} \subseteq DOMAIN h /\ h.n \in Nat /\ DOMAIN h.kind = Blk

LEMMA StateRecorded == ASSUME GraphOK(g) PROVE Recorded(g)
  BY BlocksType DEF GraphOK, Graphs, Recorded

LEMMA UnendedSame ==
  ASSUME NEW h, Recorded(h), NEW r, {"n", "kind"} \subseteq DOMAIN r, r.n = h.n, r.kind = h.kind
  PROVE  Recorded(r) /\ Unended(r) = Unended(h)
  BY DEF Unended, Blocks, Terminated, Recorded

LEMMA UnendedCreate ==
  ASSUME NEW h, Recorded(h)
  PROVE  /\ Recorded(Create(h)) /\ Create(h).n = h.n + 1
         /\ Unended(Create(h)) \subseteq Unended(h) \cup {Fresh(h)}
  BY DEF Unended, Blocks, Terminated, Recorded, Create, Fresh

LEMMA UnendedFail ==
  ASSUME NEW h, Recorded(h), NEW a
  PROVE  Recorded(Fail(h, a)) /\ Fail(h, a).n = h.n /\ Unended(Fail(h, a)) = Unended(h)
<1>1. {"n", "kind"} \subseteq DOMAIN Fail(h, a) /\ Fail(h, a).n = h.n /\ Fail(h, a).kind = h.kind
  BY DEF Fail, Recorded
<1> QED
  BY <1>1, UnendedSame

LEMMA UnendedInstruction ==
  ASSUME NEW h, Recorded(h), NEW b
  PROVE  /\ Recorded(AddInstruction(h, b)) /\ AddInstruction(h, b).n = h.n
         /\ Unended(AddInstruction(h, b)) = Unended(h)
  BY UnendedFail DEF AddInstruction

LEMMA UnendedTerminate ==
  ASSUME NEW h, Recorded(h), NEW b \in Blk, NEW k \in Kinds \ {"none"}
  PROVE  /\ Recorded(Terminate(h, b, k)) /\ Terminate(h, b, k).n = h.n
         /\ Unended(Terminate(h, b, k)) \subseteq Unended(h) \ {b}
<1>1. CASE Terminated(h, b)
  BY ZenonT(40), <1>1, UnendedFail DEF Terminate, Unended
<1>2. CASE ~Terminated(h, b)
  <2> DEFINE r == [h EXCEPT !.kind[b] = k, !.tgt[b] = NullTargets(k)]
  <2>1. {"n", "kind"} \subseteq DOMAIN r /\ r.n = h.n /\ r.kind = [h.kind EXCEPT ![b] = k]
    BY DEF Recorded
  <2>2. Terminate(h, b, k) = r
    BY <1>2 DEF Terminate
  <2> HIDE DEF r
  <2>3. Recorded(r)
    BY <2>1 DEF Recorded
  <2>4. \A c : Terminated(h, c) => Terminated(r, c)
    BY <2>1 DEF Terminated, Kinds, Recorded
  <2>5. Terminated(r, b)
    BY <2>1 DEF Terminated, Kinds, Recorded
  <2>6. Blocks(r) = Blocks(h)
    BY <2>1 DEF Blocks
  <2>7. Unended(r) \subseteq Unended(h) \ {b}
    BY <2>4, <2>5, <2>6 DEF Unended
  <2> QED
    BY <2>1, <2>2, <2>3, <2>7
<1> QED
  BY <1>1, <1>2

\* The setters and the cases leave terminators where they are.
LEMMA UnendedSet ==
  ASSUME NEW h, Recorded(h), NEW b, NEW t, NEW i
  PROVE  /\ Recorded(SetTarget(h, b, i, t)) /\ SetTarget(h, b, i, t).n = h.n
         /\ Unended(SetTarget(h, b, i, t)) = Unended(h)
         /\ Recorded(AddCase(h, b, t)) /\ Unended(AddCase(h, b, t)) = Unended(h)
<1>1. ASSUME NEW r, {"n", "kind"} \subseteq DOMAIN r, r.n = h.n, r.kind = h.kind
      PROVE  /\ Recorded(LinkTo(r, b, t)) /\ LinkTo(r, b, t).n = h.n
             /\ Unended(LinkTo(r, b, t)) = Unended(h)
  <2>1. /\ {"n", "kind"} \subseteq DOMAIN LinkTo(r, b, t)
        /\ LinkTo(r, b, t).n = h.n /\ LinkTo(r, b, t).kind = h.kind
    BY <1>1 DEF LinkTo
  <2> QED
    BY <2>1, UnendedSame
<1>2. /\ Recorded(SetTarget(h, b, i, t)) /\ SetTarget(h, b, i, t).n = h.n
      /\ Unended(SetTarget(h, b, i, t)) = Unended(h)
  <2> DEFINE r == [h EXCEPT !.tgt[b][i] = t]
  <2>1. {"n", "kind"} \subseteq DOMAIN r /\ r.n = h.n /\ r.kind = h.kind
    BY DEF Recorded
  <2>2. SetTarget(h, b, i, t) = LinkTo(r, b, t)
    BY DEF SetTarget
  <2> HIDE DEF r
  <2> QED
    BY <1>1, <2>1, <2>2
<1>3. Recorded(AddCase(h, b, t)) /\ Unended(AddCase(h, b, t)) = Unended(h)
  <2> DEFINE r == [h EXCEPT !.tgt[b] = Append(h.tgt[b], t)]
  <2>1. {"n", "kind"} \subseteq DOMAIN r /\ r.n = h.n /\ r.kind = h.kind
    BY DEF Recorded
  <2>2. AddCase(h, b, t) = LinkTo(r, b, t)
    BY DEF AddCase
  <2> HIDE DEF r
  <2> QED
    BY <1>1, <2>1, <2>2
<1> QED
  BY <1>2, <1>3

LEMMA UnendedSetters ==
  ASSUME NEW h, Recorded(h), NEW b, NEW t
  PROVE  /\ Recorded(SetThen(h, b, t)) /\ Unended(SetThen(h, b, t)) = Unended(h)
         /\ Recorded(SetElse(h, b, t)) /\ Unended(SetElse(h, b, t)) = Unended(h)
         /\ Recorded(SetGoto(h, b, t)) /\ Unended(SetGoto(h, b, t)) = Unended(h)
         /\ SetThen(h, b, t).n = h.n /\ SetElse(h, b, t).n = h.n /\ SetGoto(h, b, t).n = h.n
<1>1. ASSUME NEW i
      PROVE  /\ Recorded(SetTarget(h, b, i, t)) /\ Unended(SetTarget(h, b, i, t)) = Unended(h)
             /\ SetTarget(h, b, i, t).n = h.n
  BY ONLY Recorded(h), UnendedSet
<1>2. /\ SetThen(h, b, t) = SetTarget(h, b, 1, t) /\ SetGoto(h, b, t) = SetTarget(h, b, 1, t)
      /\ SetElse(h, b, t) = SetTarget(h, b, 2, t)
  BY DEF SetThen, SetElse, SetGoto
<1> QED
  BY <1>1, <1>2

LEMMA UnendedSetGotos ==
  ASSUME NEW h, Recorded(h), NEW ps, NEW t
  PROVE  Recorded(SetGotos(h, ps, t)) /\ Unended(SetGotos(h, ps, t)) = Unended(h)

<1> DEFINE T == [b \in Blk |-> IF b \in Elems(ps) THEN << t >> ELSE h.tgt[b]]
           S == [b \in Blk |-> IF b \in Elems(ps) THEN Append(h.succs[b], t) ELSE h.succs[b]]
           I == [h.incoming EXCEPT ![t] = h.incoming[t] \o ps]
           r == SetGotos(h, ps, t)
<1>1. r = [h EXCEPT !.tgt = T, !.succs = S, !.incoming = I]
  BY DEF SetGotos
<1> HIDE DEF T, S, I, r
<1>2. {"n", "kind"} \subseteq DOMAIN r /\ r.n = h.n /\ r.kind = h.kind
  BY <1>1 DEF Recorded
<1>3. Recorded(r) /\ Unended(r) = Unended(h)
  BY <1>2, UnendedSame
<1> QED
  BY <1>3 DEF r

LEMMA UnendedGoto ==
  ASSUME NEW h, Recorded(h), NEW b \in Blk, NEW t
  PROVE  /\ Recorded(GotoTo(h, b, t)) /\ Unended(GotoTo(h, b, t)) \subseteq Unended(h) \ {b}
         /\ Recorded(GotoIfOpen(h, b, t)) /\ Unended(GotoIfOpen(h, b, t)) \subseteq Unended(h) \ {b}
<1>1. "goto" \in Kinds \ {"none"}
  BY DEF Kinds
<1>2. Recorded(GotoTo(h, b, t)) /\ Unended(GotoTo(h, b, t)) \subseteq Unended(h) \ {b}
  BY <1>1, UnendedTerminate, UnendedSetters DEF GotoTo
<1>3. Terminated(h, b) => b \notin Unended(h)
  BY DEF Unended
<1> QED
  BY <1>2, <1>3 DEF GotoIfOpen


LEMMA UnendedEval ==
  ASSUME NEW h, Recorded(h), NEW b \in Blk, NEW br \in BOOLEAN, br => Fresh(h) \in Blk
  PROVE  LET r == EvalGraph(h, b, br)
         IN  /\ Recorded(r)
             /\ Unended(r) \ {EvalBlock(h, b, br)} \subseteq Unended(h) \ {b}
<1>1. CASE ~br
  BY <1>1, UnendedInstruction DEF EvalGraph, EvalBlock
<1>2. CASE br
  <2> DEFINE h1 == Create(h)
             h2 == Create(h1)
             h3 == Terminate(h2, b, "if")
             n  == Fresh(h)
             m  == n + 1
             h4 == SetThen(h3, b, n)
             h5 == SetElse(h4, b, m)
             h6 == GotoTo(h5, n, m)
  <2>1. Recorded(h1) /\ h1.n = h.n + 1 /\ Unended(h1) \subseteq Unended(h) \cup {n}
    BY UnendedCreate
  <2>2. n \in Blk /\ Fresh(h1) = m /\ EvalBlock(h, b, br) = m
    BY <1>2, <2>1 DEF Fresh, EvalBlock, Recorded
  <2> HIDE DEF h1
  <2>3. Recorded(h2) /\ Unended(h2) \subseteq Unended(h1) \cup {m}
    BY <2>1, <2>2, UnendedCreate
  <2> HIDE DEF h2
  <2>4. Recorded(h3) /\ Unended(h3) \subseteq Unended(h2) \ {b}
    <3>1. "if" \in Kinds \ {"none"}
      BY DEF Kinds
    <3> QED
      BY <2>3, <3>1, UnendedTerminate
  <2> HIDE DEF h3, n, m
  <2>5. Recorded(h4) /\ Unended(h4) = Unended(h3)
    BY <2>4, UnendedSetters
  <2> HIDE DEF h4
  <2>6. Recorded(h5) /\ Unended(h5) = Unended(h4)
    BY <2>5, UnendedSetters
  <2> HIDE DEF h5
  <2>7. Recorded(h6) /\ Unended(h6) \subseteq Unended(h5) \ {n}
    BY <2>2, <2>6, UnendedGoto
  <2>8. EvalGraph(h, b, br) = h6
    BY <1>2 DEF EvalGraph, h6, h5, h4, h3, h2, h1, m, n
  <2> HIDE DEF h6
  <2> QED
    BY <2>1, <2>2, <2>3, <2>4, <2>5, <2>6, <2>7, <2>8
<1> QED
  BY <1>1, <1>2

\* A handler that opens a block leaves the current one closed.
LEMMA UnendedOpen ==
  ASSUME BInv, Room(Opens)
  PROVE  /\ Recorded(OpenGraph) /\ OpenBlock \in Blk
         /\ Unended(OpenGraph) \ {OpenBlock} \subseteq Unended(g) \ {curr}
<1>1. Recorded(g) /\ Balanced(g) /\ curr \in Blocks(g)
  BY StateFacts, StateRecorded
<1>2. OpenBlock \in Blocks(OpenGraph) /\ Follows(g, OpenGraph)
  BY <1>1, OpenFollows
<1>3. OpenBlock \in Blk
  BY <1>1, <1>2, FollowsBlocks
<1>4. CASE Terminated(g, curr)
  <2>1. curr \notin Unended(g)
    BY <1>4 DEF Unended
  <2> QED
    BY <1>1, <1>3, <1>4, <2>1, UnendedCreate DEF OpenGraph, OpenBlock
<1>5. CASE ~Terminated(g, curr)
  BY <1>1, <1>3, <1>5 DEF OpenGraph, OpenBlock
<1> QED
  BY <1>4, <1>5

LEMMA UnendedOpenEval ==
  ASSUME BInv, NEW br \in BOOLEAN, NEW k \in Nat, Room(Opens + EvalSize(br) + k)
  PROVE  LET h == EvalGraph(OpenGraph, OpenBlock, br)
             b == EvalBlock(OpenGraph, OpenBlock, br)
         IN  Recorded(h) /\ b \in Blk /\ Unended(h) \ {b} \subseteq Unended(g) \ {curr}
<1> DEFINE h == EvalGraph(OpenGraph, OpenBlock, br)
           b == EvalBlock(OpenGraph, OpenBlock, br)
<1>1. Balanced(g) /\ curr \in Blocks(g) /\ g.n \in Nat /\ MaxBlocks \in Nat
  BY StateFacts
<1>2. Room(Opens)
  BY <1>1 DEF Room, Opens, EvalSize
<1>3. Recorded(OpenGraph) /\ OpenBlock \in Blk /\ OpenGraph.n = g.n + Opens
      /\ Unended(OpenGraph) \ {OpenBlock} \subseteq Unended(g) \ {curr}
  BY <1>1, <1>2, OpenFollows, UnendedOpen
<1>4. br => Fresh(OpenGraph) \in Blk
  BY <1>1, <1>3 DEF Room, Opens, EvalSize, Fresh, Blk
<1>5. Recorded(h) /\ Unended(h) \ {b} \subseteq Unended(OpenGraph) \ {OpenBlock}
  BY <1>3, <1>4, UnendedEval
<1>6. b \in Blocks(h) /\ Balanced(h)
  BY <1>1, OpenEvalFollows
<1>7. b \in Blk
  BY <1>6, BlocksType DEF Balanced, GraphOK
<1> QED
  BY <1>3, <1>5, <1>7

\* A new block, entered from the current one unless that has ended.
LEMMA UnendedEntered ==
  ASSUME BInv
  PROVE  LET r == GotoIfOpen(Create(g), curr, Fresh(g))
         IN  Recorded(r) /\ Unended(r) \ {Fresh(g)} \subseteq Unended(g) \ {curr}
<1> DEFINE c == Create(g)
           r == GotoIfOpen(c, curr, Fresh(g))
<1>1. Recorded(g) /\ curr \in Blk
  BY StateFacts, StateRecorded
<1>2. Recorded(c) /\ Unended(c) \subseteq Unended(g) \cup {Fresh(g)}
  BY <1>1, UnendedCreate
<1> HIDE DEF c
<1>3. Recorded(r) /\ Unended(r) \subseteq Unended(c) \ {curr}
  BY <1>1, <1>2, UnendedGoto
<1> QED
  BY <1>2, <1>3 DEF c

\* The blocks a frame will come back to: the end of a then branch while its else is
\* built, the init and the step of a loop.
Left(f) ==
  IF f.stmt = "if" THEN IF f.inElse THEN {f.thenExit} ELSE {}
  ELSE IF f.stmt = "loop"
  THEN (IF f.init # Null THEN {f.initExit} ELSE {}) \cup (IF f.step # Null THEN {f.stepExit} ELSE {})
  ELSE {}

Remaining(st) == UNION {Left(st[i]) : i \in 1 .. Len(st)}

LEMMA RemainingPush ==
  ASSUME stack \in Seq(Frames), NEW f \in Frames
  PROVE  Remaining(stack) \cup Left(f) \subseteq Remaining(Push(f))
<1>1. /\ Len(Push(f)) = Len(stack) + 1 /\ Len(stack) \in Nat /\ Push(f)[Len(stack) + 1] = f
      /\ \A i \in 1 .. Len(stack) : Push(f)[i] = stack[i]
  BY DEF Push
<1> QED
  BY <1>1 DEF Remaining

LEMMA RemainingPop ==
  ASSUME stack \in Seq(Frames), stack # << >>
  PROVE  Remaining(stack) \subseteq Remaining(Pop) \cup Left(Top)
<1>1. /\ Len(stack) \in Nat \ {0} /\ Len(Pop) = Len(stack) - 1
      /\ \A i \in 1 .. Len(stack) - 1 : Pop[i] = stack[i]
  BY EmptySeq DEF Pop
<1>2. ASSUME NEW i \in 1 .. Len(stack) PROVE Left(stack[i]) \subseteq Remaining(Pop) \cup Left(Top)
  <2>1. CASE i = Len(stack)
    BY <2>1 DEF Top
  <2>2. CASE i # Len(stack)
    <3>1. i \in 1 .. Len(Pop) /\ Pop[i] = stack[i]
      BY <1>1, <2>2
    <3> QED
      BY <3>1 DEF Remaining
  <2> QED
    BY <2>1, <2>2
<1> QED
  BY <1>2 DEF Remaining

LEMMA RemainingSet ==
  ASSUME stack \in Seq(Frames), NEW i \in 1 .. Len(stack), NEW f \in Frames,
         Left(stack[i]) \subseteq Left(f), NEW st, st = [stack EXCEPT ![i] = f]
  PROVE  Remaining(stack) \cup Left(f) \subseteq Remaining(st)
<1>1. /\ Len(st) = Len(stack) /\ st[i] = f
      /\ \A j \in 1 .. Len(stack) : j # i => st[j] = stack[j]
  OBVIOUS
<1>2. ASSUME NEW j \in 1 .. Len(stack) PROVE Left(stack[j]) \subseteq Left(st[j])
  BY <1>1
<1>3. Left(f) \subseteq Remaining(st)
  BY <1>1 DEF Remaining
<1>4. Remaining(stack) \subseteq Remaining(st)
  BY <1>1, <1>2 DEF Remaining
<1> QED
  BY <1>3, <1>4


\* While a function is built, every block without a terminator is the current one or
\* one a frame will come back to.
Kept == stack # << >> => Unended(g) \ {curr} \subseteq Remaining(stack)

LEMMA SimpleKept ==
  ASSUME BInv, Kept, NEW br \in BOOLEAN, VisitExprStmt(br) \/ VisitReturn(br)
  PROVE  Unended(g') \ {curr'} \subseteq Remaining(stack')
<1> DEFINE h == EvalGraph(OpenGraph, OpenBlock, br)
           b == EvalBlock(OpenGraph, OpenBlock, br)
           r == Terminate(h, b, "return")
<1>1. /\ Running /\ Room(Opens + EvalSize(br)) /\ curr' = b /\ stack' = stack
      /\ VisitExprStmt(br) => g' = h
      /\ VisitReturn(br) => g' = r
  BY DEF VisitExprStmt, VisitReturn
<1>2. Room(Opens + EvalSize(br) + 0)
  BY <1>1, StateFacts DEF Room, Opens, EvalSize
<1>3. Recorded(h) /\ b \in Blk /\ Unended(h) \ {b} \subseteq Unended(g) \ {curr}
  BY <1>2, UnendedOpenEval
<1> HIDE DEF h, b
<1>4. Unended(r) \subseteq Unended(h) \ {b}
  <2>1. "return" \in Kinds \ {"none"}
    BY DEF Kinds
  <2> QED
    BY <1>3, <2>1, UnendedTerminate
<1> HIDE DEF r
<1>5. Unended(g) \ {curr} \subseteq Remaining(stack)
  BY <1>1, RunningFacts DEF Kept
<1>6. ASSUME VisitExprStmt(br) PROVE Unended(g') \ {curr'} \subseteq Remaining(stack')
  BY <1>1, <1>3, <1>5, <1>6
<1>7. ASSUME VisitReturn(br) PROVE Unended(g') \ {curr'} \subseteq Remaining(stack')
  BY <1>1, <1>3, <1>4, <1>5, <1>7
<1> QED
  BY <1>6, <1>7

\* Ending the block a handler has opened.
LEMMA UnendedEnded ==
  ASSUME BInv, Room(Opens), NEW k \in Kinds \ {"none"}
  PROVE  LET r == Terminate(OpenGraph, OpenBlock, k)
         IN  Recorded(r) /\ Unended(r) \subseteq Unended(g) \ {curr}
  BY UnendedOpen, UnendedTerminate

\* After a return the current block is ended.
LEMMA ReturnEnds ==
  ASSUME BInv, NEW br \in BOOLEAN, VisitReturn(br)
  PROVE  curr' \notin Unended(g')
<1> DEFINE h == EvalGraph(OpenGraph, OpenBlock, br)
           b == EvalBlock(OpenGraph, OpenBlock, br)
<1>1. Room(Opens + EvalSize(br)) /\ curr' = b /\ g' = Terminate(h, b, "return")
  BY DEF VisitReturn
<1>2. Room(Opens + EvalSize(br) + 0)
  BY <1>1, StateFacts DEF Room, Opens, EvalSize
<1>3. Recorded(h) /\ b \in Blk
  BY <1>2, UnendedOpenEval
<1> HIDE DEF h, b
<1>4. "return" \in Kinds \ {"none"}
  BY DEF Kinds
<1> QED
  BY <1>1, <1>3, <1>4, UnendedTerminate

LEMMA GotoKept ==
  ASSUME BInv, Kept, NEW l \in Labels, VisitGoto(l)
  PROVE  Unended(g') \ {curr'} \subseteq Remaining(stack')
<1> DEFINE h == Terminate(OpenGraph, OpenBlock, "goto")
           t == labeled[l]
<1>1. /\ Running /\ Room(Opens) /\ stack' = stack
      /\ g' = SetGoto(h, OpenBlock, t) \/ g' = h
  BY DEF VisitGoto
<1>2. Recorded(h) /\ Unended(h) \subseteq Unended(g) \ {curr}
  <2>1. "goto" \in Kinds \ {"none"}
    BY DEF Kinds
  <2> QED
    BY <1>1, <2>1, UnendedEnded
<1> HIDE DEF h, t
<1>3. Unended(g') = Unended(h)
  BY <1>1, <1>2, UnendedSetters
<1> QED
  BY <1>1, <1>2, <1>3, RunningFacts DEF Kept

LEMMA LabelDeclKept ==
  ASSUME BInv, Kept, NEW l \in Labels, VisitLabelDecl(l)
  PROVE  Unended(g') \ {curr'} \subseteq Remaining(stack')
<1> DEFINE n == Fresh(g)
           h == GotoIfOpen(Create(g), curr, n)
           p == pending[l]
           r == SetGotos(h, p, n)
           a == "num_pending_gotos() == 0"
<1>1. /\ Running /\ stack' = stack /\ curr' = n
      /\ g' = r \/ g' = Fail(r, a)
  BY DEF VisitLabelDecl
<1>2. Recorded(h) /\ Unended(h) \ {n} \subseteq Unended(g) \ {curr}
  BY UnendedEntered
<1> HIDE DEF h, n, p, a
<1>3. Recorded(r) /\ Unended(r) = Unended(h)
  BY <1>2, UnendedSetGotos
<1> HIDE DEF r
<1>4. Unended(g') = Unended(h)
  BY <1>1, <1>3, UnendedFail
<1> QED
  BY <1>1, <1>2, <1>4, RunningFacts DEF Kept

LEMMA CaseKept ==
  ASSUME BInv, Kept, VisitCase, FindInfo({"switch"}) # 0
  PROVE  Unended(g') \ {curr'} \subseteq Remaining(stack')
<1> DEFINE n == Fresh(g)
           h == GotoIfOpen(Create(g), curr, n)
           b == stack[FindInfo({"switch"})].blk
<1>1. /\ Running /\ stack' = stack /\ curr' = n /\ g' = AddCase(h, b, n)
  BY DEF VisitCase
<1>2. Recorded(h) /\ Unended(h) \ {n} \subseteq Unended(g) \ {curr}
  BY UnendedEntered
<1> HIDE DEF h, n, b
<1>3. Unended(g') = Unended(h)
  BY <1>1, <1>2, UnendedSet
<1> QED
  BY <1>1, <1>2, <1>3, RunningFacts DEF Kept

LEMMA ContinueKept ==
  ASSUME BInv, Kept, VisitContinue, FindInfo({"loop"}) # 0
  PROVE  Unended(g') \ {curr'} \subseteq Remaining(stack')
<1> DEFINE t == ContinueTarget(stack[FindInfo({"loop"})])
           h == OpenGraph
           b == OpenBlock
<1>1. /\ Running /\ Room(Opens) /\ stack' = stack /\ curr' = b /\ g' = GotoTo(h, b, t)
  BY DEF VisitContinue
<1>2. Recorded(h) /\ b \in Blk /\ Unended(h) \ {b} \subseteq Unended(g) \ {curr}
  BY <1>1, UnendedOpen
<1> HIDE DEF h, b, t
<1>3. Unended(g') \subseteq Unended(h) \ {b}
  BY <1>1, <1>2, UnendedGoto
<1> QED
  BY <1>1, <1>2, <1>3, RunningFacts DEF Kept

LEMMA BreakKept ==
  ASSUME BInv, Kept, VisitBreak, FindInfo({"loop", "switch"}) # 0
  PROVE  Unended(g') \ {curr'} \subseteq Remaining(stack')
<1> DEFINE i == FindInfo({"loop", "switch"})
           f == [stack[i] EXCEPT !.merges = Append(stack[i].merges, OpenBlock)]
           h == Terminate(OpenGraph, OpenBlock, "goto")
<1>1. /\ Running /\ Room(Opens) /\ stack' = [stack EXCEPT ![i] = f] /\ g' = h
  BY DEF VisitBreak
<1>2. Unended(h) \subseteq Unended(g) \ {curr}
  <2>1. "goto" \in Kinds \ {"none"}
    BY DEF Kinds
  <2> QED
    BY <1>1, <2>1, UnendedEnded
<1> HIDE DEF h
<1>3. /\ stack \in Seq(Frames) /\ i \in 1 .. Len(stack) /\ stack[i].stmt \in {"loop", "switch"}
      /\ stack[i] \in Frames
  BY StateFacts, FindsInfo, ElementOfSeq
<1>4. f \in Frames /\ Left(f) = Left(stack[i])
  <2>1. OpenBlock \in Blk
    BY <1>1, UnendedOpen
  <2> DEFINE e == stack[i]
  <2>2. e.merges \in Seq(Blk) /\ (e \in LoopFrames \/ e \in SwitchFrames)
    BY <1>3, FrameTypes, FrameFields
  <2> HIDE DEF e
  <2> DEFINE s == Append(e.merges, OpenBlock)
  <2>3. s \in Seq(Blk)
    BY <2>1, <2>2
  <2> HIDE DEF s
  <2>4. [e EXCEPT !.merges = s] \in Frames /\ Left([e EXCEPT !.merges = s]) = Left(e)
    BY <2>2, <2>3 DEF Frames, LoopFrames, SwitchFrames, Left
  <2> QED
    BY <2>4 DEF e, s
<1> HIDE DEF f, i
<1>5. Remaining(stack) \subseteq Remaining(stack')
  BY <1>1, <1>3, <1>4, RemainingSet
<1> QED
  BY <1>1, <1>2, <1>5, RunningFacts DEF Kept


LEMMA EnterIfKept ==
  ASSUME BInv, Kept, NEW br \in BOOLEAN, EnterIf(br)
  PROVE  Unended(g') \ {curr'} \subseteq Remaining(stack')
<1> DEFINE h == EvalGraph(OpenGraph, OpenBlock, br)
           b == EvalBlock(OpenGraph, OpenBlock, br)
           c == Create(h)
           n == Fresh(h)
           t == Terminate(c, b, "if")
           f == [stmt |-> "if", blk |-> b, thenExit |-> Null, inElse |-> FALSE]
<1>1. /\ Running /\ Room(Opens + EvalSize(br) + 1) /\ curr' = n
      /\ g' = SetThen(t, b, n) /\ stack' = Push(f)
  BY DEF EnterIf
<1>2. Recorded(h) /\ b \in Blk /\ Unended(h) \ {b} \subseteq Unended(g) \ {curr}
  BY <1>1, UnendedOpenEval
<1>3. f \in Frames
  BY <1>2 DEF Frames, IfFrames, Null
<1> HIDE DEF h, b, f
<1>4. Recorded(c) /\ Unended(c) \subseteq Unended(h) \cup {n}
  BY <1>2, UnendedCreate
<1> HIDE DEF c, n
<1>5. Recorded(t) /\ Unended(t) \subseteq Unended(c) \ {b}
  <2>1. "if" \in Kinds \ {"none"}
    BY DEF Kinds
  <2> QED
    BY <1>2, <1>4, <2>1, UnendedTerminate
<1> HIDE DEF t
<1>6. Unended(g') = Unended(t)
  BY <1>1, <1>5, UnendedSetters
<1>7. Remaining(stack) \subseteq Remaining(stack')
  BY <1>1, <1>3, StateFacts, RemainingPush
<1>8. Unended(g) \ {curr} \subseteq Remaining(stack)
  BY <1>1, RunningFacts DEF Kept
<1> QED
  BY <1>1, <1>2, <1>4, <1>5, <1>6, <1>7, <1>8

LEMMA EnterSwitchKept ==
  ASSUME BInv, Kept, NEW br \in BOOLEAN, EnterSwitch(br)
  PROVE  Unended(g') \ {curr'} \subseteq Remaining(stack')
<1> DEFINE h == EvalGraph(OpenGraph, OpenBlock, br)
           b == EvalBlock(OpenGraph, OpenBlock, br)
           e == << >>
           f == [stmt |-> "switch", blk |-> b, merges |-> e]
<1>1. /\ Running /\ Room(Opens + EvalSize(br)) /\ curr' = b
      /\ g' = Terminate(h, b, "switch") /\ stack' = Push(f)
  BY DEF EnterSwitch
<1>2. Room(Opens + EvalSize(br) + 0)
  BY <1>1, StateFacts DEF Room, Opens, EvalSize
<1>3. Recorded(h) /\ b \in Blk /\ Unended(h) \ {b} \subseteq Unended(g) \ {curr}
  BY <1>2, UnendedOpenEval
<1>4. f \in Frames
  <2>1. e \in Seq(Blk)
    OBVIOUS
  <2> HIDE DEF e, b
  <2> QED
    BY <1>3, <2>1 DEF Frames, SwitchFrames
<1> HIDE DEF h, b, f
<1>5. Unended(g') \subseteq Unended(h) \ {b}
  <2>1. "switch" \in Kinds \ {"none"}
    BY DEF Kinds
  <2> QED
    BY <1>1, <1>3, <2>1, UnendedTerminate
<1>6. Remaining(stack) \subseteq Remaining(stack')
  BY <1>1, <1>4, StateFacts, RemainingPush
<1> QED
  BY <1>1, <1>3, <1>5, <1>6, RunningFacts DEF Kept

\* The end of the then branch is left for the statement's end.
LEMMA EnterElseKept ==
  ASSUME BInv, Kept, EnterElse
  PROVE  Unended(g') \ {curr'} \subseteq Remaining(stack')
<1> DEFINE n == Fresh(g)
           c == Create(g)
           b == Top.blk
           i == Len(stack)
           f == [Top EXCEPT !.thenExit = curr, !.inElse = TRUE]
<1>1. /\ Running /\ Top.stmt = "if" /\ ~Top.inElse /\ curr' = n
      /\ g' = SetElse(c, b, n) /\ stack' = [stack EXCEPT ![i] = f]
  BY DEF EnterElse, SetTop
<1>2. i \in 1 .. i /\ Top = stack[i] /\ Top \in IfFrames
  BY <1>1, RunningFacts, TopFacts, FrameTypes
<1>3. f \in Frames /\ Left(f) = {curr} /\ Left(stack[i]) = {}
  BY <1>1, <1>2, StateFacts DEF Left, IfFrames, Frames
<1>4. Recorded(c) /\ Unended(c) \subseteq Unended(g) \cup {n}
  BY StateFacts, StateRecorded, UnendedCreate
<1> HIDE DEF c, n, b, f
<1>5. Unended(g') = Unended(c)
  BY <1>1, <1>4, UnendedSetters
<1>6. Remaining(stack) \cup Left(f) \subseteq Remaining(stack')
  BY <1>1, <1>2, <1>3, StateFacts, RemainingSet
<1> QED
  BY <1>1, <1>3, <1>4, <1>5, <1>6, RunningFacts DEF Kept

LEMMA ExitIfKept ==
  ASSUME BInv, Kept, ExitIfNoElse \/ ExitIfBothEnded \/ ExitIfMerge
  PROVE  Unended(g') \ {curr'} \subseteq Remaining(stack')
<1> DEFINE n == Fresh(g)
           c == Create(g)
           b == Top.thenExit
<1>1. Running /\ stack' = Pop /\ Top.stmt = "if"
  BY DEF ExitIfNoElse, ExitIfBothEnded, ExitIfMerge
<1>2. Unended(g) \ {curr} \subseteq Remaining(stack') \cup Left(Top)
  <2>1. Remaining(stack) \subseteq Remaining(Pop) \cup Left(Top)
    BY <1>1, RunningFacts, StateFacts, RemainingPop
  <2> QED
    BY <1>1, <2>1, RunningFacts DEF Kept
<1>3. Left(Top) = IF Top.inElse THEN {b} ELSE {}
  BY <1>1 DEF Left
<1>4. CASE ExitIfNoElse
  <2> DEFINE h == GotoIfOpen(c, curr, n)
             p == Top.blk
  <2>1. ~Top.inElse /\ curr' = n /\ g' = SetElse(h, p, n)
    BY <1>4 DEF ExitIfNoElse
  <2>2. Recorded(h) /\ Unended(h) \ {n} \subseteq Unended(g) \ {curr}
    BY UnendedEntered
  <2> HIDE DEF h, n, p
  <2>3. Unended(g') = Unended(h)
    BY <2>1, <2>2, UnendedSetters
  <2> QED
    BY <1>2, <1>3, <2>1, <2>2, <2>3
<1>5. CASE ExitIfBothEnded
  <2>1. Top.inElse /\ Terminated(g, b) /\ Terminated(g, curr) /\ curr' = b /\ g' = g
    BY <1>5 DEF ExitIfBothEnded
  <2>2. b \notin Unended(g) /\ curr \notin Unended(g)
    BY <2>1 DEF Unended
  <2> QED
    BY <1>2, <1>3, <2>1, <2>2
<1>6. CASE ExitIfMerge
  <2> DEFINE h == GotoIfOpen(c, b, n)
             r == GotoIfOpen(h, curr, n)
  <2>1. Top.inElse /\ curr' = n /\ g' = r
    BY <1>6 DEF ExitIfMerge
  <2>2. curr \in Blk /\ b \in Blk /\ Recorded(g)
    BY <1>1, <2>1, RunningFacts, TopFacts, StateFacts, StateRecorded, BlocksType DEF FrameOK, GraphOK
  <2>3. Recorded(c) /\ Unended(c) \subseteq Unended(g) \cup {n}
    BY <2>2, UnendedCreate
  <2> HIDE DEF c, n, b
  <2>4. Recorded(h) /\ Unended(h) \subseteq Unended(c) \ {b}
    BY <2>2, <2>3, UnendedGoto
  <2> HIDE DEF h
  <2>5. Unended(r) \subseteq Unended(h) \ {curr}
    BY <2>2, <2>4, UnendedGoto
  <2> HIDE DEF r
  <2> QED
    BY <1>2, <1>3, <2>1, <2>3, <2>4, <2>5
<1> QED
  BY <1>4, <1>5, <1>6

\* Whatever falls out of a switch's body is lost: only a body that ends keeps this.
LEMMA ExitSwitchKept ==
  ASSUME BInv, Kept, ExitSwitch, Terminated(g, curr)
  PROVE  Unended(g') \ {curr'} \subseteq Remaining(stack')
<1> DEFINE n == Fresh(g)
           c == Create(g)
           p == Top.merges
<1>1. /\ Running /\ Top.stmt = "switch" /\ stack' = Pop /\ curr' = n
      /\ g' = SetGotos(c, p, n)
  BY DEF ExitSwitch
<1>2. Recorded(c) /\ Unended(c) \subseteq Unended(g) \cup {n}
  BY StateFacts, StateRecorded, UnendedCreate
<1> HIDE DEF c, n, p
<1>3. Unended(g') = Unended(c)
  BY <1>1, <1>2, UnendedSetGotos
<1>4. Left(Top) = {} /\ curr \notin Unended(g)
  BY <1>1 DEF Left, Unended
<1>5. Remaining(stack) \subseteq Remaining(Pop) \cup Left(Top)
  BY <1>1, RunningFacts, StateFacts, RemainingPop
<1> QED
  BY <1>1, <1>2, <1>3, <1>4, <1>5, RunningFacts DEF Kept


\* The init or the step of a loop, when there is one: a block that stays open.
LEMMA UnendedPart ==
  ASSUME NEW h, Recorded(h), NEW has \in BOOLEAN
  PROVE  LET r == IF has THEN AddInstruction(Create(h), Fresh(h)) ELSE h
         IN  /\ Recorded(r)
             /\ Unended(r) \subseteq Unended(h) \cup (IF has THEN {Fresh(h)} ELSE {})
<1> DEFINE c == Create(h)
<1>1. Recorded(c) /\ Unended(c) \subseteq Unended(h) \cup {Fresh(h)}
  BY UnendedCreate
<1> HIDE DEF c
<1>2. /\ Recorded(AddInstruction(c, Fresh(h)))
      /\ Unended(AddInstruction(c, Fresh(h))) = Unended(c)
  BY <1>1, UnendedInstruction
<1> QED
  BY <1>1, <1>2 DEF c

\* The condition, when there is one, ends in an If.
LEMMA UnendedCond ==
  ASSUME NEW h, Recorded(h), NEW has \in BOOLEAN, NEW br \in BOOLEAN,
         has => Fresh(h) \in Blk /\ EvalBlock(Create(h), Fresh(h), br) \in Blk,
         has /\ br => Fresh(Create(h)) \in Blk
  PROVE  LET x == EvalBlock(Create(h), Fresh(h), br)
             r == IF has THEN Terminate(EvalGraph(Create(h), Fresh(h), br), x, "if") ELSE h
         IN  Recorded(r) /\ Unended(r) \subseteq Unended(h)
<1>1. CASE ~has
  BY <1>1
<1>2. CASE has
  <2> DEFINE n == Fresh(h)
             c == Create(h)
             x == EvalBlock(c, n, br)
             e == EvalGraph(c, n, br)
             r == Terminate(e, x, "if")
  <2>1. n \in Blk /\ x \in Blk /\ (br => Fresh(c) \in Blk)
    BY <1>2
  <2>2. Recorded(c) /\ Unended(c) \subseteq Unended(h) \cup {n}
    BY UnendedCreate
  <2> HIDE DEF c, n
  <2>3. Recorded(e) /\ Unended(e) \ {x} \subseteq Unended(c) \ {n}
    BY <2>1, <2>2, UnendedEval
  <2> HIDE DEF e, x
  <2>4. Recorded(r) /\ Unended(r) \subseteq Unended(e) \ {x}
    <3>1. "if" \in Kinds \ {"none"}
      BY DEF Kinds
    <3> QED
      BY <2>1, <2>3, <3>1, UnendedTerminate
  <2> HIDE DEF r
  <2>5. Recorded(r) /\ Unended(r) \subseteq Unended(h)
    BY <2>2, <2>3, <2>4
  <2> QED
    BY <1>2, <2>5 DEF r, e, x, c, n
<1> QED
  BY <1>1, <1>2

LEMMA EnterLoopKept ==
  ASSUME BInv, Kept, NEW s \in Shapes, NEW br \in BOOLEAN, EnterLoop(s, br)
  PROVE  Unended(g') \ {curr'} \subseteq Remaining(stack')
<1> DEFINE entry == OpenBlock
           g1    == Terminate(OpenGraph, entry, "goto")
           init  == IF s.init THEN Fresh(g1) ELSE Null
           g2    == IF s.init THEN AddInstruction(Create(g1), Fresh(g1)) ELSE g1
           x     == EvalBlock(Create(g2), Fresh(g2), br)
           cond  == IF s.cond THEN Fresh(g2) ELSE Null
           cexit == IF s.cond THEN x ELSE Null
           g3    == IF s.cond
                    THEN Terminate(EvalGraph(Create(g2), Fresh(g2), br), x, "if")
                    ELSE g2
           step  == IF s.step THEN Fresh(g3) ELSE Null
           g4    == IF s.step THEN AddInstruction(Create(g3), Fresh(g3)) ELSE g3
           g5    == Create(g4)
           body  == Fresh(g4)
           e     == << >>
           f     == [stmt |-> "loop", entry |-> entry, init |-> init, initExit |-> init,
                     cond |-> cond, condExit |-> cexit, step |-> step, stepExit |-> step,
                     body |-> body, dowhile |-> s.dowhile, merges |-> e]
<1>0. s.init \in BOOLEAN /\ s.cond \in BOOLEAN /\ s.step \in BOOLEAN /\ s.dowhile \in BOOLEAN
  BY DEF Shapes
<1>1. /\ Running /\ g' = g5 /\ stack' = Push(f) /\ curr' = body
      /\ br => s.cond
  BY ZenonT(60) DEF EnterLoop
<1>2. /\ One(s.init) \in Nat /\ One(s.cond) \in Nat /\ One(s.step) \in Nat
      /\ Opens \in Nat /\ EvalSize(br) \in Nat /\ g.n \in Nat /\ MaxBlocks \in Nat
      /\ g.n + (Opens + (One(s.init) + One(s.cond) + One(s.step) + 1) + EvalSize(br)) <= MaxBlocks
  <2>1. /\ One(s.init) \in Nat /\ One(s.cond) \in Nat /\ One(s.step) \in Nat
        /\ Opens \in Nat /\ EvalSize(br) \in Nat /\ g.n \in Nat /\ MaxBlocks \in Nat
    BY StateFacts DEF One, Opens, EvalSize
  <2>2. Room(Opens + LoopSize(s) + EvalSize(br))
    BY DEF EnterLoop
  <2>3. LoopSize(s) = One(s.init) + One(s.cond) + One(s.step) + 1
    BY DEF LoopSize, One
  <2> QED
    BY <2>1, <2>2, <2>3 DEF Room
<1>3. /\ Recorded(g1) /\ Unended(g1) \subseteq Unended(g) \ {curr} /\ g1.n = g.n + Opens
      /\ Balanced(g1)
  <2>1. "goto" \in Kinds \ {"none"} /\ Room(Opens)
    BY <1>2 DEF Kinds, Room
  <2>2. g1.n = g.n + Opens
    BY <2>1, Ended DEF BInv, Grows
  <2>3. Balanced(g1)
    BY <2>1, EndedFollows
  <2> QED
    BY <2>1, <2>2, <2>3, UnendedEnded
<1>4. f \in Frames
  <2>1. IInv'
    BY EnterLoopOK DEF BInv
  <2>2. stack' \in Seq(Frames)
    BY <2>1 DEF IInv, StackOK
  <2> HIDE DEF f
  <2>3. Append(stack, f) \in Seq(Frames) /\ stack \in Seq(Frames)
    BY <1>1, <2>2, StateFacts DEF Push
  <2>4. Len(stack) \in Nat /\ Len(Append(stack, f)) = Len(stack) + 1 /\ Append(stack, f)[Len(stack) + 1] = f
    BY <2>3
  <2>5. Len(stack) + 1 \in 1 .. Len(Append(stack, f))
    BY <2>4
  <2> QED
    BY <2>3, <2>4, <2>5, ElementOfSeq
<1> HIDE DEF entry, g1, e
<1>5. /\ Recorded(g2) /\ Unended(g2) \subseteq Unended(g1) \cup (IF s.init THEN {init} ELSE {})
      /\ Balanced(g2) /\ g2.n = g1.n + One(s.init)
  <2>1. g1.n + One(s.init) <= MaxBlocks
    BY <1>2, <1>3
  <2>2. Balanced(g2) /\ g2.n = g1.n + One(s.init)
    BY <1>0, <1>3, <2>1, PartFollows
  <2> QED
    BY <1>0, <1>3, <2>2, UnendedPart
<1> HIDE DEF g2
<1>6. /\ Recorded(g3) /\ Unended(g3) \subseteq Unended(g2)
  <2>1. g2.n + (One(s.cond) + EvalSize(br)) <= MaxBlocks /\ g2.n \in Nat
    BY <1>2, <1>3, <1>5
  <2>2. s.cond => x \in Blk
    BY <1>0, <1>1, <1>5, <2>1, CondFollows
  <2>3. s.cond => Fresh(g2) \in Blk
    BY <1>2, <2>1 DEF Fresh, Blk, One
  <2>4. s.cond /\ br => Fresh(Create(g2)) \in Blk
    <3>1. Create(g2).n = g2.n + 1
      BY <1>5, UnendedCreate
    <3> QED
      BY <1>2, <2>1, <3>1 DEF Fresh, Blk, One, EvalSize
  <2> QED
    BY <1>0, <1>5, <2>2, <2>3, <2>4, UnendedCond
<1> HIDE DEF g3, x
<1>7. Recorded(g4) /\ Unended(g4) \subseteq Unended(g3) \cup (IF s.step THEN {step} ELSE {})
  BY <1>0, <1>6, UnendedPart
<1>8. (s.init => init # Null) /\ (s.step => step # Null)
  BY <1>3, <1>6 DEF Fresh, Null, Recorded
<1> HIDE DEF g4
<1>9. Unended(g5) \subseteq Unended(g4) \cup {body}
  BY <1>7, UnendedCreate
<1> HIDE DEF g5, body
<1>10. (IF s.init THEN {init} ELSE {}) \cup (IF s.step THEN {step} ELSE {}) \subseteq Left(f)
  BY <1>0, <1>8 DEF Left
<1> HIDE DEF f, init, step
<1>11. Remaining(stack) \cup Left(f) \subseteq Remaining(stack')
  BY <1>1, <1>4, StateFacts, RemainingPush
<1>12. Unended(g) \ {curr} \subseteq Remaining(stack)
  BY <1>1, RunningFacts DEF Kept
<1> QED
  BY <1>1, <1>3, <1>5, <1>6, <1>7, <1>9, <1>10, <1>11, <1>12

\* The end of a loop ends all the blocks it has left.
LEMMA ExitLoopKept ==
  ASSUME BInv, Kept, ExitLoop
  PROVE  Unended(g') \ {curr'} \subseteq Remaining(stack')
<1> DEFINE f  == Top
           m  == Fresh(g)
           c  == Create(g)
           g1 == SetGoto(c, f.entry, EntryTarget(f))
           bt == BackedgeTarget(f)
           g2 == IF f.init # Null THEN GotoIfOpen(g1, f.initExit, bt) ELSE g1
           g3 == IF f.cond # Null THEN SetThen(g2, f.condExit, f.body) ELSE g2
           g4 == GotoIfOpen(g3, curr, BodyTarget(f))
           g5 == IF f.step # Null THEN GotoIfOpen(g4, f.stepExit, bt) ELSE g4
           g6 == IF f.cond # Null THEN SetElse(g5, f.condExit, m) ELSE g5
           g7 == SetGotos(g6, f.merges, m)
<1>1. /\ Running /\ f.stmt = "loop" /\ g' = g7 /\ stack' = Pop /\ curr' = m
  BY DEF ExitLoop
<1>2. /\ f.init # Null => f.initExit \in Blk
      /\ f.step # Null => f.stepExit \in Blk
      /\ curr \in Blk
  <2>1. FrameOK(g, f)
    BY <1>1, RunningFacts, TopFacts
  <2> QED
    BY <1>1, <2>1, StateFacts, BlocksType DEF FrameOK, GraphOK
<1>3. Left(f) = (IF f.init # Null THEN {f.initExit} ELSE {}) \cup (IF f.step # Null THEN {f.stepExit} ELSE {})
  BY <1>1 DEF Left
<1>4. Unended(g) \ {curr} \subseteq Remaining(stack') \cup Left(f)
  <2>1. Remaining(stack) \subseteq Remaining(Pop) \cup Left(Top)
    BY <1>1, RunningFacts, StateFacts, RemainingPop
  <2> QED
    BY <1>1, <2>1, RunningFacts DEF Kept
<1>5. Recorded(c) /\ Unended(c) \subseteq Unended(g) \cup {m}
  BY StateFacts, StateRecorded, UnendedCreate
<1> HIDE DEF c, f, m, bt
<1>6. Recorded(g1) /\ Unended(g1) = Unended(c)
  BY <1>5, UnendedSetters
<1> HIDE DEF g1
<1>7. /\ Recorded(g2)
      /\ Unended(g2) \subseteq Unended(g1) \ (IF f.init # Null THEN {f.initExit} ELSE {})
  BY <1>2, <1>6, UnendedGoto
<1> HIDE DEF g2
<1>8. Recorded(g3) /\ Unended(g3) = Unended(g2)
  BY <1>7, UnendedSetters
<1> HIDE DEF g3
<1>9. Recorded(g4) /\ Unended(g4) \subseteq Unended(g3) \ {curr}
  BY <1>2, <1>8, UnendedGoto
<1> HIDE DEF g4
<1>10. /\ Recorded(g5)
       /\ Unended(g5) \subseteq Unended(g4) \ (IF f.step # Null THEN {f.stepExit} ELSE {})
  BY <1>2, <1>9, UnendedGoto
<1> HIDE DEF g5
<1>11. Recorded(g6) /\ Unended(g6) = Unended(g5)
  BY <1>10, UnendedSetters
<1> HIDE DEF g6
<1>12. Unended(g7) = Unended(g6)
  BY <1>11, UnendedSetGotos
<1> HIDE DEF g7
<1> QED
  BY <1>1, <1>3, <1>4, <1>5, <1>6, <1>7, <1>8, <1>9, <1>10, <1>11, <1>12


\* What the source analyses keep, and when a function may end: after a return
\* statement of its own, which leaves the current block ended.
SrcFrames ==
  [entry : BOOLEAN, then : BOOLEAN, always : BOOLEAN, thenAlways : BOOLEAN,
   brk : BOOLEAN, cont : BOOLEAN, dflt : BOOLEAN, infinite : BOOLEAN, last : BOOLEAN]

SrcOK == src \in Seq(SrcFrames) /\ Len(src) = Len(stack) /\ live \in BOOLEAN

LastEnds ==
  \A i \in 1 .. Len(stack) :
    stack[i].stmt = "func" /\ src[i].last => i = Len(stack) /\ curr \notin Unended(g)

\* The programs meant: functions without a value, switches whose bodies end.
Subject == result = "void" /\ "fallout" \notin family.has

\* The function's own list of statements lies below all others.
FuncBelow == stack # << >> => stack[1].stmt = "func"

ProgramInv ==
  /\ SrcOK /\ LastEnds /\ FuncBelow
  /\ Subject => Kept /\ (stack = << >> /\ funcs > 0 => Unended(g) = {})

LEMMA Fresh0Type == \A e \in BOOLEAN : Fresh0(e) \in SrcFrames /\ ~Fresh0(e).last
  BY DEF Fresh0, SrcFrames

\* t is src after an item that is not a return.
Quiet(t) ==
  /\ t \in Seq(SrcFrames) /\ Len(t) = Len(src) /\ ~t[Len(src)].last
  /\ \A i \in 1 .. Len(src) : i # Len(src) => t[i].last = src[i].last

LEMMA QuietSet ==
  ASSUME src \in Seq(SrcFrames), src # << >>, NEW i \in 1 .. Len(src), NEW r \in SrcFrames,
         r.last = src[i].last,
         NEW t, t = [[src EXCEPT ![i] = r] EXCEPT ![Len(src)].last = FALSE]
  PROVE  Quiet(t)
<1> DEFINE u == [src EXCEPT ![i] = r]
           n == Len(src)
<1>1. n \in Nat \ {0} /\ n \in 1 .. n
  BY EmptySeq
<1>2. /\ u \in Seq(SrcFrames) /\ Len(u) = n
      /\ \A j \in 1 .. n : u[j] \in SrcFrames /\ u[j].last = src[j].last
  BY ExceptType
<1> HIDE DEF u
<1> DEFINE e == [u[n] EXCEPT !.last = FALSE]
<1>3. e \in SrcFrames /\ ~e.last
  <2>1. u[n] \in SrcFrames
    BY <1>1, <1>2
  <2> QED
    BY <2>1 DEF SrcFrames
<1>4. t = [u EXCEPT ![n] = e]
  BY DEF u
<1> HIDE DEF e, n
<1>5. /\ t \in Seq(SrcFrames) /\ Len(t) = n /\ t[n] = e
      /\ \A j \in 1 .. n : j # n => t[j] = u[j]
  BY <1>1, <1>2, <1>3, <1>4, ExceptType
<1> QED
  BY <1>1, <1>2, <1>3, <1>5 DEF Quiet, n

LEMMA QuietItem ==
  ASSUME src \in Seq(SrcFrames), src # << >>,
         NEW t, t = [src EXCEPT ![Len(src)].last = FALSE]
  PROVE  Quiet(t)
<1> DEFINE r == src[Len(src)]
<1>1. Len(src) \in 1 .. Len(src) /\ r \in SrcFrames
  BY EmptySeq
<1>2. [src EXCEPT ![Len(src)] = r] = src
  BY <1>1
<1> HIDE DEF r
<1>3. t = [[src EXCEPT ![Len(src)] = r] EXCEPT ![Len(src)].last = FALSE]
  BY <1>2
<1> QED
  BY <1>1, <1>3, QuietSet DEF r

\* After such an item the function may not end.
LEMMA QuietHolds ==
  ASSUME ProgramInv, BInv, Quiet(src'), live' \in BOOLEAN,
         stack # << >>, stack' \in Seq(Frames), Len(stack') = Len(stack),
         \A i \in 1 .. Len(stack) : stack'[i].stmt = stack[i].stmt
  PROVE  SrcOK' /\ LastEnds' /\ FuncBelow' /\ stack' # << >>
<1>1. src' \in Seq(SrcFrames) /\ Len(src') = Len(stack')
  BY DEF Quiet, ProgramInv, SrcOK
<1>2. ASSUME NEW i \in 1 .. Len(stack), stack[i].stmt = "func", src'[i].last PROVE FALSE
  <2>1. i # Len(src) /\ src[i].last
    BY <1>2 DEF Quiet, ProgramInv, SrcOK
  <2> QED
    BY <1>2, <2>1 DEF ProgramInv, LastEnds, SrcOK
<1>3. stack' # << >> /\ stack'[1].stmt = "func"
  <2>1. Len(stack) \in Nat \ {0} /\ 1 \in 1 .. Len(stack)
    BY StateFacts, EmptySeq
  <2> QED
    BY <2>1, EmptySeq DEF ProgramInv, FuncBelow
<1> QED
  BY <1>1, <1>2, <1>3 DEF SrcOK, LastEnds, FuncBelow

LEMMA PushHolds ==
  ASSUME ProgramInv, BInv, stack # << >>, live' \in BOOLEAN,
         NEW r \in SrcFrames, ~r.last, src' = SPush(r), NEW f, stack' = Push(f)
  PROVE  SrcOK' /\ LastEnds' /\ FuncBelow' /\ stack' # << >>
<1> DEFINE t == [src EXCEPT ![Len(src)].last = FALSE]
           n == Len(src)
<1>1. src \in Seq(SrcFrames) /\ n = Len(stack) /\ n \in Nat \ {0} /\ src # << >>
      /\ stack \in Seq(Frames)
  BY StateFacts, EmptySeq DEF ProgramInv, SrcOK
<1>2. Quiet(t)
  BY <1>1, QuietItem
<1>3. src' = Append(t, r)
  BY DEF SPush
<1> HIDE DEF t
<1>4. /\ Len(src') = n + 1 /\ src' \in Seq(SrcFrames) /\ src'[n + 1] = r
      /\ \A i \in 1 .. n : src'[i] = t[i]
  BY <1>2, <1>3 DEF Quiet
<1>5. /\ Len(stack') = n + 1
      /\ \A i \in 1 .. n : stack'[i] = stack[i]
  BY <1>1 DEF Push
<1>6. ASSUME NEW i \in 1 .. n + 1, stack'[i].stmt = "func", src'[i].last PROVE FALSE
  <2>1. CASE i = n + 1
    BY <1>4, <1>6, <2>1
  <2>2. CASE i = n
    BY <1>1, <1>2, <1>4, <1>6, <2>2 DEF Quiet
  <2>3. CASE i # n + 1 /\ i # n
    <3>1. i \in 1 .. n /\ i # Len(stack)
      BY <1>1, <2>3
    <3>2. src[i].last /\ stack[i].stmt = "func"
      BY <1>2, <1>4, <1>5, <1>6, <2>3, <3>1 DEF Quiet
    <3> QED
      BY <1>1, <3>1, <3>2 DEF ProgramInv, LastEnds
  <2> QED
    BY <2>1, <2>2, <2>3
<1>7. stack' # << >> /\ stack'[1].stmt = "func"
  <2>1. 1 \in 1 .. n /\ stack[1].stmt = "func" /\ Len(stack') # 0
    BY <1>1, <1>5 DEF ProgramInv, FuncBelow
  <2>2. stack' # << >>
    BY <2>1
  <2> QED
    BY <1>5, <2>1, <2>2
<1> QED
  BY <1>4, <1>5, <1>6, <1>7 DEF SrcOK, LastEnds, FuncBelow

LEMMA PopHolds ==
  ASSUME ProgramInv, BInv, stack # << >>, Top.stmt # "func", live' \in BOOLEAN,
         NEW r \in BOOLEAN, src' = SPop(r), stack' = Pop
  PROVE  SrcOK' /\ LastEnds' /\ FuncBelow' /\ stack' # << >>
<1> DEFINE n == Len(src)
           k == n - 1
           u == SubSeq(src, 1, k)
<1>1. src \in Seq(SrcFrames) /\ n = Len(stack) /\ n \in Nat \ {0}
      /\ stack \in Seq(Frames)
  BY StateFacts, EmptySeq DEF ProgramInv, SrcOK
<1>k. k \in Nat \ {0} /\ k \in 1 .. k /\ 1 \in 1 .. k
  <2>1. n # 1
    BY <1>1 DEF ProgramInv, FuncBelow, Top
  <2> QED
    BY <1>1, <2>1
<1>2. /\ u \in Seq(SrcFrames) /\ Len(u) = k
      /\ \A i \in 1 .. k : u[i] = src[i] /\ u[i] \in SrcFrames
  BY <1>1
<1>3. src' = [u EXCEPT ![k].always = u[k].always \/ r]
  BY DEF SPop
<1>4. stack' \in Seq(Frames) /\ Len(stack') = k /\ \A i \in 1 .. k : stack'[i] = stack[i]
  BY <1>1 DEF Pop
<1> HIDE DEF u
<1> DEFINE e == [u[k] EXCEPT !.always = u[k].always \/ r]
<1>5. src' \in Seq(SrcFrames) /\ Len(src') = k /\ \A i \in 1 .. k : src'[i].last = src[i].last
  <2>1. e \in SrcFrames /\ e.last = u[k].last
    BY <1>2, <1>k DEF SrcFrames
  <2>2. src' = [u EXCEPT ![k] = e]
    BY <1>3
  <2> HIDE DEF e
  <2>3. /\ src' \in Seq(SrcFrames) /\ Len(src') = k /\ src'[k] = e
        /\ \A i \in 1 .. k : i # k => src'[i] = u[i]
    BY <1>k, <1>2, <2>1, <2>2, ExceptType
  <2> QED
    BY <1>2, <1>k, <2>1, <2>3
<1>6. ASSUME NEW i \in 1 .. k, stack'[i].stmt = "func", src'[i].last PROVE FALSE
  <2>1. i \in 1 .. Len(stack) /\ i # Len(stack)
    BY <1>1
  <2>2. src[i].last /\ stack[i].stmt = "func"
    BY <1>4, <1>5, <1>6
  <2> QED
    BY <2>1, <2>2 DEF ProgramInv, LastEnds
<1>7. stack' # << >> /\ stack'[1].stmt = "func"
  <2>1. Len(stack') # 0 /\ stack'[1] = stack[1]
    BY <1>k, <1>4
  <2>2. stack' # << >>
    BY <2>1
  <2> QED
    BY <2>1, <2>2 DEF ProgramInv, FuncBelow
<1> QED
  BY <1>4, <1>5, <1>6, <1>7 DEF SrcOK, LastEnds, FuncBelow


\* A handler that leaves the function running.
LEMMA Continues ==
  ASSUME SrcOK', LastEnds', FuncBelow', stack' # << >>, result' = result, family' = family,
         Subject => Unended(g') \ {curr'} \subseteq Remaining(stack')
  PROVE  ProgramInv'
<1>1. Subject' <=> Subject
  BY DEF Subject
<1> QED
  BY <1>1 DEF ProgramInv, Kept

LEMMA KeptNow == ASSUME ProgramInv, Subject PROVE Kept
  BY DEF ProgramInv

LEMMA RunningSrc ==
  ASSUME ProgramInv, BInv, Running
  PROVE  /\ stack # << >> /\ src # << >> /\ src \in Seq(SrcFrames) /\ stack \in Seq(Frames)
         /\ Len(src) = Len(stack) /\ Len(src) \in 1 .. Len(src)
         /\ src[Len(src)] \in SrcFrames /\ live \in BOOLEAN
         /\ \A e \in SrcFrames :
              /\ e.entry \in BOOLEAN /\ e.then \in BOOLEAN /\ e.always \in BOOLEAN
              /\ e.thenAlways \in BOOLEAN /\ e.brk \in BOOLEAN /\ e.cont \in BOOLEAN
              /\ e.dflt \in BOOLEAN /\ e.infinite \in BOOLEAN /\ e.last \in BOOLEAN
<1>1. stack # << >> /\ src \in Seq(SrcFrames) /\ stack \in Seq(Frames) /\ Len(src) = Len(stack)
      /\ live \in BOOLEAN
  BY RunningFacts, StateFacts DEF ProgramInv, SrcOK
<1>2. src # << >> /\ Len(src) \in 1 .. Len(src)
  BY <1>1, EmptySeq
<1>3. src[Len(src)] \in SrcFrames
  BY <1>1, <1>2
<1> QED
  BY <1>1, <1>2, <1>3 DEF SrcFrames

LEMMA PlainHolds ==
  ASSUME ProgramInv, BInv, family' = family, NEW l \in Labels,
         SVisitGoto(l) \/ SVisitLabelDecl(l)
  PROVE  ProgramInv'
<1>1. /\ VisitGoto(l) \/ VisitLabelDecl(l)
      /\ src' = [src EXCEPT ![Len(src)].last = FALSE]
      /\ result' = result /\ live' \in {live, FALSE}
  BY DEF SVisitGoto, SVisitLabelDecl, Item
<1>2. Running /\ stack' = stack
  BY <1>1 DEF VisitGoto, VisitLabelDecl
<1>3. Quiet(src')
  BY <1>1, <1>2, RunningSrc, QuietItem
<1>4. SrcOK' /\ LastEnds' /\ FuncBelow' /\ stack' # << >>
  BY <1>1, <1>2, <1>3, RunningSrc, QuietHolds
<1>5. Subject => Unended(g') \ {curr'} \subseteq Remaining(stack')
  BY <1>1, KeptNow, GotoKept, LabelDeclKept
<1> QED
  BY <1>1, <1>4, <1>5, Continues

LEMMA ReturnHolds ==
  ASSUME ProgramInv, BInv, family' = family, NEW br \in BOOLEAN, SVisitReturn(br)
  PROVE  ProgramInv'
<1> DEFINE n == Len(src)
           e == [src[n] EXCEPT !.always = TRUE, !.last = TRUE]
<1>1. /\ VisitReturn(br) /\ result' = result /\ live' = FALSE
      /\ src' = [src EXCEPT ![n].always = TRUE, ![n].last = TRUE]
  BY DEF SVisitReturn
<1>2. Running /\ stack' = stack
  BY <1>1 DEF VisitReturn
<1>3. /\ src \in Seq(SrcFrames) /\ n \in 1 .. n /\ src[n] \in SrcFrames /\ n = Len(stack)
      /\ n \in Nat /\ stack # << >>
  BY <1>2, RunningSrc
<1>4. e \in SrcFrames
  BY <1>3 DEF SrcFrames
<1>5. src' = [src EXCEPT ![n] = e]
  BY <1>1, <1>3
<1> HIDE DEF e, n
<1>6. /\ src' \in Seq(SrcFrames) /\ Len(src') = n
      /\ \A i \in 1 .. n : i # n => src'[i] = src[i]
  BY <1>3, <1>4, <1>5, ExceptType DEF n
<1>7. Subject => Unended(g') \ {curr'} \subseteq Remaining(stack')
  BY <1>1, KeptNow, SimpleKept
<1>8. curr' \notin Unended(g')
  BY <1>1, ReturnEnds
<1>9. SrcOK' /\ LastEnds' /\ FuncBelow'
  <2>1. SrcOK'
    BY <1>1, <1>2, <1>3, <1>6 DEF SrcOK
  <2>2. ASSUME NEW i \in 1 .. Len(stack), stack[i].stmt = "func", src'[i].last PROVE i = Len(stack)
    <3> SUFFICES ASSUME i # n PROVE i = Len(stack)
      BY <1>3
    <3>1. src[i].last
      BY <1>3, <1>6, <2>2
    <3> QED
      BY <2>2, <3>1 DEF ProgramInv, LastEnds
  <2>3. LastEnds'
    BY <1>2, <1>8, <2>2 DEF LastEnds
  <2> QED
    BY <1>2, <2>1, <2>3 DEF ProgramInv, FuncBelow
<1> QED
  BY <1>1, <1>2, <1>3, <1>7, <1>9, Continues

\* case, default, break and continue: a second frame of src is written to.
LEMMA JumpsHold ==
  ASSUME ProgramInv, BInv, family' = family, NEW d \in BOOLEAN,
         SVisitCase(d) \/ SVisitBreak \/ SVisitContinue
  PROVE  ProgramInv'
<1>0. result' = result /\ Running
  BY DEF SVisitCase, SVisitBreak, SVisitContinue, VisitCase, VisitBreak, VisitContinue
<1>1. /\ src \in Seq(SrcFrames) /\ src # << >> /\ stack \in Seq(Frames) /\ Len(src) = Len(stack)
      /\ stack # << >>
      /\ \A i \in 1 .. Len(src) : src[i] \in SrcFrames
  BY <1>0, RunningSrc
<1>2. ASSUME SVisitCase(d)
      PROVE  /\ Quiet(src') /\ live' \in BOOLEAN /\ stack' = stack
             /\ Subject => Unended(g') \ {curr'} \subseteq Remaining(stack')
  <2> DEFINE i == FindInfo({"switch"})
             r == [src[i] EXCEPT !.dflt = src[i].dflt \/ d]
  <2>1. /\ i # 0 /\ VisitCase /\ live' = (live \/ src[i].entry)
        /\ src' = [src EXCEPT ![i].dflt = src[i].dflt \/ d, ![Len(src)].last = FALSE]
    BY <1>2 DEF SVisitCase
  <2>2. i \in 1 .. Len(src) /\ src[i] \in SrcFrames
    BY <1>1, <2>1, FindsInfo
  <2>3. r \in SrcFrames /\ r.last = src[i].last
    BY <2>2 DEF SrcFrames
  <2>4. src' = [[src EXCEPT ![i] = r] EXCEPT ![Len(src)].last = FALSE]
    BY <2>1
  <2>5. Subject => Unended(g') \ {curr'} \subseteq Remaining(stack')
    BY <2>1, KeptNow, CaseKept
  <2>6. live' \in BOOLEAN /\ stack' = stack
    BY <2>1 DEF VisitCase
  <2> HIDE DEF i, r
  <2>7. Quiet(src')
    BY <1>1, <2>2, <2>3, <2>4, QuietSet
  <2> QED
    BY <2>5, <2>6, <2>7
<1>3. ASSUME SVisitContinue
      PROVE  /\ Quiet(src') /\ live' \in BOOLEAN /\ stack' = stack
             /\ Subject => Unended(g') \ {curr'} \subseteq Remaining(stack')
  <2> DEFINE i == FindInfo({"loop"})
             r == [src[i] EXCEPT !.cont = src[i].cont \/ live]
  <2>1. /\ i # 0 /\ VisitContinue /\ live' = FALSE
        /\ src' = [src EXCEPT ![i].cont = src[i].cont \/ live, ![Len(src)].last = FALSE]
    BY <1>3 DEF SVisitContinue
  <2>2. i \in 1 .. Len(src) /\ src[i] \in SrcFrames
    BY <1>1, <2>1, FindsInfo
  <2>3. r \in SrcFrames /\ r.last = src[i].last
    BY <2>2 DEF SrcFrames
  <2>4. src' = [[src EXCEPT ![i] = r] EXCEPT ![Len(src)].last = FALSE]
    BY <2>1
  <2>5. Subject => Unended(g') \ {curr'} \subseteq Remaining(stack')
    BY <2>1, KeptNow, ContinueKept
  <2>6. live' \in BOOLEAN /\ stack' = stack
    BY <2>1 DEF VisitContinue
  <2> HIDE DEF i, r
  <2>7. Quiet(src')
    BY <1>1, <2>2, <2>3, <2>4, QuietSet
  <2> QED
    BY <2>5, <2>6, <2>7
<1>4. ASSUME SVisitBreak
      PROVE  /\ Quiet(src') /\ live' \in BOOLEAN
             /\ Subject => Unended(g') \ {curr'} \subseteq Remaining(stack')
             /\ Len(stack') = Len(stack) /\ stack' \in Seq(Frames)
             /\ \A j \in 1 .. Len(stack) : stack'[j].stmt = stack[j].stmt
  <2> DEFINE i == FindInfo({"loop", "switch"})
             r == [src[i] EXCEPT !.brk = src[i].brk \/ live]
             f == [stack[i] EXCEPT !.merges = Append(stack[i].merges, OpenBlock)]
  <2>1. /\ i # 0 /\ VisitBreak /\ live' = FALSE
        /\ src' = [src EXCEPT ![i].brk = src[i].brk \/ live, ![Len(src)].last = FALSE]
    BY <1>4 DEF SVisitBreak
  <2>2. i \in 1 .. Len(src) /\ src[i] \in SrcFrames
    BY <1>1, <2>1, FindsInfo
  <2>3. r \in SrcFrames /\ r.last = src[i].last
    BY <2>2 DEF SrcFrames
  <2>4. src' = [[src EXCEPT ![i] = r] EXCEPT ![Len(src)].last = FALSE]
    BY <2>1
  <2>5. Subject => Unended(g') \ {curr'} \subseteq Remaining(stack')
    BY <2>1, KeptNow, BreakKept
  <2>6. live' \in BOOLEAN /\ stack' = [stack EXCEPT ![i] = f]
    BY <2>1 DEF VisitBreak
  <2>7. f.stmt = stack[i].stmt
    <3>1. stack[i] \in Frames /\ stack[i].stmt \in {"loop", "switch"}
      BY <1>1, <2>1, FindsInfo, ElementOfSeq
    <3> QED
      BY <3>1 DEF Frames, LoopFrames, SwitchFrames, IfFrames, FuncFrame
  <2>8. stack' \in Seq(Frames)
    BY <2>1, VisitBreakOK DEF BInv, IInv, StackOK
  <2> HIDE DEF i, r, f
  <2>9. Quiet(src')
    BY <1>1, <2>2, <2>3, <2>4, QuietSet
  <2>10. /\ Len(stack') = Len(stack)
         /\ \A j \in 1 .. Len(stack) : stack'[j].stmt = stack[j].stmt
    BY <1>1, <2>2, <2>6, <2>7
  <2> QED
    BY <2>5, <2>6, <2>8, <2>9, <2>10
<1>5. /\ SrcOK' /\ LastEnds' /\ FuncBelow' /\ stack' # << >>
      /\ Subject => Unended(g') \ {curr'} \subseteq Remaining(stack')
  BY <1>1, <1>2, <1>3, <1>4, QuietHolds
<1> QED
  BY <1>0, <1>5, Continues


LEMMA EnterHolds ==
  ASSUME ProgramInv, BInv, family' = family, NEW s \in Shapes, NEW br \in BOOLEAN, NEW t \in BOOLEAN,
         SEnterIf(br) \/ SEnterLoop(s, br, t) \/ SEnterSwitch(br)
  PROVE  ProgramInv'
<1> DEFINE r == IF SEnterLoop(s, br, t)
                THEN [Fresh0(live) EXCEPT !.infinite = ~s.cond \/ t] ELSE Fresh0(live)
<1>1. /\ EnterIf(br) \/ EnterLoop(s, br) \/ EnterSwitch(br)
      /\ result' = result /\ live' \in {live, FALSE}
  BY DEF SEnterIf, SEnterLoop, SEnterSwitch
<1>2. src' = SPush(r)
  <2>1. SEnterLoop(s, br, t) => src' = SPush([Fresh0(live) EXCEPT !.infinite = ~s.cond \/ t])
    BY DEF SEnterLoop
  <2>2. ~SEnterLoop(s, br, t) => src' = SPush(Fresh0(live))
    BY DEF SEnterIf, SEnterSwitch
  <2> QED
    BY <2>1, <2>2
<1>3. Running /\ \E f : stack' = Push(f)
  <2>1. EnterIf(br) => Running /\ \E f : stack' = Push(f)
    BY Zenon DEF EnterIf
  <2>2. EnterSwitch(br) => Running /\ \E f : stack' = Push(f)
    BY Zenon DEF EnterSwitch
  <2>3. EnterLoop(s, br) => Running /\ \E f : stack' = Push(f)
    BY Zenon DEF EnterLoop
  <2> QED
    BY <1>1, <2>1, <2>2, <2>3
<1>4. live \in BOOLEAN /\ stack # << >>
  BY <1>3, RunningSrc
<1>5. r \in SrcFrames /\ ~r.last
  <2>1. Fresh0(live) \in SrcFrames /\ ~Fresh0(live).last
    BY <1>4, Fresh0Type
  <2>2. (~s.cond \/ t) \in BOOLEAN
    OBVIOUS
  <2>3. [Fresh0(live) EXCEPT !.infinite = ~s.cond \/ t] \in SrcFrames
        /\ ~[Fresh0(live) EXCEPT !.infinite = ~s.cond \/ t].last
    BY <2>1, <2>2 DEF SrcFrames
  <2> QED
    BY <2>1, <2>3
<1> HIDE DEF r
<1>6. SrcOK' /\ LastEnds' /\ FuncBelow' /\ stack' # << >>
  BY <1>1, <1>2, <1>3, <1>4, <1>5, PushHolds
<1>7. Subject => Unended(g') \ {curr'} \subseteq Remaining(stack')
  BY <1>1, KeptNow, EnterIfKept, EnterLoopKept, EnterSwitchKept
<1> QED
  BY <1>1, <1>6, <1>7, Continues

LEMMA ElseHolds ==
  ASSUME ProgramInv, BInv, family' = family, SEnterElse
  PROVE  ProgramInv'
<1> DEFINE n == Len(src)
           e == [src[n] EXCEPT !.then = live, !.thenAlways = src[n].always, !.always = FALSE]
<1>1. /\ EnterElse /\ result' = result /\ live' = src[n].entry
      /\ src' = [src EXCEPT ![n] = e]
  BY DEF SEnterElse, STop
<1>2. Running /\ Top.stmt = "if"
  BY <1>1 DEF EnterElse
<1>3. /\ src \in Seq(SrcFrames) /\ n \in 1 .. n /\ src[n] \in SrcFrames /\ n = Len(stack)
      /\ n \in Nat /\ stack # << >> /\ stack \in Seq(Frames) /\ live \in BOOLEAN
      /\ src[n].entry \in BOOLEAN /\ src[n].always \in BOOLEAN
  BY <1>2, RunningSrc
<1>4. e \in SrcFrames
  BY <1>3 DEF SrcFrames
<1> DEFINE f == [Top EXCEPT !.thenExit = curr, !.inElse = TRUE]
<1>5. stack' = [stack EXCEPT ![n] = f] /\ f.stmt = "if"
  <2>1. Top \in IfFrames
    BY <1>2, RunningFacts, TopFacts, FrameTypes
  <2>2. f.stmt = "if"
    BY <1>2, <2>1 DEF IfFrames
  <2> QED
    BY <1>1, <1>3, <2>2 DEF EnterElse, SetTop
<1> HIDE DEF e, n, f
<1>6. /\ src' \in Seq(SrcFrames) /\ Len(src') = n
      /\ \A i \in 1 .. n : i # n => src'[i] = src[i]
  BY <1>1, <1>3, <1>4, ExceptType DEF n
<1>7. /\ Len(stack') = n /\ stack'[n].stmt = "if" /\ stack[n].stmt = "if"
      /\ \A i \in 1 .. n : i # n => stack'[i] = stack[i]
  BY <1>2, <1>3, <1>5 DEF Top
<1>8. Subject => Unended(g') \ {curr'} \subseteq Remaining(stack')
  BY <1>1, KeptNow, EnterElseKept
<1>9. n # 1
  BY <1>3, <1>7 DEF ProgramInv, FuncBelow
<1>10. SrcOK' /\ LastEnds' /\ FuncBelow' /\ stack' # << >>
  <2>1. SrcOK'
    BY <1>1, <1>3, <1>6, <1>7 DEF SrcOK
  <2>2. ASSUME NEW i \in 1 .. n, stack'[i].stmt = "func", src'[i].last PROVE FALSE
    <3>1. i # n
      BY <1>7, <2>2
    <3>2. src[i].last /\ stack[i].stmt = "func"
      BY <1>6, <1>7, <2>2, <3>1
    <3> QED
      BY <1>3, <3>1, <3>2 DEF ProgramInv, LastEnds
  <2>3. LastEnds'
    BY <1>7, <2>2 DEF LastEnds
  <2>4. stack' # << >>
    BY <1>3, <1>7
  <2>5. stack'[1].stmt = "func"
    BY <1>3, <1>7, <1>9 DEF ProgramInv, FuncBelow
  <2> QED
    BY <2>1, <2>3, <2>4, <2>5 DEF FuncBelow
<1> QED
  BY <1>1, <1>8, <1>10, Continues

LEMMA ExitHolds ==
  ASSUME ProgramInv, BInv, family' = family, SExitIf \/ SExitLoop \/ SExitSwitch
  PROVE  ProgramInv'
<1>1. /\ ExitIfNoElse \/ ExitIfBothEnded \/ ExitIfMerge \/ ExitLoop \/ ExitSwitch
      /\ result' = result
  BY DEF SExitIf, SExitLoop, SExitSwitch
<1>2. Running /\ stack' = Pop /\ Top.stmt # "func"
  BY <1>1 DEF ExitIfNoElse, ExitIfBothEnded, ExitIfMerge, ExitLoop, ExitSwitch
<1>3. /\ STop.always \in BOOLEAN /\ STop.thenAlways \in BOOLEAN /\ STop.infinite \in BOOLEAN
      /\ STop.entry \in BOOLEAN /\ STop.then \in BOOLEAN /\ STop.brk \in BOOLEAN
      /\ live \in BOOLEAN /\ stack # << >>
  BY <1>2, RunningSrc DEF STop
<1>4. (\E r \in BOOLEAN : src' = SPop(r)) /\ live' \in BOOLEAN
  <2>1. CASE SExitIf
    <3>1. src' = SPop(FALSE) \/ src' = SPop(STop.always /\ STop.thenAlways)
      BY <2>1 DEF SExitIf
    <3>2. live' \in BOOLEAN
      BY <2>1 DEF SExitIf
    <3> QED
      BY <1>3, <3>1, <3>2
  <2>2. CASE SExitLoop
    <3>1. src' = SPop(STop.infinite)
      BY <2>2 DEF SExitLoop
    <3>2. live' \in BOOLEAN
      BY <2>2 DEF SExitLoop
    <3> QED
      BY <1>3, <3>1, <3>2
  <2>3. CASE SExitSwitch
    <3>1. src' = SPop(FALSE)
      BY <2>3 DEF SExitSwitch
    <3>2. live' \in BOOLEAN
      BY <2>3 DEF SExitSwitch
    <3> QED
      BY <3>1, <3>2
  <2> QED
    BY <2>1, <2>2, <2>3
<1>5. SrcOK' /\ LastEnds' /\ FuncBelow' /\ stack' # << >>
  BY <1>2, <1>3, <1>4, PopHolds
<1>6. Subject => Unended(g') \ {curr'} \subseteq Remaining(stack')
  <2>1. ASSUME Subject, SExitSwitch PROVE ExitSwitch /\ Terminated(g, curr)
    BY <2>1 DEF SExitSwitch, Subject
  <2>2. ~SExitSwitch => ExitIfNoElse \/ ExitIfBothEnded \/ ExitIfMerge \/ ExitLoop
    BY DEF SExitIf, SExitLoop
  <2> QED
    BY <2>1, <2>2, KeptNow, ExitIfKept, ExitLoopKept, ExitSwitchKept
<1> QED
  BY <1>1, <1>5, <1>6, Continues

LEMMA SEnterFunctionHolds ==
  ASSUME ProgramInv, BInv, family' = family, SEnterFunction
  PROVE  ProgramInv'
<1> DEFINE st == << FuncFrame >>
           s  == << Fresh0(TRUE) >>
<1>1. g' = EmptyGraph /\ curr' = Entry /\ stack' = st /\ src' = s /\ live' = TRUE
  BY DEF SEnterFunction, EnterFunction
<1>2. Len(st) = 1 /\ st[1] = FuncFrame /\ Len(s) = 1 /\ s[1] = Fresh0(TRUE) /\ st # << >>
      /\ (\A i \in 1 .. 1 : i = 1)
  OBVIOUS
<1>3. s \in Seq(SrcFrames) /\ ~s[1].last
  <2>1. Fresh0(TRUE) \in SrcFrames /\ ~Fresh0(TRUE).last
    BY Fresh0Type
  <2>2. \A x \in SrcFrames : << x >> \in Seq(SrcFrames)
    OBVIOUS
  <2>3. s \in Seq(SrcFrames)
    BY <2>1, <2>2
  <2> HIDE DEF s
  <2> QED
    BY <1>2, <2>1, <2>3
<1> HIDE DEF s, st
<1>4. Unended(EmptyGraph) \subseteq {Entry}
  <2>1. EmptyGraph.n = 1
    BY Zenon DEF EmptyGraph
  <2> QED
    BY <2>1 DEF Unended, Blocks, Entry
<1>5. SrcOK'
  BY <1>1, <1>2, <1>3 DEF SrcOK
<1>6. LastEnds'
  BY <1>1, <1>2, <1>3 DEF LastEnds
<1>7. FuncBelow'
  BY <1>1, <1>2 DEF FuncBelow, FuncFrame
<1> QED
  BY <1>1, <1>2, <1>4, <1>5, <1>6, <1>7 DEF ProgramInv, Kept

\* A function without a value ends after a return of its own: its last block is ended.
LEMMA SExitFunctionHolds ==
  ASSUME ProgramInv, BInv, family' = family, SExitFunction
  PROVE  ProgramInv'
<1> DEFINE e == << >>
<1>1. /\ Running /\ Top.stmt = "func" /\ g' = g /\ stack' = e /\ src' = e
      /\ live' = live /\ result' = result /\ curr' = curr
      /\ result = "void" => STop.last
  BY DEF SExitFunction, ExitFunction
<1>2. /\ stack # << >> /\ Len(src) = Len(stack) /\ live \in BOOLEAN
      /\ Len(stack) \in 1 .. Len(stack)
  BY <1>1, RunningSrc
<1>3. Len(stack) = 1 /\ stack[1].stmt = "func"
  BY <1>1, <1>2 DEF BInv, Held, FuncFirst, Top
<1>4. ASSUME Subject PROVE Unended(g) = {}
  <2>1. curr \notin Unended(g)
    <3>1. stack[Len(stack)].stmt = "func" /\ src[Len(stack)].last
      BY <1>1, <1>2, <1>3, <1>4 DEF Subject, STop
    <3> QED
      BY <1>2, <3>1 DEF ProgramInv, LastEnds
  <2>2. Remaining(stack) = {}
    <3>1. \A i \in 1 .. Len(stack) : Left(stack[i]) = {}
      BY <1>3 DEF Left
    <3> QED
      BY <3>1 DEF Remaining
  <2> QED
    BY <1>2, <1>4, <2>1, <2>2 DEF ProgramInv, Kept
<1>5. e \in Seq(SrcFrames) /\ Len(e) = 0
  OBVIOUS
<1> HIDE DEF e
<1>6. SrcOK'
  BY <1>1, <1>2, <1>5 DEF SrcOK
<1>7. LastEnds'
  BY <1>1, <1>5 DEF LastEnds
<1>8. FuncBelow' /\ stack' = << >>
  BY <1>1 DEF FuncBelow, e
<1>9. Subject' <=> Subject
  BY <1>1 DEF Subject
<1> QED
  BY <1>1, <1>4, <1>6, <1>7, <1>8, <1>9 DEF ProgramInv, Kept

LEMMA ProgramStep ==
  ASSUME ProgramInv, BInv, [SNext]_allvars
  PROVE  ProgramInv'
<1>1. CASE UNCHANGED allvars
  <2>1. /\ g' = g /\ curr' = curr /\ stack' = stack /\ funcs' = funcs
        /\ family' = family /\ src' = src /\ live' = live /\ result' = result
    BY <1>1 DEF allvars, vars, srcvars
  <2> QED
    BY <2>1 DEF ProgramInv, SrcOK, LastEnds, FuncBelow, Subject, Kept
<1>2. CASE SNext
  <2>1. family' = family
    BY <1>2 DEF SNext, Within
  <2>2. \A br \in Branches : br \in BOOLEAN
    BY DEF Branches
  <2>3. ASSUME NEW br \in BOOLEAN, SVisitExprStmt(br) PROVE ProgramInv'
    <3>1. /\ src' = [src EXCEPT ![Len(src)].last = FALSE]
          /\ result' = result /\ live' = live /\ VisitExprStmt(br) /\ Running /\ stack' = stack
      BY <2>3 DEF SVisitExprStmt, Item, VisitExprStmt
    <3>2. Quiet(src')
      BY <3>1, RunningSrc, QuietItem
    <3>3. SrcOK' /\ LastEnds' /\ FuncBelow' /\ stack' # << >>
      BY <3>1, <3>2, RunningSrc, QuietHolds
    <3>4. Subject => Unended(g') \ {curr'} \subseteq Remaining(stack')
      BY <3>1, KeptNow, SimpleKept
    <3> QED
      BY <2>1, <3>1, <3>3, <3>4, Continues
  <2>4. ASSUME NEW l \in Labels, SVisitGoto(l) \/ SVisitLabelDecl(l) PROVE ProgramInv'
    BY <2>1, <2>4, PlainHolds
  <2>5. ASSUME NEW br \in BOOLEAN, SVisitReturn(br) PROVE ProgramInv'
    BY <2>1, <2>5, ReturnHolds
  <2>6. ASSUME NEW s \in Shapes, NEW br \in BOOLEAN, NEW t \in BOOLEAN,
               SEnterIf(br) \/ SEnterLoop(s, br, t) \/ SEnterSwitch(br)
        PROVE  ProgramInv'
    BY <2>1, <2>6, EnterHolds
  <2>7. ASSUME NEW d \in BOOLEAN, SVisitCase(d) PROVE ProgramInv'
    BY <2>1, <2>7, JumpsHold
  <2>8. SVisitBreak \/ SVisitContinue => ProgramInv'
    BY <2>1, JumpsHold
  <2>9. SEnterElse \/ SExitIf \/ SExitLoop \/ SExitSwitch => ProgramInv'
    BY <2>1, ElseHolds, ExitHolds
  <2>10. SEnterFunction \/ SExitFunction => ProgramInv'
    BY <2>1, SEnterFunctionHolds, SExitFunctionHolds
  <2>11. Shapes # {} /\ TRUE \in BOOLEAN
    <3>1. [init |-> FALSE, cond |-> TRUE, step |-> FALSE, dowhile |-> FALSE] \in Shapes
      BY DEF Shapes
    <3> QED
      BY <3>1
  <2> QED
    BY <1>2, <2>2, <2>3, <2>4, <2>5, <2>6, <2>7, <2>8, <2>9, <2>10, <2>11 DEF SNext
<1> QED
  BY <1>1, <1>2

\* "every block must be terminated" (lib/lowering/lir/synthesizer.cpp:342): a void
\* function whose switch bodies end is complete when its construction is over, for
\* any nesting of its statements.
THEOREM VoidComplete == SSpec => [](Subject => GraphComplete)
<1>1. SInit => ProgramInv
  <2> SUFFICES ASSUME SInit PROVE ProgramInv
    OBVIOUS
  <2> DEFINE e == << >>
  <2>1. stack = e /\ src = e /\ live = FALSE /\ funcs = 0
    BY DEF SInit, Init
  <2>2. e \in Seq(SrcFrames) /\ Len(e) = 0
    OBVIOUS
  <2> HIDE DEF e
  <2>3. SrcOK
    BY <2>1, <2>2 DEF SrcOK
  <2>4. Len(stack) = 0
    BY <2>1, <2>2
  <2>5. LastEnds
    BY <2>4 DEF LastEnds
  <2> QED
    BY <2>1, <2>3, <2>5 DEF ProgramInv, FuncBelow, Kept, e
<1>2. ProgramInv /\ BInv /\ [SNext]_allvars => ProgramInv'
  BY ProgramStep
<1>3. SSpec => []BInv /\ []TargetsResolved
  BY Restricts, Inductive, Resolved, PTL
<1>4. ASSUME ProgramInv, Subject PROVE BlocksTerminated
  BY <1>4 DEF ProgramInv, Subject, BlocksTerminated, Built, Unended
<1>5. ProgramInv /\ TargetsResolved => (Subject => GraphComplete)
  BY <1>4 DEF GraphComplete
<1> QED
  BY <1>1, <1>2, <1>3, <1>5, PTL DEF SSpec

=============================================================================
