-------------------------- MODULE CFGBuilderProofs --------------------------
(***************************************************************************)
(* Proofs about CFGBuilder, for any number of blocks, labels, functions    *)
(* and nested statements, and any sequence of visits.                      *)
(***************************************************************************)
EXTENDS CFGBuilder, SequenceTheorems, WellFoundedInduction, TLAPS

(***************************************************************************)
(* Elements of sequences                                                   *)
(***************************************************************************)

LEMMA ElemsAppend ==
  ASSUME NEW S, NEW s \in Seq(S), NEW e \in S
  PROVE  /\ Append(s, e) \in Seq(S)
         /\ Elems(Append(s, e)) = Elems(s) \cup {e}
<1>1. /\ Append(s, e) \in Seq(S) /\ Len(s) \in Nat /\ Len(Append(s, e)) = Len(s) + 1
      /\ DOMAIN s = 1 .. Len(s) /\ DOMAIN Append(s, e) = 1 .. Len(s) + 1
  OBVIOUS
<1>2. /\ \A i \in 1 .. Len(s) : Append(s, e)[i] = s[i]
      /\ Append(s, e)[Len(s) + 1] = e
  OBVIOUS
<1>3. ASSUME NEW x PROVE x \in Elems(Append(s, e)) <=> x \in Elems(s) \cup {e}
  BY <1>1, <1>2 DEF Elems
<1> QED
  BY <1>1, <1>3

LEMMA ElemsConcat ==
  ASSUME NEW S, NEW s \in Seq(S), NEW p \in Seq(S)
  PROVE  /\ s \o p \in Seq(S)
         /\ Elems(s \o p) = Elems(s) \cup Elems(p)
<1>1. /\ s \o p \in Seq(S) /\ Len(s) \in Nat /\ Len(p) \in Nat
      /\ DOMAIN s = 1 .. Len(s) /\ DOMAIN p = 1 .. Len(p)
      /\ DOMAIN (s \o p) = 1 .. Len(s) + Len(p)
  OBVIOUS
<1>2. \A i \in 1 .. Len(s) + Len(p) :
        (s \o p)[i] = IF i <= Len(s) THEN s[i] ELSE p[i - Len(s)]
  BY ConcatProperties
<1>3. ASSUME NEW x \in Elems(s \o p) PROVE x \in Elems(s) \cup Elems(p)
  <2>1. PICK i \in 1 .. Len(s) + Len(p) : x = (s \o p)[i]
    BY <1>1 DEF Elems
  <2>2. i <= Len(s) => x \in Elems(s)
    BY <1>1, <1>2, <2>1 DEF Elems
  <2>3. ~(i <= Len(s)) => i - Len(s) \in 1 .. Len(p)
    BY <1>1
  <2>4. ~(i <= Len(s)) => x \in Elems(p)
    BY <1>1, <1>2, <2>1, <2>3 DEF Elems
  <2> QED
    BY <2>2, <2>4
<1>4. ASSUME NEW x \in Elems(s) PROVE x \in Elems(s \o p)
  BY <1>1, <1>2 DEF Elems
<1>5. ASSUME NEW x \in Elems(p) PROVE x \in Elems(s \o p)
  <2>1. PICK i \in 1 .. Len(p) : x = p[i]
    BY <1>1 DEF Elems
  <2>2. Len(s) + i \in 1 .. Len(s) + Len(p) /\ ~(Len(s) + i <= Len(s))
        /\ Len(s) + i - Len(s) = i
    BY <1>1
  <2>3. (s \o p)[Len(s) + i] = p[i]
    BY <1>2, <2>2
  <2> QED
    BY <1>1, <2>1, <2>2, <2>3 DEF Elems
<1> QED
  BY <1>1, <1>3, <1>4, <1>5

LEMMA ElemsIn ==
  ASSUME NEW S, NEW s \in Seq(S)
  PROVE  Elems(s) \subseteq S
  BY DEF Elems

\* Writing to a place of a sequence that need not be there.
LEMMA ExceptType ==
  ASSUME NEW S, NEW s \in Seq(S), NEW i \in Nat, NEW e \in S
  PROVE  [s EXCEPT ![i] = e] \in Seq(S)
<1>1. Len(s) \in Nat /\ s \in [1 .. Len(s) -> S]
  BY LenProperties
<1>2. [s EXCEPT ![i] = e] \in [1 .. Len(s) -> S]
  BY <1>1
<1> QED
  BY <1>1, <1>2, SeqDef

(***************************************************************************)
(* The primitives of CFGraph.  Each maps a graph with consistent edges to  *)
(* another that has the same blocks and perhaps more, and in which what    *)
(* was terminated still is.                                                *)
(***************************************************************************)

GraphOK(h) == h \in Graphs /\ EdgesOK(h)

Extends(h, r) ==
  /\ h.n <= r.n
  /\ \A b \in Blk : Terminated(h, b) => Terminated(r, b)

\* r follows h after k more blocks have been created.
Grows(h, r, k) == GraphOK(r) /\ r.n = h.n + k /\ Extends(h, r)

LEMMA BlocksType ==
  ASSUME NEW h \in Graphs
  PROVE  /\ h.n \in Nat \ {0} /\ h.n <= MaxBlocks /\ Blocks(h) \subseteq Blk
         /\ Entry \in Blocks(h) /\ Null \notin Blocks(h)
  BY MaxBlocksAssumption DEF Graphs, Blocks, Blk, Entry, Null

LEMMA GrowsRefl == ASSUME NEW h, GraphOK(h) PROVE Grows(h, h, 0)
  BY BlocksType DEF Grows, GraphOK, Extends

LEMMA GrowsTrans ==
  ASSUME NEW f, GraphOK(f), NEW h, NEW r, NEW j \in Nat, NEW k \in Nat,
         Grows(f, h, j), Grows(h, r, k)
  PROVE  Grows(f, r, j + k)
  BY BlocksType DEF Grows, GraphOK, Extends

LEMMA GrowsBlocks ==
  ASSUME NEW h, GraphOK(h), NEW r, NEW k \in Nat, Grows(h, r, k)
  PROVE  Blocks(h) \subseteq Blocks(r)
  BY BlocksType DEF Grows, GraphOK, Extends, Blocks

LEMMA CreateGrows ==
  ASSUME NEW h, GraphOK(h), h.n < MaxBlocks
  PROVE  Grows(h, Create(h), 1) /\ Fresh(h) \in Blocks(Create(h)) /\ Fresh(h) \in Blk
<1>1. h.n \in Nat /\ h.n + 1 \in Blk
  BY SMTT(30), MaxBlocksAssumption DEF GraphOK, Graphs, Blk
<1>2. /\ Create(h) \in Graphs /\ Create(h).n = h.n + 1
      /\ Create(h).succs = h.succs /\ Create(h).incoming = h.incoming
      /\ Create(h).kind = h.kind
  BY <1>1 DEF GraphOK, Graphs, Create
<1>3. EdgesOK(Create(h))
  BY <1>1, <1>2 DEF GraphOK, EdgesOK, Blocks, Terminated
<1> QED
  BY <1>1, <1>2, <1>3 DEF Grows, GraphOK, Extends, Fresh, Blocks, Blk, Terminated

LEMMA FailGrows ==
  ASSUME NEW h, GraphOK(h), NEW a \in Assertions
  PROVE  Grows(h, Fail(h, a), 0)
<1>1. /\ Fail(h, a) \in Graphs /\ Fail(h, a).n = h.n
      /\ Fail(h, a).succs = h.succs /\ Fail(h, a).incoming = h.incoming
      /\ Fail(h, a).kind = h.kind
  BY DEF GraphOK, Graphs, Fail
<1>2. EdgesOK(Fail(h, a))
  BY <1>1 DEF GraphOK, EdgesOK, Blocks, Terminated
<1> QED
  BY <1>1, <1>2, BlocksType DEF Grows, GraphOK, Extends, Terminated

LEMMA InstructionGrows ==
  ASSUME NEW h, GraphOK(h), NEW b \in Blk
  PROVE  Grows(h, AddInstruction(h, b), 0)
<1>1. Grows(h, Fail(h, "cannot append instructions to a terminated block"), 0)
  BY FailGrows DEF Assertions
<1> QED
  BY <1>1, GrowsRefl DEF AddInstruction

LEMMA TerminateGrows ==
  ASSUME NEW h, GraphOK(h), NEW b \in Blk, NEW k \in Kinds \ {"none"}
  PROVE  Grows(h, Terminate(h, b, k), 0) /\ Terminated(Terminate(h, b, k), b)
<1>1. CASE Terminated(h, b)
  <2>1. Grows(h, Fail(h, "block already has terminator"), 0)
    BY FailGrows DEF Assertions
  <2>2. Terminate(h, b, k) = Fail(h, "block already has terminator")
    BY <1>1 DEF Terminate
  <2> QED
    BY <1>1, <2>1, <2>2 DEF Grows, Extends
<1>2. CASE ~Terminated(h, b)
  <2> DEFINE r == [h EXCEPT !.kind[b] = k, !.tgt[b] = NullTargets(k)]
  <2>1. NullTargets(k) \in Seq(Blk \cup {Null})
    <3>1. /\ << Null, Null >> \in Seq(Blk \cup {Null})
          /\ << Null >> \in Seq(Blk \cup {Null})
          /\ << >> \in Seq(Blk \cup {Null})
      OBVIOUS
    <3> QED
      BY <3>1 DEF NullTargets, Kinds
  <2>2. /\ r \in Graphs /\ r.n = h.n /\ r.succs = h.succs /\ r.incoming = h.incoming
        /\ r.kind = [h.kind EXCEPT ![b] = k]
    BY <2>1 DEF GraphOK, Graphs
  <2>3. Terminate(h, b, k) = r
    BY <1>2 DEF Terminate
  <2> HIDE DEF r
  <2>4. /\ \A c \in Blk : Terminated(h, c) => Terminated(r, c)
        /\ Terminated(r, b)
    BY <2>2 DEF Terminated, GraphOK, Graphs
  <2>5. EdgesOK(r)
    BY <2>2, <2>4 DEF GraphOK, EdgesOK, Blocks
  <2> QED
    BY <2>2, <2>3, <2>4, <2>5, BlocksType DEF Grows, GraphOK, Extends
<1> QED
  BY <1>1, <1>2

\* A block that may have edges: created and terminated.
Linkable(h, b) == b \in Blocks(h) /\ Terminated(h, b)

LEMMA LinkGrows ==
  ASSUME NEW h, GraphOK(h), NEW b, Linkable(h, b), NEW t \in Blocks(h)
  PROVE  Grows(h, LinkTo(h, b, t), 0)
<1> DEFINE r == LinkTo(h, b, t)
<1>1. b \in Blk /\ t \in Blk /\ h \in Graphs
  BY BlocksType DEF GraphOK, Linkable
<1>2. /\ h.succs[b] \in Seq(Blk) /\ h.incoming[t] \in Seq(Blk)
      /\ Append(h.succs[b], t) \in Seq(Blk)
      /\ Append(h.incoming[t], b) \in Seq(Blk)
      /\ Elems(Append(h.succs[b], t)) = Elems(h.succs[b]) \cup {t}
      /\ Elems(Append(h.incoming[t], b)) = Elems(h.incoming[t]) \cup {b}
  <2>1. h.succs[b] \in Seq(Blk) /\ h.incoming[t] \in Seq(Blk)
    BY <1>1 DEF Graphs
  <2> QED
    BY <1>1, <2>1, ElemsAppend
<1>3. /\ r.n = h.n /\ r.kind = h.kind /\ r.tgt = h.tgt /\ r.ice = h.ice
      /\ r.succs = [h.succs EXCEPT ![b] = Append(@, t)]
      /\ r.incoming = [h.incoming EXCEPT ![t] = Append(@, b)]
  BY <1>1 DEF LinkTo, Graphs
<1>4. r \in Graphs
  BY <1>1, <1>2 DEF LinkTo, Graphs
<1> HIDE DEF r
<1>5. \A c \in Blk : Elems(r.succs[c]) =
        IF c = b THEN Elems(h.succs[c]) \cup {t} ELSE Elems(h.succs[c])
  BY <1>1, <1>2, <1>3 DEF Graphs
<1>6. \A c \in Blk : Elems(r.incoming[c]) =
        IF c = t THEN Elems(h.incoming[c]) \cup {b} ELSE Elems(h.incoming[c])
  BY <1>1, <1>2, <1>3 DEF Graphs
<1>7. EdgesOK(r)
  <2>1. \A c, d \in Blk : d \in Elems(r.succs[c]) <=> c \in Elems(r.incoming[d])
    <3> SUFFICES ASSUME NEW c \in Blk, NEW d \in Blk
                 PROVE  d \in Elems(r.succs[c]) <=> c \in Elems(r.incoming[d])
      OBVIOUS
    <3>1. d \in Elems(h.succs[c]) <=> c \in Elems(h.incoming[d])
      BY DEF GraphOK, EdgesOK
    <3>2. d \in Elems(r.succs[c]) <=> d \in Elems(h.succs[c]) \/ (c = b /\ d = t)
      BY <1>5
    <3>3. c \in Elems(r.incoming[d]) <=> c \in Elems(h.incoming[d]) \/ (c = b /\ d = t)
      BY <1>6
    <3> QED
      BY <3>1, <3>2, <3>3
  <2>2. Blocks(r) = Blocks(h) /\ \A c \in Blk : Terminated(r, c) = Terminated(h, c)
    BY <1>3 DEF Blocks, Terminated
  <2>3. \A c \in Blk : Elems(r.succs[c]) # {} => c \in Blocks(r) /\ Terminated(r, c)
    BY <1>1, <1>5, <2>2 DEF GraphOK, EdgesOK, Linkable
  <2>4. \A c \in Blk : Elems(r.succs[c]) \subseteq Blocks(r)
    BY <1>5, <2>2 DEF GraphOK, EdgesOK
  <2> QED
    BY <2>1, <2>3, <2>4 DEF EdgesOK
<1> QED
  BY <1>3, <1>4, <1>7, BlocksType DEF Grows, GraphOK, Extends, Terminated, r

\* Setting a target, before it is linked.
LEMMA TargetGrows ==
  ASSUME NEW h, GraphOK(h), NEW b \in Blk, NEW s \in Seq(Blk \cup {Null})
  PROVE  /\ Grows(h, [h EXCEPT !.tgt[b] = s], 0)
         /\ Blocks([h EXCEPT !.tgt[b] = s]) = Blocks(h)
<1> DEFINE r == [h EXCEPT !.tgt[b] = s]
<1>1. /\ r \in Graphs /\ r.n = h.n /\ r.succs = h.succs /\ r.incoming = h.incoming
      /\ r.kind = h.kind
  BY DEF GraphOK, Graphs
<1> HIDE DEF r
<1>2. EdgesOK(r)
  BY <1>1 DEF GraphOK, EdgesOK, Blocks, Terminated
<1>3. Grows(h, r, 0) /\ Blocks(r) = Blocks(h)
  BY <1>1, <1>2, BlocksType DEF Grows, GraphOK, Extends, Terminated, Blocks
<1> QED
  BY <1>3 DEF r

LEMMA LinkableGrows ==
  ASSUME NEW h, GraphOK(h), NEW r, NEW k \in Nat, Grows(h, r, k), NEW b, Linkable(h, b)
  PROVE  Linkable(r, b)
  BY GrowsBlocks, BlocksType DEF Linkable, Grows, Extends, GraphOK

LEMMA SetTargetGrows ==
  ASSUME NEW h, GraphOK(h), NEW b, Linkable(h, b), NEW t \in Blocks(h), NEW i \in Nat
  PROVE  Grows(h, SetTarget(h, b, i, t), 0)
<1>1. b \in Blk /\ t \in Blk /\ h \in Graphs
  BY BlocksType DEF GraphOK, Linkable
<1> DEFINE s == [h.tgt[b] EXCEPT ![i] = t]
           r == [h EXCEPT !.tgt[b] = s]
<1>2. s \in Seq(Blk \cup {Null})
  BY <1>1, ExceptType DEF Graphs
<1>3. SetTarget(h, b, i, t) = LinkTo(r, b, t)
  BY <1>1 DEF SetTarget, Graphs
<1> HIDE DEF s
<1>4. Grows(h, r, 0) /\ t \in Blocks(r)
  BY <1>1, <1>2, TargetGrows
<1> HIDE DEF r
<1>5. GraphOK(r) /\ Linkable(r, b)
  BY <1>4, LinkableGrows DEF Grows
<1>6. Grows(r, LinkTo(r, b, t), 0)
  BY <1>4, <1>5, LinkGrows
<1>7. Grows(h, LinkTo(r, b, t), 0 + 0)
  BY <1>4, <1>6, GrowsTrans
<1> QED
  BY <1>3, <1>7

LEMMA SettersGrow ==
  ASSUME NEW h, GraphOK(h), NEW b, Linkable(h, b), NEW t \in Blocks(h)
  PROVE  /\ Grows(h, SetThen(h, b, t), 0)
         /\ Grows(h, SetElse(h, b, t), 0)
         /\ Grows(h, SetGoto(h, b, t), 0)
  BY SetTargetGrows DEF SetThen, SetElse, SetGoto

LEMMA AddCaseGrows ==
  ASSUME NEW h, GraphOK(h), NEW b, Linkable(h, b), NEW t \in Blocks(h)
  PROVE  Grows(h, AddCase(h, b, t), 0)
<1>1. b \in Blk /\ t \in Blk /\ h \in Graphs
  BY BlocksType DEF GraphOK, Linkable
<1> DEFINE s == Append(h.tgt[b], t)
           r == [h EXCEPT !.tgt[b] = s]
<1>2. s \in Seq(Blk \cup {Null})
  <2>1. h.tgt[b] \in Seq(Blk \cup {Null})
    BY <1>1 DEF Graphs
  <2> QED
    BY <1>1, <2>1
<1>3. AddCase(h, b, t) = LinkTo(r, b, t)
  BY <1>1 DEF AddCase, Graphs
<1> HIDE DEF s
<1>4. Grows(h, r, 0) /\ t \in Blocks(r)
  BY <1>1, <1>2, TargetGrows
<1> HIDE DEF r
<1>5. GraphOK(r) /\ Linkable(r, b)
  BY <1>4, LinkableGrows DEF Grows
<1>6. Grows(r, LinkTo(r, b, t), 0)
  BY <1>4, <1>5, LinkGrows
<1>7. Grows(h, LinkTo(r, b, t), 0 + 0)
  BY <1>4, <1>6, GrowsTrans
<1> QED
  BY <1>3, <1>7

LEMMA GotoGrows ==
  ASSUME NEW h, GraphOK(h), NEW b \in Blocks(h), NEW t \in Blocks(h)
  PROVE  /\ Grows(h, GotoTo(h, b, t), 0) /\ Terminated(GotoTo(h, b, t), b)
         /\ Grows(h, GotoIfOpen(h, b, t), 0) /\ Terminated(GotoIfOpen(h, b, t), b)
<1> DEFINE m == Terminate(h, b, "goto")
<1>1. b \in Blk
  BY BlocksType DEF GraphOK
<1>2. Grows(h, m, 0) /\ Terminated(m, b)
  BY <1>1, TerminateGrows DEF Kinds
<1> HIDE DEF m
<1>3. GraphOK(m) /\ b \in Blocks(m) /\ t \in Blocks(m)
  BY <1>2, GrowsBlocks DEF Grows
<1>4. Grows(m, SetGoto(m, b, t), 0)
  BY <1>2, <1>3, SettersGrow DEF Linkable
<1>5. Terminated(SetGoto(m, b, t), b)
  BY <1>1, <1>2, <1>4 DEF Grows, Extends
<1>6. Grows(h, SetGoto(m, b, t), 0 + 0)
  BY <1>2, <1>4, GrowsTrans
<1>7. GotoTo(h, b, t) = SetGoto(m, b, t)
  BY DEF GotoTo, m
<1> QED
  BY <1>5, <1>6, <1>7, GrowsRefl DEF GotoIfOpen

LEMMA SetGotosGrows ==
  ASSUME NEW h, GraphOK(h), NEW ps \in Seq(Blk), \A b \in Elems(ps) : Linkable(h, b),
         NEW t \in Blocks(h)
  PROVE  Grows(h, SetGotos(h, ps, t), 0)
<1> DEFINE r == SetGotos(h, ps, t)
<1>1. t \in Blk /\ h \in Graphs /\ Elems(ps) \subseteq Blk
  BY BlocksType, ElemsIn DEF GraphOK
<1>2. \A c \in Blk : /\ h.succs[c] \in Seq(Blk)
                     /\ Append(h.succs[c], t) \in Seq(Blk)
                     /\ Elems(Append(h.succs[c], t)) = Elems(h.succs[c]) \cup {t}
  <2> TAKE c \in Blk
  <2>1. h.succs[c] \in Seq(Blk)
    BY <1>1 DEF Graphs
  <2> QED
    BY <1>1, <2>1, ElemsAppend
<1>3. /\ h.incoming[t] \in Seq(Blk) /\ h.incoming[t] \o ps \in Seq(Blk)
      /\ Elems(h.incoming[t] \o ps) = Elems(h.incoming[t]) \cup Elems(ps)
  <2>1. h.incoming[t] \in Seq(Blk)
    BY <1>1 DEF Graphs
  <2> QED
    BY <2>1, ElemsConcat
<1>4. << t >> \in Seq(Blk \cup {Null})
  BY <1>1
<1>5. /\ r.n = h.n /\ r.kind = h.kind /\ r.ice = h.ice
      /\ r.tgt = [b \in Blk |-> IF b \in Elems(ps) THEN << t >> ELSE h.tgt[b]]
      /\ r.succs = [b \in Blk |-> IF b \in Elems(ps) THEN Append(h.succs[b], t) ELSE h.succs[b]]
      /\ r.incoming = [h.incoming EXCEPT ![t] = @ \o ps]
  BY <1>1 DEF SetGotos, Graphs
<1>6. r \in Graphs
  <2>1. r.tgt \in [Blk -> Seq(Blk \cup {Null})]
    BY <1>1, <1>4, <1>5 DEF Graphs
  <2>2. r.succs \in [Blk -> Seq(Blk)]
    BY <1>2, <1>5
  <2>3. r.incoming \in [Blk -> Seq(Blk)]
    BY <1>1, <1>3, <1>5 DEF Graphs
  <2> DEFINE T == [b \in Blk |-> IF b \in Elems(ps) THEN << t >> ELSE h.tgt[b]]
             S == [b \in Blk |-> IF b \in Elems(ps) THEN Append(h.succs[b], t) ELSE h.succs[b]]
             I == [h.incoming EXCEPT ![t] = @ \o ps]
  <2>4. r = [h EXCEPT !.tgt = T, !.succs = S, !.incoming = I]
    BY <1>1 DEF SetGotos, Graphs
  <2>5. T \in [Blk -> Seq(Blk \cup {Null})] /\ S \in [Blk -> Seq(Blk)] /\ I \in [Blk -> Seq(Blk)]
    BY <1>5, <2>1, <2>2, <2>3
  <2> HIDE DEF r, T, S, I
  <2> QED
    BY <1>1, <2>4, <2>5 DEF Graphs
<1> HIDE DEF r
<1>7. \A c \in Blk : Elems(r.succs[c]) =
        IF c \in Elems(ps) THEN Elems(h.succs[c]) \cup {t} ELSE Elems(h.succs[c])
  BY <1>2, <1>5
<1>8. \A c \in Blk : Elems(r.incoming[c]) =
        IF c = t THEN Elems(h.incoming[c]) \cup Elems(ps) ELSE Elems(h.incoming[c])
  BY <1>1, <1>3, <1>5 DEF Graphs
<1>9. Blocks(r) = Blocks(h) /\ \A c \in Blk : Terminated(r, c) = Terminated(h, c)
  BY <1>5 DEF Blocks, Terminated
<1>10. EdgesOK(r)
  <2>1. \A c, d \in Blk : d \in Elems(r.succs[c]) <=> c \in Elems(r.incoming[d])
    <3> SUFFICES ASSUME NEW c \in Blk, NEW d \in Blk
                 PROVE  d \in Elems(r.succs[c]) <=> c \in Elems(r.incoming[d])
      OBVIOUS
    <3>1. d \in Elems(h.succs[c]) <=> c \in Elems(h.incoming[d])
      BY DEF GraphOK, EdgesOK
    <3>2. d \in Elems(r.succs[c]) <=> d \in Elems(h.succs[c]) \/ (c \in Elems(ps) /\ d = t)
      BY <1>7
    <3>3. c \in Elems(r.incoming[d]) <=> c \in Elems(h.incoming[d]) \/ (c \in Elems(ps) /\ d = t)
      BY <1>8
    <3> QED
      BY <3>1, <3>2, <3>3
  <2>2. \A c \in Blk : Elems(r.succs[c]) # {} => c \in Blocks(r) /\ Terminated(r, c)
    BY <1>1, <1>7, <1>9 DEF GraphOK, EdgesOK, Linkable
  <2>3. \A c \in Blk : Elems(r.succs[c]) \subseteq Blocks(r)
    BY <1>7, <1>9 DEF GraphOK, EdgesOK
  <2> QED
    BY <2>1, <2>2, <2>3 DEF EdgesOK
<1> QED
  BY <1>5, <1>6, <1>9, <1>10, BlocksType DEF Grows, GraphOK, Extends, r

(***************************************************************************)
(* The composed pieces                                                     *)
(***************************************************************************)

\* "if (curr_blk->is_terminated()) curr_blk = create_block()"
LEMMA OpenGrows ==
  ASSUME GraphOK(g), curr \in Blocks(g), Room(Opens)
  PROVE  /\ Opens \in {0, 1}
         /\ Grows(g, OpenGraph, Opens)
         /\ OpenBlock \in Blocks(OpenGraph)
<1>1. g.n \in Nat /\ MaxBlocks \in Nat
  BY BlocksType, MaxBlocksAssumption DEF GraphOK
<1>2. CASE Terminated(g, curr)
  <2>1. g.n < MaxBlocks
    BY <1>1, <1>2 DEF Room, Opens
  <2> QED
    BY <1>2, <2>1, CreateGrows DEF Opens, OpenGraph, OpenBlock
<1>3. CASE ~Terminated(g, curr)
  BY <1>3, GrowsRefl DEF Opens, OpenGraph, OpenBlock
<1> QED
  BY <1>2, <1>3

LEMMA EvalGrows ==
  ASSUME NEW h, GraphOK(h), NEW b \in Blocks(h), NEW br \in BOOLEAN,
         h.n + EvalSize(br) <= MaxBlocks
  PROVE  /\ EvalSize(br) \in Nat
         /\ Grows(h, EvalGraph(h, b, br), EvalSize(br))
         /\ EvalBlock(h, b, br) \in Blocks(EvalGraph(h, b, br))
<1>1. h.n \in Nat /\ MaxBlocks \in Nat /\ b \in Blk
  BY BlocksType, MaxBlocksAssumption DEF GraphOK
<1>2. CASE ~br
  <2>1. Grows(h, AddInstruction(h, b), 0)
    BY <1>1, InstructionGrows
  <2>2. b \in Blocks(AddInstruction(h, b))
    BY <2>1, GrowsBlocks
  <2> QED
    BY <1>2, <2>1, <2>2 DEF EvalSize, EvalGraph, EvalBlock
<1>3. CASE br
  <2> DEFINE h1 == Create(h)
             h2 == Create(h1)
             h3 == Terminate(h2, b, "if")
             h4 == SetThen(h3, b, h.n + 1)
             h5 == SetElse(h4, b, h.n + 2)
             h6 == GotoTo(h5, h.n + 1, h.n + 2)
  <2>1. h.n < MaxBlocks /\ h.n + 1 < MaxBlocks
    BY <1>1, <1>3 DEF EvalSize
  <2>2. Grows(h, h1, 1)
    BY <2>1, CreateGrows
  <2>3. GraphOK(h1) /\ h1.n = h.n + 1
    BY <2>2 DEF Grows
  <2> HIDE DEF h1
  <2>4. Grows(h1, h2, 1)
    BY <2>1, <2>3, CreateGrows
  <2>5. GraphOK(h2) /\ h2.n = h.n + 2
    BY <1>1, <2>3, <2>4 DEF Grows
  <2> HIDE DEF h2
  <2>6. Grows(h, h2, 2)
    <3>1. Grows(h, h2, 1 + 1)
      BY <2>2, <2>4, GrowsTrans
    <3> QED
      BY <3>1
  <2>7. Grows(h2, h3, 0) /\ Terminated(h3, b)
    BY <1>1, <2>5, TerminateGrows DEF Kinds
  <2>8. GraphOK(h3) /\ h3.n = h.n + 2
    BY <1>1, <2>5, <2>7 DEF Grows
  <2> HIDE DEF h3
  <2>9. b \in Blocks(h3) /\ h.n + 1 \in Blocks(h3) /\ h.n + 2 \in Blocks(h3)
    BY <1>1, <2>8 DEF Blocks
  <2>10. Grows(h3, h4, 0)
    BY <2>7, <2>8, <2>9, SettersGrow DEF Linkable
  <2>11. GraphOK(h4) /\ h4.n = h.n + 2 /\ Linkable(h4, b) /\ h.n + 2 \in Blocks(h4)
    BY <1>1, <2>7, <2>8, <2>9, <2>10, LinkableGrows, GrowsBlocks DEF Grows, Linkable
  <2> HIDE DEF h4
  <2>12. Grows(h4, h5, 0)
    BY <2>11, SettersGrow
  <2>13. GraphOK(h5) /\ h5.n = h.n + 2
    BY <1>1, <2>11, <2>12 DEF Grows
  <2> HIDE DEF h5
  <2>14. h.n + 1 \in Blocks(h5) /\ h.n + 2 \in Blocks(h5)
    BY <1>1, <2>13 DEF Blocks
  <2>15. Grows(h5, h6, 0)
    BY <2>13, <2>14, GotoGrows
  <2>16. h6.n = h.n + 2 /\ h.n + 2 \in Blocks(h6)
    BY <1>1, <2>13, <2>15 DEF Grows, Blocks
  <2> HIDE DEF h6
  <2>17. Grows(h, h6, 2)
    <3>1. Grows(h, h3, 2 + 0)
      BY <2>6, <2>7, GrowsTrans
    <3>2. Grows(h, h4, 2 + 0 + 0)
      BY <2>10, <3>1, GrowsTrans
    <3>3. Grows(h, h5, 2 + 0 + 0 + 0)
      BY <2>12, <3>2, GrowsTrans
    <3>4. Grows(h, h6, 2 + 0 + 0 + 0 + 0)
      BY <2>15, <3>3, GrowsTrans
    <3> QED
      BY <3>4
  <2>18. /\ EvalGraph(h, b, br) = h6 /\ EvalBlock(h, b, br) = h.n + 2 /\ EvalSize(br) = 2
    <3>1. Fresh(h) = h.n + 1 /\ Fresh(h) + 1 = h.n + 2
      BY <1>1 DEF Fresh
    <3> QED
      BY <1>3, <3>1 DEF EvalGraph, EvalBlock, EvalSize, h6, h5, h4, h3, h2, h1
  <2> QED
    BY <2>16, <2>17, <2>18
<1> QED
  BY <1>2, <1>3

\* Opening a block, then evaluating an expression in it.
LEMMA OpenEvalGrows ==
  ASSUME GraphOK(g), curr \in Blocks(g), NEW br \in BOOLEAN, NEW k \in Nat,
         Room(Opens + EvalSize(br) + k)
  PROVE  LET h == EvalGraph(OpenGraph, OpenBlock, br)
             b == EvalBlock(OpenGraph, OpenBlock, br)
         IN  /\ GraphOK(OpenGraph)
             /\ Grows(g, h, Opens + EvalSize(br)) /\ Opens + EvalSize(br) \in Nat
             /\ GraphOK(h) /\ b \in Blocks(h) /\ h.n + k <= MaxBlocks
<1>1. g.n \in Nat /\ MaxBlocks \in Nat
  BY BlocksType, MaxBlocksAssumption DEF GraphOK
<1>2. EvalSize(br) \in {0, 2} /\ Opens \in {0, 1}
  BY DEF EvalSize, Opens
<1>3. Room(Opens)
  BY <1>1, <1>2 DEF Room
<1>4. /\ Grows(g, OpenGraph, Opens) /\ OpenBlock \in Blocks(OpenGraph)
      /\ GraphOK(OpenGraph) /\ OpenGraph.n = g.n + Opens
  BY <1>3, OpenGrows DEF Grows
<1>5. OpenGraph.n + EvalSize(br) <= MaxBlocks
  BY <1>1, <1>2, <1>4 DEF Room
<1> DEFINE h == EvalGraph(OpenGraph, OpenBlock, br)
           b == EvalBlock(OpenGraph, OpenBlock, br)
<1>6. Grows(OpenGraph, h, EvalSize(br)) /\ b \in Blocks(h)
  BY <1>4, <1>5, EvalGrows
<1> HIDE DEF h, b
<1>7. Grows(g, h, Opens + EvalSize(br))
  BY <1>2, <1>4, <1>6, GrowsTrans
<1>8. h.n + k <= MaxBlocks
  BY <1>1, <1>2, <1>7 DEF Grows, Room
<1>9. GraphOK(h) /\ Opens + EvalSize(br) \in Nat
  BY <1>2, <1>7 DEF Grows
<1> QED
  BY <1>4, <1>6, <1>7, <1>8, <1>9 DEF h, b

(***************************************************************************)
(* The inductive invariant.  Besides the types and the edges it says that  *)
(* every block the builder remembers, in a frame of the stack or in a goto *)
(* that waits, belongs to the graph being built, and that those it is yet  *)
(* to link already have their terminator.                                  *)
(***************************************************************************)

FrameOK(h, f) ==
  /\ f.stmt = "if" => /\ Linkable(h, f.blk)
                      /\ f.inElse => f.thenExit \in Blocks(h)
  /\ f.stmt = "loop" =>
       /\ Linkable(h, f.entry)
       /\ f.init # Null => f.init \in Blocks(h) /\ f.initExit \in Blocks(h)
       /\ f.cond # Null => f.cond \in Blocks(h) /\ Linkable(h, f.condExit)
       /\ f.step # Null => f.step \in Blocks(h) /\ f.stepExit \in Blocks(h)
       /\ f.body \in Blocks(h)
       /\ \A b \in Elems(f.merges) : Linkable(h, b)
  /\ f.stmt = "switch" =>
       /\ Linkable(h, f.blk)
       /\ \A b \in Elems(f.merges) : Linkable(h, b)

StackOK(h, st) ==
  /\ st \in Seq(Frames)
  /\ \A i \in 1 .. Len(st) : FrameOK(h, st[i])
  /\ Len(st) # 0 => st[1].stmt = "func"

WaitingOK(h, p) ==
  /\ p \in [Labels -> Seq(Blk)]
  /\ \A l \in Labels : \A b \in Elems(p[l]) : Linkable(h, b)

LabelsOK(h, lab) ==
  /\ lab \in [Labels -> Blk \cup {Null}]
  /\ \A l \in Labels : lab[l] # Null => lab[l] \in Blocks(h)

\* A goto waits only for a label of the function being built that is yet to come.
PendingOK ==
  \A l \in Labels : pending[l] # << >> => l \in used /\ labeled[l] = Null /\ stack # << >>

IInv ==
  /\ GraphOK(g) /\ curr \in Blocks(g)
  /\ StackOK(g, stack) /\ WaitingOK(g, pending) /\ LabelsOK(g, labeled)
  /\ PendingOK
  /\ used \subseteq Labels /\ funcs \in Nat

LEMMA FrameGrows ==
  ASSUME NEW h, GraphOK(h), NEW r, NEW k \in Nat, Grows(h, r, k),
         NEW f \in Frames, FrameOK(h, f)
  PROVE  FrameOK(r, f)
<1>1. Blocks(h) \subseteq Blocks(r)
  BY GrowsBlocks
<1>2. \A b : Linkable(h, b) => Linkable(r, b)
  BY LinkableGrows
<1> QED
  BY <1>1, <1>2 DEF FrameOK

LEMMA StateGrows ==
  ASSUME NEW h, GraphOK(h), NEW r, NEW k \in Nat, Grows(h, r, k)
  PROVE  /\ \A st : StackOK(h, st) => StackOK(r, st)
         /\ \A p : WaitingOK(h, p) => WaitingOK(r, p)
         /\ \A lab : LabelsOK(h, lab) => LabelsOK(r, lab)
<1>1. Blocks(h) \subseteq Blocks(r)
  BY GrowsBlocks
<1>2. \A b : Linkable(h, b) => Linkable(r, b)
  BY LinkableGrows
<1>3. ASSUME NEW st, StackOK(h, st) PROVE StackOK(r, st)
  <2>1. \A i \in 1 .. Len(st) : st[i] \in Frames
    BY <1>3, ElementOfSeq DEF StackOK
  <2> QED
    BY <1>3, <2>1, FrameGrows DEF StackOK
<1>4. \A p : WaitingOK(h, p) => WaitingOK(r, p)
  BY <1>2 DEF WaitingOK
<1>5. \A lab : LabelsOK(h, lab) => LabelsOK(r, lab)
  BY <1>1 DEF LabelsOK
<1> QED
  BY <1>3, <1>4, <1>5

\* The stack's innermost frame, and the three ways the handlers change it.
LEMMA StackTop ==
  ASSUME NEW h, StackOK(h, stack), stack # << >>
  PROVE  /\ Len(stack) \in Nat \ {0} /\ Top = stack[Len(stack)]
         /\ Top \in Frames /\ FrameOK(h, Top)
  BY EmptySeq, ElementOfSeq DEF StackOK, Top

LEMMA StackPush ==
  ASSUME NEW h, StackOK(h, stack), stack # << >>, NEW f \in Frames, FrameOK(h, f)
  PROVE  StackOK(h, Push(f)) /\ Push(f) # << >>
<1>1. Len(stack) \in Nat \ {0} /\ stack \in Seq(Frames)
  BY EmptySeq DEF StackOK
<1>2. /\ Append(stack, f) \in Seq(Frames)
      /\ Len(Append(stack, f)) = Len(stack) + 1
      /\ \A i \in 1 .. Len(stack) : Append(stack, f)[i] = stack[i]
      /\ Append(stack, f)[Len(stack) + 1] = f
  BY <1>1
<1>3. Append(stack, f) # << >>
  BY <1>1, <1>2, EmptySeq
<1>4. \A i \in 1 .. Len(stack) + 1 : FrameOK(h, Append(stack, f)[i])
  BY <1>1, <1>2 DEF StackOK
<1>5. Append(stack, f)[1] = stack[1]
  BY <1>1, <1>2
<1> QED
  BY <1>1, <1>2, <1>3, <1>4, <1>5 DEF StackOK, Push

LEMMA FrontOf ==
  ASSUME NEW S, NEW s \in Seq(S), s # << >>
  PROVE  /\ SubSeq(s, 1, Len(s) - 1) \in Seq(S)
         /\ Len(SubSeq(s, 1, Len(s) - 1)) = Len(s) - 1
         /\ \A i \in 1 .. Len(s) - 1 : SubSeq(s, 1, Len(s) - 1)[i] = s[i]
<1>1. Len(s) \in Nat \ {0} /\ \A i \in 1 .. Len(s) : s[i] \in S
  BY EmptySeq, ElementOfSeq
<1> DEFINE n == Len(s) - 1
<1>2. 1 \in Int /\ n \in Int /\ \A i \in 1 .. n : s[i] \in S
  BY <1>1
<1>3. n \in Nat
  BY <1>1
<1> HIDE DEF n
<1>4. /\ SubSeq(s, 1, n) \in Seq(S)
      /\ Len(SubSeq(s, 1, n)) = IF 1 <= n THEN n - 1 + 1 ELSE 0
      /\ \A i \in 1 .. n - 1 + 1 : SubSeq(s, 1, n)[i] = s[1 + i - 1]
  BY ONLY <1>2, SubSeqProperties
<1>5. Len(SubSeq(s, 1, n)) = n
  BY <1>3, <1>4
<1>6. \A i \in 1 .. n : SubSeq(s, 1, n)[i] = s[i]
  <2> TAKE i \in 1 .. n
  <2>1. i \in 1 .. n - 1 + 1 /\ 1 + i - 1 = i
    BY <1>3
  <2> QED
    BY <1>4, <2>1
<1> QED
  BY <1>4, <1>5, <1>6 DEF n

LEMMA StackPop ==
  ASSUME NEW h, StackOK(h, stack), stack # << >>, Top.stmt # "func"
  PROVE  StackOK(h, Pop) /\ Pop # << >>
<1>1. Len(stack) \in Nat \ {0} /\ stack \in Seq(Frames)
  BY EmptySeq DEF StackOK
<1>2. Len(stack) # 1
  BY <1>1 DEF StackOK, Top
<1>3. /\ Pop \in Seq(Frames) /\ Len(Pop) = Len(stack) - 1
      /\ \A i \in 1 .. Len(stack) - 1 : Pop[i] = stack[i]
  BY <1>1, FrontOf DEF Pop
<1>4. Pop # << >>
  BY <1>1, <1>2, <1>3, EmptySeq
<1>5. Pop[1] = stack[1]
  BY <1>1, <1>2, <1>3
<1> QED
  BY <1>1, <1>3, <1>4, <1>5 DEF StackOK

LEMMA StackSet ==
  ASSUME NEW h, StackOK(h, stack), NEW i \in 1 .. Len(stack), NEW f \in Frames, FrameOK(h, f),
         f.stmt = stack[i].stmt
  PROVE  StackOK(h, [stack EXCEPT ![i] = f]) /\ [stack EXCEPT ![i] = f] # << >>
<1>1. stack \in Seq(Frames)
  BY DEF StackOK
<1>2. /\ [stack EXCEPT ![i] = f] \in Seq(Frames)
      /\ Len([stack EXCEPT ![i] = f]) = Len(stack)
      /\ \A j \in 1 .. Len(stack) : [stack EXCEPT ![i] = f][j] = IF j = i THEN f ELSE stack[j]
  BY <1>1, ExceptSeq
<1>3. [stack EXCEPT ![i] = f] # << >>
  BY <1>1, <1>2, EmptySeq
<1>4. [stack EXCEPT ![i] = f][1].stmt = stack[1].stmt
  BY <1>1, <1>2
<1> QED
  BY <1>2, <1>3, <1>4 DEF StackOK

LEMMA EmptyGraphOK == GraphOK(EmptyGraph) /\ Entry \in Blocks(EmptyGraph)
<1>1. EmptyGraph \in Graphs /\ Entry \in Blocks(EmptyGraph)
  BY MaxBlocksAssumption
     DEF EmptyGraph, Graphs, Blk, Kinds, Assertions, Blocks, Entry
<1>2. EdgesOK(EmptyGraph)
  BY DEF EmptyGraph, EdgesOK, Elems, Blk
<1> QED
  BY <1>1, <1>2 DEF GraphOK

LEMMA InitOK == Init => IInv
<1> SUFFICES ASSUME Init PROVE IInv
  OBVIOUS
<1>1. WaitingOK(g, pending)
  BY DEF Init, WaitingOK, Elems
<1>2. LabelsOK(g, labeled) /\ PendingOK
  BY DEF Init, LabelsOK, PendingOK
<1>3. StackOK(g, stack)
  BY EmptySeq DEF Init, StackOK
<1> QED
  BY <1>1, <1>2, <1>3, EmptyGraphOK DEF Init, IInv

(***************************************************************************)
(* Every action preserves the invariant                                    *)
(***************************************************************************)

\* What is remembered stays right in a graph that grew out of g.
LEMMA GrownState ==
  ASSUME IInv, NEW r, NEW k \in Nat, Grows(g, r, k)
  PROVE  StackOK(r, stack) /\ WaitingOK(r, pending) /\ LabelsOK(r, labeled)
<1>1. GraphOK(g) /\ StackOK(g, stack) /\ WaitingOK(g, pending) /\ LabelsOK(g, labeled)
  BY DEF IInv
<1> QED
  BY ONLY <1>1, StateGrows, GraphOK(g), k \in Nat, Grows(g, r, k)

\* What a handler that creates blocks and grows the graph leaves to show.
LEMMA HandlerOK ==
  ASSUME IInv, NEW k \in Nat, Grows(g, g', k), curr' \in Blocks(g'),
         stack' # << >>, StackOK(g', stack'), UNCHANGED << pending, labeled, used, funcs >>
  PROVE  IInv'
<1>1. WaitingOK(g', pending) /\ LabelsOK(g', labeled)
  BY GrownState
<1>2. GraphOK(g')
  BY DEF Grows
<1>3. WaitingOK(g', pending') /\ LabelsOK(g', labeled')
  BY <1>1
<1>4. PendingOK'
  BY DEF IInv, PendingOK
<1> QED
  BY <1>2, <1>3, <1>4 DEF IInv

LEMMA EnterFunctionOK == IInv /\ EnterFunction => IInv'
<1> SUFFICES ASSUME IInv, EnterFunction PROVE IInv'
  OBVIOUS
<1>1. \A l \in Labels : pending[l] = << >>
  BY DEF IInv, PendingOK, EnterFunction
<1>2. GraphOK(g') /\ curr' \in Blocks(g')
  BY EmptyGraphOK DEF EnterFunction
<1>3. WaitingOK(EmptyGraph, pending)
  BY <1>1 DEF IInv, WaitingOK, Elems
<1>4. LabelsOK(EmptyGraph, [l \in Labels |-> Null])
  BY DEF LabelsOK
<1>5. StackOK(EmptyGraph, << FuncFrame >>)
  <2>1. << FuncFrame >> \in Seq(Frames) /\ Len(<< FuncFrame >>) = 1
    BY DEF Frames
  <2> QED
    BY <2>1 DEF StackOK, FrameOK, FuncFrame
<1>6. WaitingOK(g', pending') /\ LabelsOK(g', labeled') /\ StackOK(g', stack')
  BY <1>3, <1>4, <1>5 DEF EnterFunction
<1>7. PendingOK'
  BY <1>1 DEF EnterFunction, PendingOK
<1>8. used' \subseteq Labels /\ funcs' \in Nat
  <2>1. funcs \in Nat /\ funcs' = funcs + 1 /\ used' = {}
    BY DEF EnterFunction, IInv
  <2> QED
    BY ONLY <2>1
<1> QED
  BY <1>2, <1>6, <1>7, <1>8 DEF IInv

LEMMA ExitFunctionOK == IInv /\ ExitFunction => IInv'
<1> SUFFICES ASSUME IInv, ExitFunction PROVE IInv'
  OBVIOUS
<1>1. \A l \in Labels : pending[l] = << >>
  BY DEF IInv, PendingOK, ExitFunction
<1>2. StackOK(g, << >>)
  BY EmptySeq DEF StackOK
<1> QED
  BY <1>1, <1>2 DEF ExitFunction, IInv, PendingOK

LEMMA VisitExprStmtOK ==
  ASSUME IInv, NEW br \in BOOLEAN, VisitExprStmt(br)
  PROVE  IInv'
<1>1. g.n \in Nat /\ Opens + EvalSize(br) \in Nat /\ Room(Opens + EvalSize(br) + 0)
  BY BlocksType DEF IInv, GraphOK, VisitExprStmt, Opens, EvalSize
<1>2. /\ Grows(g, EvalGraph(OpenGraph, OpenBlock, br), Opens + EvalSize(br))
      /\ EvalBlock(OpenGraph, OpenBlock, br) \in Blocks(EvalGraph(OpenGraph, OpenBlock, br))
  BY <1>1, OpenEvalGrows DEF IInv
<1>3. StackOK(EvalGraph(OpenGraph, OpenBlock, br), stack)
  BY <1>1, <1>2, GrownState
<1> QED
  BY <1>1, <1>2, <1>3, HandlerOK DEF VisitExprStmt, Running

\* A non-empty set of numbers up to n has a greatest one, hence find_info
\* finds what it looks for whenever it is there.
LEMMA Greatest ==
  ASSUME NEW n \in Nat, NEW T, T \subseteq 1 .. n, T # {}
  PROVE  \E i \in T : \A j \in T : j <= i
<1> DEFINE D == {k \in Nat : \E i \in T : k = n - i}
<1>1. D # {} /\ D \subseteq Nat
  <2>1. PICK i \in T : TRUE
    OBVIOUS
  <2>2. n - i \in Nat
    BY <2>1
  <2> QED
    BY <2>1, <2>2
<1>2. PICK k \in D : \A j \in D : ~ (<< j, k >> \in OpToRel(<, Nat))
  BY ONLY <1>1, WFMin, NatLessThanWellFounded
<1>3. \A j \in D : ~ (j < k)
  BY <1>1, <1>2 DEF OpToRel
<1>4. PICK i \in T : k = n - i
  BY <1>2
<1>5. ASSUME NEW j \in T PROVE j <= i
  <2>1. n - j \in D
    OBVIOUS
  <2>2. ~ (n - j < n - i)
    BY <1>3, <1>4, <2>1
  <2> QED
    BY <1>4, <2>2
<1> QED
  BY <1>4, <1>5

LEMMA FindsInfo ==
  ASSUME stack \in Seq(Frames), NEW stmts, FindInfo(stmts) # 0
  PROVE  FindInfo(stmts) \in 1 .. Len(stack) /\ stack[FindInfo(stmts)].stmt \in stmts
<1> DEFINE found == {i \in DOMAIN stack : stack[i].stmt \in stmts}
<1>1. found # {} /\ FindInfo(stmts) = CHOOSE i \in found : \A j \in found : j <= i
  BY DEF FindInfo
<1>2. Len(stack) \in Nat /\ found \subseteq 1 .. Len(stack)
  OBVIOUS
<1> HIDE DEF found
<1>3. \E i \in found : \A j \in found : j <= i
  BY <1>1, <1>2, Greatest
<1>4. FindInfo(stmts) \in found
  BY <1>1, <1>3
<1> QED
  BY <1>2, <1>4 DEF found

\* Opening a block, for the handlers that evaluate nothing.
LEMMA Opened ==
  ASSUME IInv, Room(Opens)
  PROVE  /\ Opens \in Nat /\ Grows(g, OpenGraph, Opens)
         /\ GraphOK(OpenGraph) /\ OpenBlock \in Blocks(OpenGraph) /\ OpenBlock \in Blk
<1>1. GraphOK(g) /\ curr \in Blocks(g)
  BY DEF IInv
<1>2. Opens \in {0, 1} /\ Grows(g, OpenGraph, Opens) /\ OpenBlock \in Blocks(OpenGraph)
  BY <1>1, OpenGrows
<1>3. GraphOK(OpenGraph)
  BY <1>2 DEF Grows
<1> QED
  BY <1>2, <1>3, BlocksType DEF GraphOK

\* The same, and the block then ends in a terminator.
LEMMA Ended ==
  ASSUME IInv, Room(Opens), NEW k \in Kinds \ {"none"}
  PROVE  LET r == Terminate(OpenGraph, OpenBlock, k)
         IN  /\ Opens \in Nat /\ Grows(g, r, Opens) /\ GraphOK(r)
             /\ Linkable(r, OpenBlock) /\ OpenBlock \in Blk
<1> DEFINE r == Terminate(OpenGraph, OpenBlock, k)
<1>1. /\ Opens \in Nat /\ Grows(g, OpenGraph, Opens)
      /\ GraphOK(OpenGraph) /\ OpenBlock \in Blocks(OpenGraph) /\ OpenBlock \in Blk
  BY Opened
<1>2. Grows(OpenGraph, r, 0) /\ Terminated(r, OpenBlock)
  BY <1>1, TerminateGrows
<1> HIDE DEF r
<1>3. GraphOK(r) /\ OpenBlock \in Blocks(r)
  BY <1>1, <1>2, GrowsBlocks DEF Grows
<1>4. Grows(g, r, Opens + 0)
  BY <1>1, <1>2, GrowsTrans DEF IInv
<1>5. Grows(g, r, Opens)
  BY <1>1, <1>4
<1> QED
  BY <1>1, <1>2, <1>3, <1>5 DEF Linkable, r

LEMMA VisitReturnOK ==
  ASSUME IInv, NEW br \in BOOLEAN, VisitReturn(br)
  PROVE  IInv'
<1> DEFINE h == EvalGraph(OpenGraph, OpenBlock, br)
           b == EvalBlock(OpenGraph, OpenBlock, br)
           r == Terminate(h, b, "return")
           n == Opens + EvalSize(br)
<1>1. /\ stack # << >> /\ g' = r /\ curr' = b /\ stack' = stack
      /\ UNCHANGED << pending, labeled, used, funcs >>
      /\ Room(Opens + EvalSize(br))
  BY DEF VisitReturn, Running
<1>2. Room(Opens + EvalSize(br) + 0)
  BY <1>1, BlocksType DEF IInv, GraphOK, Room, Opens, EvalSize
<1>3. Grows(g, h, n) /\ n \in Nat /\ GraphOK(h) /\ b \in Blocks(h)
  BY <1>2, OpenEvalGrows DEF IInv
<1> HIDE DEF h, b, n
<1>4. b \in Blk
  BY <1>3, BlocksType DEF GraphOK
<1>5. Grows(h, r, 0)
  BY <1>3, <1>4, TerminateGrows DEF Kinds
<1> HIDE DEF r
<1>6. b \in Blocks(r)
  BY <1>3, <1>5, GrowsBlocks
<1>7. Grows(g, r, n)
  <2>1. Grows(g, r, n + 0)
    BY <1>3, <1>5, GrowsTrans DEF IInv
  <2> QED
    BY <1>3, <2>1
<1>8. StackOK(r, stack)
  BY <1>3, <1>7, GrownState
<1> QED
  BY <1>1, <1>3, <1>6, <1>7, <1>8, HandlerOK

LEMMA VisitGotoOK ==
  ASSUME IInv, NEW l \in Labels, VisitGoto(l)
  PROVE  IInv'
<1> DEFINE h == Terminate(OpenGraph, OpenBlock, "goto")
<1>1. /\ Opens \in Nat /\ Grows(g, h, Opens) /\ GraphOK(h)
      /\ Linkable(h, OpenBlock) /\ OpenBlock \in Blk
  BY Ended DEF VisitGoto, Kinds
<1>2. StackOK(h, stack) /\ WaitingOK(h, pending) /\ LabelsOK(h, labeled)
  BY <1>1, GrownState
<1>3. /\ stack # << >> /\ curr' = OpenBlock /\ used' = used \cup {l} /\ stack' = stack
      /\ labeled' = labeled /\ funcs' = funcs
      /\ labeled[l] # Null => g' = SetGoto(h, OpenBlock, labeled[l]) /\ pending' = pending
      /\ labeled[l] = Null =>
           g' = h /\ pending' = [pending EXCEPT ![l] = Append(pending[l], OpenBlock)]
  BY DEF VisitGoto, Running
<1> HIDE DEF h
<1>4. CASE labeled[l] # Null
  <2>1. labeled[l] \in Blocks(h)
    BY <1>2, <1>4 DEF LabelsOK
  <2>2. Grows(h, g', 0)
    BY <1>1, <1>3, <1>4, <2>1, SettersGrow
  <2>3. StackOK(g', stack) /\ WaitingOK(g', pending) /\ LabelsOK(g', labeled)
    BY <1>1, <1>2, <2>2, StateGrows
  <2>4. GraphOK(g') /\ OpenBlock \in Blocks(g')
    BY <1>1, <2>2, GrowsBlocks DEF Grows, Linkable
  <2>5. PendingOK'
    BY <1>3, <1>4 DEF IInv, PendingOK
  <2>6. StackOK(g', stack') /\ WaitingOK(g', pending') /\ LabelsOK(g', labeled')
    BY <1>3, <1>4, <2>3
  <2>7. used' \subseteq Labels /\ funcs' \in Nat
    BY <1>3 DEF IInv
  <2> QED
    BY <1>3, <2>4, <2>5, <2>6, <2>7 DEF IInv
<1>5. CASE labeled[l] = Null
  <2>1. pending[l] \in Seq(Blk)
    BY <1>2 DEF WaitingOK
  <2>2. /\ Append(pending[l], OpenBlock) \in Seq(Blk)
        /\ Elems(Append(pending[l], OpenBlock)) = Elems(pending[l]) \cup {OpenBlock}
    BY <1>1, <2>1, ElemsAppend
  <2> DEFINE s == Append(pending[l], OpenBlock)
             p == [pending EXCEPT ![l] = s]
  <2> HIDE DEF s
  <2>3. p \in [Labels -> Seq(Blk)] /\ \A m \in Labels : p[m] = IF m = l THEN s ELSE pending[m]
    BY <1>2, <2>2 DEF WaitingOK, s
  <2> HIDE DEF p
  <2>4. WaitingOK(h, p)
    BY <1>1, <1>2, <2>2, <2>3 DEF WaitingOK, s
  <2>5. g' = h /\ pending' = p
    BY <1>3, <1>5 DEF p, s
  <2>6. PendingOK'
    BY <1>3, <1>5, <2>3, <2>5 DEF IInv, PendingOK
  <2>7. StackOK(g', stack') /\ WaitingOK(g', pending') /\ LabelsOK(g', labeled')
    BY <1>2, <1>3, <2>4, <2>5
  <2>8. GraphOK(g') /\ curr' \in Blocks(g')
    BY <1>1, <1>3, <2>5 DEF Linkable
  <2>9. used' \subseteq Labels /\ funcs' \in Nat
    BY <1>3 DEF IInv
  <2> QED
    BY <2>6, <2>7, <2>8, <2>9 DEF IInv
<1> QED
  BY <1>4, <1>5

\* The fields of a frame, by the statement it is of.
LEMMA FrameTypes ==
  ASSUME NEW f \in Frames
  PROVE  /\ f.stmt = "if" => f \in IfFrames
         /\ f.stmt = "loop" => f \in LoopFrames
         /\ f.stmt = "switch" => f \in SwitchFrames
  BY DEF Frames, FuncFrame, IfFrames, LoopFrames, SwitchFrames

\* A new block, entered from the current one unless that has ended.
LEMMA Entered ==
  ASSUME IInv, Room(1)
  PROVE  LET r == GotoIfOpen(Create(g), curr, Fresh(g))
         IN  /\ Grows(g, r, 1) /\ GraphOK(r) /\ Fresh(g) \in Blocks(r) /\ Fresh(g) \in Blk
             /\ Linkable(r, curr)
<1> DEFINE r == GotoIfOpen(Create(g), curr, Fresh(g))
<1>1. GraphOK(g) /\ g.n < MaxBlocks /\ curr \in Blocks(g)
  BY BlocksType, MaxBlocksAssumption DEF IInv, GraphOK, Room
<1>2. Grows(g, Create(g), 1) /\ Fresh(g) \in Blocks(Create(g)) /\ Fresh(g) \in Blk
  BY <1>1, CreateGrows
<1>3. GraphOK(Create(g)) /\ curr \in Blocks(Create(g))
  BY <1>1, <1>2, GrowsBlocks DEF Grows
<1>4. Grows(Create(g), r, 0) /\ Terminated(r, curr)
  BY <1>2, <1>3, GotoGrows
<1> HIDE DEF r
<1>5. Grows(g, r, 1 + 0)
  BY <1>1, <1>2, <1>4, GrowsTrans
<1>6. Blocks(Create(g)) \subseteq Blocks(r) /\ GraphOK(r)
  BY <1>3, <1>4, GrowsBlocks DEF Grows
<1>7. Grows(g, r, 1)
  BY <1>5
<1> QED
  BY <1>2, <1>3, <1>4, <1>6, <1>7 DEF Linkable, r

LEMMA VisitLabelDeclOK ==
  ASSUME IInv, NEW l \in Labels, VisitLabelDecl(l)
  PROVE  IInv'
<1> DEFINE new == Fresh(g)
           h   == GotoIfOpen(Create(g), curr, new)
           r   == SetGotos(h, pending[l], new)
           lab == [labeled EXCEPT ![l] = new]
           p   == [pending EXCEPT ![l] = << >>]
<1>1. Grows(g, h, 1) /\ GraphOK(h) /\ new \in Blocks(h) /\ new \in Blk
  BY Entered DEF VisitLabelDecl
<1>2. StackOK(h, stack) /\ WaitingOK(h, pending) /\ LabelsOK(h, labeled)
  BY <1>1, GrownState
<1>3. /\ stack # << >> /\ stack' = stack /\ curr' = new /\ labeled' = lab /\ pending' = p
      /\ used' = used /\ funcs' = funcs
      /\ g' = r \/ g' = Fail(r, "num_pending_gotos() == 0")
  BY DEF VisitLabelDecl, Running
<1> HIDE DEF new, h
<1>4. pending[l] \in Seq(Blk) /\ \A b \in Elems(pending[l]) : Linkable(h, b)
  BY <1>2 DEF WaitingOK
<1>5. Grows(h, r, 0) /\ GraphOK(r)
  BY <1>1, <1>4, SetGotosGrows DEF Grows
<1> HIDE DEF r
<1>6. Grows(r, g', 0)
  <2>1. Grows(r, Fail(r, "num_pending_gotos() == 0"), 0)
    BY <1>5, FailGrows DEF Assertions
  <2> QED
    BY <1>3, <1>5, <2>1, GrowsRefl
<1>7. Grows(h, g', 0)
  <2>1. Grows(h, g', 0 + 0)
    BY <1>1, <1>5, <1>6, GrowsTrans
  <2> QED
    BY <2>1
<1>8. /\ StackOK(g', stack) /\ WaitingOK(g', pending) /\ LabelsOK(g', labeled)
      /\ GraphOK(g') /\ new \in Blocks(g')
  BY <1>1, <1>2, <1>7, StateGrows, GrowsBlocks DEF Grows
<1>9. LabelsOK(g', lab)
  <2>1. lab \in [Labels -> Blk \cup {Null}]
    BY <1>1, <1>8 DEF LabelsOK
  <2>2. \A m \in Labels : lab[m] = IF m = l THEN new ELSE labeled[m]
    BY <1>8 DEF LabelsOK
  <2> QED
    BY <1>8, <2>1, <2>2 DEF LabelsOK
<1>10. /\ p \in [Labels -> Seq(Blk)]
       /\ \A m \in Labels : p[m] = IF m = l THEN << >> ELSE pending[m]
  BY <1>2 DEF WaitingOK
<1>11. WaitingOK(g', p)
  <2>1. Elems(<< >>) = {}
    BY DEF Elems
  <2> HIDE DEF p
  <2> QED
    BY <1>8, <1>10, <2>1 DEF WaitingOK
<1>12. PendingOK'
  <2>1. \A m \in Labels : lab[m] = IF m = l THEN new ELSE labeled[m]
    BY <1>8 DEF LabelsOK
  <2> HIDE DEF p, lab
  <2> QED
    BY <1>3, <1>10, <2>1 DEF IInv, PendingOK
<1>13. StackOK(g', stack') /\ WaitingOK(g', pending') /\ LabelsOK(g', labeled')
  BY <1>3, <1>8, <1>9, <1>11
<1> QED
  BY <1>3, <1>8, <1>12, <1>13 DEF IInv

LEMMA VisitCaseOK == IInv /\ VisitCase => IInv'
<1> SUFFICES ASSUME IInv, VisitCase PROVE IInv'
  OBVIOUS
<1> DEFINE new == Fresh(g)
           h   == GotoIfOpen(Create(g), curr, new)
           sw  == FindInfo({"switch"})
<1>1. /\ Grows(g, h, 1) /\ GraphOK(h) /\ new \in Blocks(h) /\ new \in Blk
      /\ Linkable(h, curr)
  BY Entered DEF VisitCase
<1>2. StackOK(h, stack)
  BY <1>1, GrownState
<1>3. /\ stack # << >> /\ stack' = stack
      /\ UNCHANGED << pending, labeled, used, funcs >>
      /\ sw = 0 => g' = Fail(h, "unable to find switch NestedStmtInfo") /\ curr' = curr
      /\ sw # 0 => g' = AddCase(h, stack[sw].blk, new) /\ curr' = new
  BY DEF VisitCase, Running
<1> HIDE DEF new, h
<1>4. Grows(h, g', 0) /\ curr' \in Blocks(h)
  <2>1. CASE sw = 0
    <3>1. Grows(h, Fail(h, "unable to find switch NestedStmtInfo"), 0)
      BY <1>1, FailGrows DEF Assertions
    <3> QED
      BY <1>1, <1>3, <2>1, <3>1 DEF Linkable
  <2>2. CASE sw # 0
    <3>1. sw \in 1 .. Len(stack) /\ stack[sw].stmt = "switch"
      BY <1>2, <2>2, FindsInfo DEF StackOK
    <3>2. Linkable(h, stack[sw].blk)
      BY <1>2, <3>1 DEF StackOK, FrameOK
    <3> QED
      BY <1>1, <1>3, <2>2, <3>2, AddCaseGrows
  <2> QED
    BY <2>1, <2>2
<1>5. StackOK(g', stack') /\ curr' \in Blocks(g')
  BY <1>1, <1>2, <1>3, <1>4, StateGrows, GrowsBlocks
<1>6. Grows(g, g', 1)
  <2>1. Grows(g, g', 1 + 0)
    BY <1>1, <1>4, GrowsTrans DEF IInv
  <2> QED
    BY <2>1
<1> QED
  BY <1>3, <1>5, <1>6, HandlerOK

\* One more block waits to be linked to what follows the statement of a frame.
LEMMA Merging ==
  ASSUME NEW h, StackOK(h, stack), NEW i \in 1 .. Len(stack),
         stack[i].stmt \in {"loop", "switch"}, NEW b \in Blk, Linkable(h, b)
  PROVE  /\ StackOK(h, [stack EXCEPT ![i].merges = Append(@, b)])
         /\ [stack EXCEPT ![i].merges = Append(@, b)] # << >>
<1> DEFINE f == stack[i]
           s == Append(f.merges, b)
           e == [f EXCEPT !.merges = s]
<1>1. stack \in Seq(Frames) /\ f \in Frames /\ FrameOK(h, f)
  BY ElementOfSeq DEF StackOK
<1>2. f \in LoopFrames \/ f \in SwitchFrames
  BY <1>1, FrameTypes
<1>3. f.merges \in Seq(Blk)
  BY <1>2 DEF LoopFrames, SwitchFrames
<1>4. s \in Seq(Blk) /\ Elems(s) = Elems(f.merges) \cup {b}
  BY <1>3, ElemsAppend
<1>5. [stack EXCEPT ![i].merges = Append(@, b)] = [stack EXCEPT ![i] = e]
  BY <1>1, <1>2 DEF LoopFrames, SwitchFrames
<1> HIDE DEF s, f
<1>6. CASE f \in LoopFrames
  <2>1. e \in LoopFrames /\ e.stmt = f.stmt
    BY <1>4, <1>6 DEF LoopFrames
  <2>2. /\ e.stmt = "loop" /\ f.stmt = "loop" /\ e.merges = s
        /\ e.entry = f.entry /\ e.init = f.init /\ e.initExit = f.initExit
        /\ e.cond = f.cond /\ e.condExit = f.condExit
        /\ e.step = f.step /\ e.stepExit = f.stepExit /\ e.body = f.body
    BY <1>6 DEF LoopFrames
  <2> HIDE DEF e
  <2>3. FrameOK(h, e)
    BY <1>1, <1>4, <2>2 DEF FrameOK
  <2>4. e \in Frames
    BY <2>1 DEF Frames
  <2>5. StackOK(h, [stack EXCEPT ![i] = e]) /\ [stack EXCEPT ![i] = e] # << >>
    BY <2>1, <2>3, <2>4, StackSet DEF f
  <2> QED
    BY <1>5, <2>5
<1>7. CASE f \in SwitchFrames
  <2>1. e \in SwitchFrames /\ e.stmt = f.stmt
    BY <1>4, <1>7 DEF SwitchFrames
  <2>2. e.stmt = "switch" /\ f.stmt = "switch" /\ e.merges = s /\ e.blk = f.blk
    BY <1>7 DEF SwitchFrames
  <2> HIDE DEF e
  <2>3. FrameOK(h, e)
    BY <1>1, <1>4, <2>2 DEF FrameOK
  <2>4. e \in Frames
    BY <2>1 DEF Frames
  <2>5. StackOK(h, [stack EXCEPT ![i] = e]) /\ [stack EXCEPT ![i] = e] # << >>
    BY <2>1, <2>3, <2>4, StackSet DEF f
  <2> QED
    BY <1>5, <2>5
<1> QED
  BY <1>2, <1>6, <1>7 DEF f

LEMMA VisitBreakOK == IInv /\ VisitBreak => IInv'
<1> SUFFICES ASSUME IInv, VisitBreak PROVE IInv'
  OBVIOUS
<1> DEFINE i == FindInfo({"loop", "switch"})
           h == Terminate(OpenGraph, OpenBlock, "goto")
           m == "unable to find loop or switch NestedStmtInfo"
<1>1. /\ Opens \in Nat /\ Grows(g, OpenGraph, Opens) /\ GraphOK(OpenGraph)
      /\ OpenBlock \in Blocks(OpenGraph)
  BY Opened DEF VisitBreak
<1>2. /\ Grows(g, h, Opens) /\ GraphOK(h) /\ Linkable(h, OpenBlock) /\ OpenBlock \in Blk
  <2>1. Room(Opens) /\ "goto" \in Kinds \ {"none"}
    BY DEF VisitBreak, Kinds
  <2> QED
    BY <2>1, Ended
<1>3. /\ stack # << >> /\ curr' = OpenBlock
      /\ UNCHANGED << pending, labeled, used, funcs >>
      /\ i = 0 => g' = Fail(OpenGraph, m) /\ stack' = stack
      /\ i # 0 => g' = h /\ stack' = [stack EXCEPT ![i].merges = Append(@, OpenBlock)]
  BY DEF VisitBreak, Running
<1>4. StackOK(h, stack) /\ StackOK(OpenGraph, stack)
  BY <1>1, <1>2, GrownState
<1> HIDE DEF h, i
<1>5. CASE i = 0
  <2>1. Grows(OpenGraph, g', 0)
    BY <1>1, <1>3, <1>5, FailGrows DEF Assertions
  <2>2. Grows(g, g', Opens + 0)
    BY <1>1, <2>1, GrowsTrans DEF IInv
  <2>3. Grows(g, g', Opens)
    BY <1>1, <2>2
  <2>4. StackOK(g', stack') /\ curr' \in Blocks(g')
    BY <1>1, <1>3, <1>4, <1>5, <2>1, StateGrows, GrowsBlocks
  <2> QED
    BY <1>1, <1>3, <1>5, <2>3, <2>4, HandlerOK
<1>6. CASE i # 0
  <2>1. i \in 1 .. Len(stack) /\ stack[i].stmt \in {"loop", "switch"}
    BY <1>4, <1>6, FindsInfo DEF StackOK, i
  <2>2. StackOK(h, stack') /\ stack' # << >>
    <3>1. /\ StackOK(h, [stack EXCEPT ![i].merges = Append(@, OpenBlock)])
          /\ [stack EXCEPT ![i].merges = Append(@, OpenBlock)] # << >>
      BY <1>2, <1>4, <2>1, Merging, Zenon
    <3>2. stack' = [stack EXCEPT ![i].merges = Append(@, OpenBlock)]
      BY <1>3, <1>6
    <3> QED
      BY ONLY <3>1, <3>2
  <2>3. Grows(g, g', Opens) /\ StackOK(g', stack') /\ curr' \in Blocks(g')
    BY <1>2, <1>3, <1>6, <2>2 DEF Linkable
  <2> QED
    BY <1>1, <1>3, <2>2, <2>3, HandlerOK
<1> QED
  BY <1>5, <1>6

LEMMA VisitContinueOK == IInv /\ VisitContinue => IInv'
<1> SUFFICES ASSUME IInv, VisitContinue PROVE IInv'
  OBVIOUS
<1> DEFINE i == FindInfo({"loop"})
           t == ContinueTarget(stack[i])
<1>1. /\ Opens \in Nat /\ Grows(g, OpenGraph, Opens) /\ GraphOK(OpenGraph)
      /\ OpenBlock \in Blocks(OpenGraph)
  BY Opened DEF VisitContinue
<1>2. StackOK(OpenGraph, stack)
  BY <1>1, GrownState
<1>3. /\ stack # << >> /\ curr' = OpenBlock /\ stack' = stack
      /\ UNCHANGED << pending, labeled, used, funcs >>
      /\ i = 0 => g' = Fail(OpenGraph, "unable to find loop NestedStmtInfo")
      /\ i # 0 => g' = GotoTo(OpenGraph, OpenBlock, t)
  BY DEF VisitContinue, Running
<1>4. Grows(OpenGraph, g', 0)
  <2>1. CASE i = 0
    BY <1>1, <1>3, <2>1, FailGrows DEF Assertions
  <2>2. CASE i # 0
    <3>1. i \in 1 .. Len(stack) /\ stack[i].stmt = "loop"
      BY <1>2, <2>2, FindsInfo DEF StackOK
    <3>2. FrameOK(OpenGraph, stack[i])
      BY <1>2, <3>1 DEF StackOK
    <3>3. t \in Blocks(OpenGraph)
      BY <3>1, <3>2 DEF FrameOK, ContinueTarget
    <3> QED
      BY <1>1, <1>3, <2>2, <3>3, GotoGrows
  <2> QED
    BY <2>1, <2>2
<1>5. Grows(g, g', Opens)
  <2>1. Grows(g, g', Opens + 0)
    BY <1>1, <1>4, GrowsTrans DEF IInv
  <2> QED
    BY <1>1, <2>1
<1>6. StackOK(g', stack') /\ curr' \in Blocks(g')
  BY <1>1, <1>2, <1>3, <1>4, StateGrows, GrowsBlocks
<1> QED
  BY <1>1, <1>3, <1>5, <1>6, HandlerOK

LEMMA EnterIfOK ==
  ASSUME IInv, NEW br \in BOOLEAN, EnterIf(br)
  PROVE  IInv'
<1> DEFINE h  == EvalGraph(OpenGraph, OpenBlock, br)
           b  == EvalBlock(OpenGraph, OpenBlock, br)
           c  == Create(h)
           t  == Terminate(c, b, "if")
           r  == SetThen(t, b, Fresh(h))
           f  == [stmt |-> "if", blk |-> b, thenExit |-> Null, inElse |-> FALSE]
           n  == Opens + EvalSize(br)
<1>1. /\ stack # << >> /\ g' = r /\ curr' = Fresh(h) /\ stack' = Push(f)
      /\ UNCHANGED << pending, labeled, used, funcs >>
      /\ Room(Opens + EvalSize(br) + 1)
  BY DEF EnterIf, Running
<1>2. /\ Grows(g, h, n) /\ n \in Nat /\ GraphOK(h) /\ b \in Blocks(h) /\ h.n + 1 <= MaxBlocks
  BY <1>1, OpenEvalGrows DEF IInv
<1> HIDE DEF h, b, n
<1>3. h.n < MaxBlocks
  BY <1>2, BlocksType, MaxBlocksAssumption DEF GraphOK
<1>4. Grows(h, c, 1) /\ Fresh(h) \in Blocks(c) /\ Fresh(h) \in Blk /\ GraphOK(c)
  BY <1>2, <1>3, CreateGrows DEF Grows
<1>5. b \in Blocks(c) /\ b \in Blk
  BY <1>2, <1>4, GrowsBlocks, BlocksType DEF GraphOK
<1> HIDE DEF c
<1>6. Grows(c, t, 0) /\ Terminated(t, b)
  BY <1>4, <1>5, TerminateGrows DEF Kinds
<1>7. GraphOK(t) /\ Linkable(t, b) /\ Fresh(h) \in Blocks(t)
  BY <1>4, <1>5, <1>6, GrowsBlocks DEF Grows, Linkable
<1> HIDE DEF t
<1>8. Grows(t, r, 0)
  BY <1>7, SettersGrow
<1>9. Linkable(r, b) /\ Fresh(h) \in Blocks(r)
  BY <1>7, <1>8, LinkableGrows, GrowsBlocks
<1> HIDE DEF r
<1>10. n + 1 + 0 + 0 = n + 1 /\ n + 1 \in Nat
  BY <1>2
<1>11. Grows(g, r, n + 1)
  <2>0. GraphOK(g)
    BY DEF IInv
  <2>1. Grows(g, c, n + 1)
    BY <2>0, <1>2, <1>4, GrowsTrans
  <2>2. Grows(g, t, n + 1 + 0)
    BY <2>0, <2>1, <1>6, <1>10, GrowsTrans
  <2>3. Grows(g, r, n + 1 + 0 + 0)
    BY <2>0, <2>2, <1>8, <1>10, GrowsTrans
  <2> QED
    BY <2>3, <1>10
<1>12. StackOK(r, stack)
  BY <1>10, <1>11, GrownState
<1>13. f \in Frames /\ FrameOK(r, f)
  BY <1>5, <1>9 DEF Frames, IfFrames, FrameOK
<1> HIDE DEF f
<1>14. StackOK(r, Push(f)) /\ Push(f) # << >>
  BY <1>1, <1>12, <1>13, StackPush
<1> QED
  BY <1>1, <1>9, <1>10, <1>11, <1>14, HandlerOK

LEMMA EnterSwitchOK ==
  ASSUME IInv, NEW br \in BOOLEAN, EnterSwitch(br)
  PROVE  IInv'
<1> DEFINE h == EvalGraph(OpenGraph, OpenBlock, br)
           b == EvalBlock(OpenGraph, OpenBlock, br)
           r == Terminate(h, b, "switch")
           f == [stmt |-> "switch", blk |-> b, merges |-> << >>]
           n == Opens + EvalSize(br)
<1>1. /\ stack # << >> /\ g' = r /\ curr' = b /\ stack' = Push(f)
      /\ UNCHANGED << pending, labeled, used, funcs >>
      /\ Room(Opens + EvalSize(br))
  BY DEF EnterSwitch, Running
<1>2. Room(Opens + EvalSize(br) + 0)
  BY <1>1, BlocksType DEF IInv, GraphOK, Room, Opens, EvalSize
<1>3. Grows(g, h, n) /\ n \in Nat /\ GraphOK(h) /\ b \in Blocks(h)
  BY <1>2, OpenEvalGrows DEF IInv
<1> HIDE DEF h, b, n
<1>4. b \in Blk
  BY <1>3, BlocksType DEF GraphOK
<1>5. Grows(h, r, 0) /\ Terminated(r, b)
  BY <1>3, <1>4, TerminateGrows DEF Kinds
<1> HIDE DEF r
<1>6. Linkable(r, b)
  BY <1>3, <1>5, GrowsBlocks DEF Linkable
<1>7. Grows(g, r, n)
  <2>1. Grows(g, r, n + 0)
    BY <1>3, <1>5, GrowsTrans DEF IInv
  <2> QED
    BY <1>3, <2>1
<1>8. StackOK(r, stack)
  BY <1>3, <1>7, GrownState
<1>9. f \in Frames /\ FrameOK(r, f)
  <2>1. << >> \in Seq(Blk) /\ Elems(<< >>) = {}
    BY DEF Elems
  <2> QED
    BY <1>4, <1>6, <2>1 DEF Frames, SwitchFrames, FrameOK
<1> HIDE DEF f
<1>10. StackOK(r, Push(f)) /\ Push(f) # << >>
  BY <1>1, <1>8, <1>9, StackPush
<1> QED
  BY <1>1, <1>3, <1>6, <1>7, <1>10, HandlerOK DEF Linkable

LEMMA ExitSwitchOK == IInv /\ ExitSwitch => IInv'
<1> SUFFICES ASSUME IInv, ExitSwitch PROVE IInv'
  OBVIOUS
<1> DEFINE c == Create(g)
           r == SetGotos(c, Top.merges, Fresh(g))
<1>1. /\ stack # << >> /\ Top.stmt = "switch" /\ g' = r /\ curr' = Fresh(g) /\ stack' = Pop
      /\ UNCHANGED << pending, labeled, used, funcs >>
  BY DEF ExitSwitch, Running
<1>2. GraphOK(g) /\ g.n < MaxBlocks
  BY BlocksType, MaxBlocksAssumption DEF IInv, GraphOK, ExitSwitch, Room
<1>3. Grows(g, c, 1) /\ GraphOK(c) /\ Fresh(g) \in Blocks(c)
  BY <1>2, CreateGrows DEF Grows
<1>4. StackOK(c, stack)
  BY <1>3, GrownState
<1> HIDE DEF c
<1>5. Top \in SwitchFrames /\ FrameOK(c, Top)
  BY <1>1, <1>4, StackTop, FrameTypes
<1>6. Top.merges \in Seq(Blk) /\ \A b \in Elems(Top.merges) : Linkable(c, b)
  BY <1>1, <1>5 DEF SwitchFrames, FrameOK
<1>7. Grows(c, r, 0)
  BY <1>3, <1>6, SetGotosGrows
<1> HIDE DEF r
<1>8. Grows(g, r, 1)
  <2>1. Grows(g, r, 1 + 0)
    BY <1>2, <1>3, <1>7, GrowsTrans
  <2> QED
    BY <2>1
<1>9. StackOK(r, stack) /\ Fresh(g) \in Blocks(r)
  BY <1>3, <1>7, <1>8, GrownState, GrowsBlocks
<1>10. StackOK(r, Pop) /\ Pop # << >>
  BY <1>1, <1>9, StackPop
<1> QED
  BY <1>1, <1>8, <1>9, <1>10, HandlerOK

LEMMA EnterElseOK == IInv /\ EnterElse => IInv'
<1> SUFFICES ASSUME IInv, EnterElse PROVE IInv'
  OBVIOUS
<1> DEFINE c == Create(g)
           r == SetElse(c, Top.blk, Fresh(g))
           f == [Top EXCEPT !.thenExit = curr, !.inElse = TRUE]
<1>1. /\ stack # << >> /\ Top.stmt = "if" /\ g' = r /\ curr' = Fresh(g)
      /\ stack' = SetTop(f) /\ UNCHANGED << pending, labeled, used, funcs >>
  BY DEF EnterElse, Running
<1>2. GraphOK(g) /\ g.n < MaxBlocks /\ curr \in Blocks(g)
  BY BlocksType, MaxBlocksAssumption DEF IInv, GraphOK, EnterElse, Room
<1>3. Grows(g, c, 1) /\ GraphOK(c) /\ Fresh(g) \in Blocks(c)
  BY <1>2, CreateGrows DEF Grows
<1>4. StackOK(c, stack)
  BY <1>3, GrownState
<1> HIDE DEF c
<1>5. /\ Len(stack) \in Nat \ {0} /\ Top = stack[Len(stack)]
      /\ Top \in IfFrames /\ FrameOK(c, Top)
  BY <1>1, <1>4, StackTop, FrameTypes
<1>6. Grows(c, r, 0)
  BY <1>1, <1>3, <1>5, SettersGrow DEF FrameOK
<1> HIDE DEF r
<1>7. Grows(g, r, 1)
  <2>1. Grows(g, r, 1 + 0)
    BY <1>2, <1>3, <1>6, GrowsTrans
  <2> QED
    BY <2>1
<1>8. StackOK(r, stack) /\ Fresh(g) \in Blocks(r) /\ curr \in Blocks(r)
  BY <1>2, <1>3, <1>6, <1>7, GrownState, GrowsBlocks
<1>9. FrameOK(r, Top)
  BY <1>1, <1>8, StackTop
<1>10. f \in IfFrames /\ f.stmt = "if" /\ f.blk = Top.blk /\ f.thenExit = curr
  BY <1>2, <1>5, BlocksType DEF IfFrames, GraphOK
<1> HIDE DEF f
<1>11. f \in Frames /\ FrameOK(r, f)
  BY <1>1, <1>8, <1>9, <1>10 DEF Frames, FrameOK
<1>12. StackOK(r, SetTop(f)) /\ SetTop(f) # << >>
  <2>1. Len(stack) \in 1 .. Len(stack) /\ f.stmt = stack[Len(stack)].stmt
    BY <1>1, <1>5, <1>10
  <2> QED
    BY <1>8, <1>11, <2>1, StackSet DEF SetTop
<1> QED
  BY <1>1, <1>7, <1>8, <1>12, HandlerOK

LEMMA ExitIfNoElseOK == IInv /\ ExitIfNoElse => IInv'
<1> SUFFICES ASSUME IInv, ExitIfNoElse PROVE IInv'
  OBVIOUS
<1> DEFINE h == GotoIfOpen(Create(g), curr, Fresh(g))
           r == SetElse(h, Top.blk, Fresh(g))
<1>1. /\ stack # << >> /\ Top.stmt = "if" /\ g' = r /\ curr' = Fresh(g)
      /\ stack' = Pop /\ UNCHANGED << pending, labeled, used, funcs >>
  BY DEF ExitIfNoElse, Running
<1>2. Grows(g, h, 1) /\ GraphOK(h) /\ Fresh(g) \in Blocks(h)
  BY Entered DEF ExitIfNoElse
<1> HIDE DEF h
<1>3. FrameOK(h, Top)
  BY <1>1, <1>2, GrownState, StackTop
<1>4. Grows(h, r, 0)
  BY <1>1, <1>2, <1>3, SettersGrow DEF FrameOK
<1> HIDE DEF r
<1>5. Grows(g, r, 1)
  <2>1. Grows(g, r, 1 + 0)
    BY <1>2, <1>4, GrowsTrans DEF IInv
  <2> QED
    BY <2>1
<1>6. StackOK(r, stack) /\ Fresh(g) \in Blocks(r)
  BY <1>2, <1>4, <1>5, GrownState, GrowsBlocks
<1>7. StackOK(r, Pop) /\ Pop # << >>
  BY <1>1, <1>6, StackPop
<1> QED
  BY <1>1, <1>5, <1>6, <1>7, HandlerOK

LEMMA ExitIfBothEndedOK == IInv /\ ExitIfBothEnded => IInv'
<1> SUFFICES ASSUME IInv, ExitIfBothEnded PROVE IInv'
  OBVIOUS
<1>1. /\ stack # << >> /\ Top.stmt = "if" /\ Top.inElse /\ g' = g
      /\ curr' = Top.thenExit /\ stack' = Pop
      /\ UNCHANGED << pending, labeled, used, funcs >>
  BY DEF ExitIfBothEnded, Running
<1>2. Grows(g, g, 0)
  BY GrowsRefl DEF IInv
<1>3. StackOK(g, stack)
  BY DEF IInv
<1>4. Top.thenExit \in Blocks(g)
  BY <1>1, <1>3, StackTop DEF FrameOK
<1>5. StackOK(g, Pop) /\ Pop # << >>
  BY <1>1, <1>3, StackPop
<1> QED
  BY <1>1, <1>2, <1>4, <1>5, HandlerOK

LEMMA ExitIfMergeOK == IInv /\ ExitIfMerge => IInv'
<1> SUFFICES ASSUME IInv, ExitIfMerge PROVE IInv'
  OBVIOUS
<1> DEFINE c == Create(g)
           h == GotoIfOpen(c, Top.thenExit, Fresh(g))
           r == GotoIfOpen(h, curr, Fresh(g))
<1>1. /\ stack # << >> /\ Top.stmt = "if" /\ Top.inElse /\ g' = r /\ curr' = Fresh(g)
      /\ stack' = Pop /\ UNCHANGED << pending, labeled, used, funcs >>
  BY DEF ExitIfMerge, Running
<1>2. GraphOK(g) /\ g.n < MaxBlocks /\ curr \in Blocks(g)
  BY BlocksType, MaxBlocksAssumption DEF IInv, GraphOK, ExitIfMerge, Room
<1>3. Grows(g, c, 1) /\ GraphOK(c) /\ Fresh(g) \in Blocks(c) /\ curr \in Blocks(c)
  BY <1>2, CreateGrows, GrowsBlocks DEF Grows
<1> HIDE DEF c
<1>4. Top.thenExit \in Blocks(c)
  BY <1>1, <1>3, GrownState, StackTop DEF FrameOK
<1>5. Grows(c, h, 0)
  BY <1>3, <1>4, GotoGrows
<1>6. GraphOK(h) /\ Fresh(g) \in Blocks(h) /\ curr \in Blocks(h)
  BY <1>3, <1>5, GrowsBlocks DEF Grows
<1> HIDE DEF h
<1>7. Grows(h, r, 0)
  BY <1>6, GotoGrows
<1> HIDE DEF r
<1>8. Grows(g, r, 1)
  <2>1. Grows(g, h, 1 + 0)
    BY <1>2, <1>3, <1>5, GrowsTrans
  <2>2. Grows(g, r, 1 + 0 + 0)
    BY <1>2, <1>7, <2>1, GrowsTrans
  <2> QED
    BY <2>2
<1>9. StackOK(r, stack) /\ Fresh(g) \in Blocks(r)
  BY <1>6, <1>7, <1>8, GrownState, GrowsBlocks
<1>10. StackOK(r, Pop) /\ Pop # << >>
  BY <1>1, <1>9, StackPop
<1> QED
  BY <1>1, <1>8, <1>9, <1>10, HandlerOK

(***************************************************************************)
(* Loops: the parts a loop has or lacks, one after the other               *)
(***************************************************************************)

One(has) == IF has THEN 1 ELSE 0

\* The init or the step: a block with an expression in it.
LEMMA PartGrows ==
  ASSUME NEW h, GraphOK(h), NEW has \in BOOLEAN, h.n + One(has) <= MaxBlocks
  PROVE  LET r == IF has THEN AddInstruction(Create(h), Fresh(h)) ELSE h
         IN  /\ Grows(h, r, One(has)) /\ GraphOK(r) /\ r.n = h.n + One(has)
             /\ has => Fresh(h) \in Blocks(r) /\ Fresh(h) \in Blk
<1> DEFINE c == Create(h)
           a == AddInstruction(c, Fresh(h))
<1>1. CASE ~has
  BY <1>1, GrowsRefl, BlocksType DEF One, GraphOK
<1>2. CASE has
  <2>1. h.n < MaxBlocks
    BY <1>2, BlocksType, MaxBlocksAssumption DEF One, GraphOK
  <2>2. Grows(h, c, 1) /\ GraphOK(c) /\ Fresh(h) \in Blocks(c) /\ Fresh(h) \in Blk
    BY <2>1, CreateGrows DEF Grows
  <2> HIDE DEF c
  <2>3. Grows(c, a, 0)
    BY <2>2, InstructionGrows
  <2> HIDE DEF a
  <2>4. Grows(h, a, 1 + 0) /\ Fresh(h) \in Blocks(a)
    BY <2>2, <2>3, GrowsTrans, GrowsBlocks
  <2>5. Grows(h, a, 1) /\ GraphOK(a) /\ a.n = h.n + 1
    BY <2>4 DEF Grows
  <2> QED
    BY <1>2, <2>2, <2>4, <2>5 DEF One, a, c
<1> QED
  BY <1>1, <1>2

\* The condition: a block that evaluates it and ends in an If.
LEMMA CondGrows ==
  ASSUME NEW h, GraphOK(h), NEW has \in BOOLEAN, NEW br \in BOOLEAN, br => has,
         h.n + (One(has) + EvalSize(br)) <= MaxBlocks
  PROVE  LET x == EvalBlock(Create(h), Fresh(h), br)
             r == IF has THEN Terminate(EvalGraph(Create(h), Fresh(h), br), x, "if") ELSE h
             k == One(has) + EvalSize(br)
         IN  /\ k \in Nat /\ Grows(h, r, k) /\ GraphOK(r) /\ r.n = h.n + k
             /\ has => /\ Fresh(h) \in Blocks(r) /\ Fresh(h) \in Blk
                       /\ Linkable(r, x) /\ x \in Blk
<1> DEFINE x == EvalBlock(Create(h), Fresh(h), br)
           k == One(has) + EvalSize(br)
           c == Create(h)
           e == EvalGraph(c, Fresh(h), br)
           r == Terminate(e, x, "if")
<1>1. CASE ~has
  <2>1. k = 0
    BY <1>1 DEF One, EvalSize
  <2>2. Grows(h, h, 0) /\ h.n = h.n + 0
    BY GrowsRefl, BlocksType DEF GraphOK
  <2> QED
    BY <1>1, <2>1, <2>2
<1>2. CASE has
  <2>1. /\ EvalSize(br) \in Nat /\ h.n \in Nat /\ MaxBlocks \in Nat
        /\ One(has) = 1 /\ k = 1 + EvalSize(br) /\ k \in Nat
    BY <1>2, BlocksType, MaxBlocksAssumption DEF One, EvalSize, GraphOK
  <2>2. h.n < MaxBlocks
    <3>1. h.n + (One(has) + EvalSize(br)) <= MaxBlocks
      OBVIOUS
    <3> QED
      BY ONLY <2>1, <3>1
  <2>3. Grows(h, c, 1) /\ Fresh(h) \in Blocks(c) /\ Fresh(h) \in Blk
    BY <2>2, CreateGrows
  <2>4. GraphOK(c) /\ c.n + EvalSize(br) <= MaxBlocks
    BY <2>1, <2>3 DEF Grows
  <2>5. Grows(c, e, EvalSize(br)) /\ x \in Blocks(e)
    BY <2>3, <2>4, EvalGrows
  <2>6. GraphOK(e) /\ x \in Blk /\ Fresh(h) \in Blocks(e)
    BY <2>1, <2>3, <2>4, <2>5, GrowsBlocks, BlocksType DEF Grows, GraphOK
  <2> HIDE DEF c, e, x
  <2>7. Grows(e, r, 0) /\ Terminated(r, x)
    BY <2>6, TerminateGrows DEF Kinds
  <2> HIDE DEF r
  <2>8. GraphOK(r) /\ x \in Blocks(r) /\ Fresh(h) \in Blocks(r)
    BY <2>5, <2>6, <2>7, GrowsBlocks DEF Grows
  <2>9. Grows(h, r, k)
    <3>1. Grows(h, e, 1 + EvalSize(br))
      BY <2>1, <2>3, <2>5, GrowsTrans
    <3>2. Grows(h, r, 1 + EvalSize(br) + 0)
      BY <2>1, <2>7, <3>1, GrowsTrans
    <3>3. 1 + EvalSize(br) + 0 = k
      BY <2>1
    <3> QED
      BY <3>2, <3>3
  <2>10. r.n = h.n + k
    BY <2>9 DEF Grows
  <2> HIDE DEF k
  <2>11. /\ k \in Nat /\ Grows(h, r, k) /\ GraphOK(r) /\ r.n = h.n + k
         /\ Fresh(h) \in Blocks(r) /\ Fresh(h) \in Blk
         /\ Linkable(r, x) /\ x \in Blk
    BY <2>1, <2>3, <2>6, <2>7, <2>8, <2>9, <2>10 DEF Linkable
  <2> QED
    BY <1>2, <2>11 DEF r, e, x, c, k
<1> QED
  BY <1>1, <1>2

LEMMA EnterLoopOK ==
  ASSUME IInv, NEW s \in Shapes, NEW br \in BOOLEAN, EnterLoop(s, br)
  PROVE  IInv'
<1> DEFINE entry == OpenBlock
           g1    == Terminate(OpenGraph, entry, "goto")
           init  == IF s.init THEN Fresh(g1) ELSE Null
           g2    == IF s.init THEN AddInstruction(Create(g1), Fresh(g1)) ELSE g1
           x     == EvalBlock(Create(g2), Fresh(g2), br)
           cond  == IF s.cond THEN Fresh(g2) ELSE Null
           cexit == IF s.cond THEN x ELSE Null
           g3    == IF s.cond
                    THEN Terminate(EvalGraph(Create(g2), Fresh(g2), br), x, "if")
                    ELSE g2
           step  == IF s.step THEN Fresh(g3) ELSE Null
           g4    == IF s.step THEN AddInstruction(Create(g3), Fresh(g3)) ELSE g3
           g5    == Create(g4)
           body  == Fresh(g4)
           f     == [stmt |-> "loop", entry |-> entry, init |-> init, initExit |-> init,
                     cond |-> cond, condExit |-> cexit, step |-> step, stepExit |-> step,
                     body |-> body, dowhile |-> s.dowhile, merges |-> << >>]
<1>0. s.init \in BOOLEAN /\ s.cond \in BOOLEAN /\ s.step \in BOOLEAN /\ s.dowhile \in BOOLEAN
  BY DEF Shapes
<1>1. /\ stack # << >> /\ g' = g5 /\ curr' = body /\ stack' = Push(f)
      /\ UNCHANGED << pending, labeled, used, funcs >>
      /\ br => s.cond
  BY ZenonT(40) DEF EnterLoop, Running
<1>2. /\ One(s.init) \in Nat /\ One(s.cond) \in Nat /\ One(s.step) \in Nat
      /\ Opens \in Nat /\ EvalSize(br) \in Nat /\ g.n \in Nat /\ MaxBlocks \in Nat
      /\ g.n + (Opens + (One(s.init) + One(s.cond) + One(s.step) + 1) + EvalSize(br)) <= MaxBlocks
  <2>1. /\ One(s.init) \in Nat /\ One(s.cond) \in Nat /\ One(s.step) \in Nat
        /\ Opens \in Nat /\ EvalSize(br) \in Nat /\ g.n \in Nat /\ MaxBlocks \in Nat
    BY BlocksType, MaxBlocksAssumption DEF One, Opens, EvalSize, IInv, GraphOK
  <2>2. Room(Opens + LoopSize(s) + EvalSize(br))
    BY DEF EnterLoop
  <2>3. LoopSize(s) = One(s.init) + One(s.cond) + One(s.step) + 1
    BY DEF LoopSize, One
  <2> QED
    BY <2>1, <2>2, <2>3 DEF Room
<1>3. /\ Grows(g, g1, Opens) /\ GraphOK(g1) /\ Linkable(g1, entry) /\ entry \in Blk
      /\ g1.n = g.n + Opens
  <2>1. Room(Opens) /\ "goto" \in Kinds \ {"none"}
    BY <1>2 DEF Room, Kinds
  <2> QED
    BY <2>1, Ended DEF Grows
<1> HIDE DEF entry, g1
<1>4. /\ Grows(g1, g2, One(s.init)) /\ GraphOK(g2) /\ g2.n = g1.n + One(s.init)
      /\ s.init => Fresh(g1) \in Blocks(g2) /\ Fresh(g1) \in Blk
  <2>1. g1.n + One(s.init) <= MaxBlocks
    BY <1>2, <1>3
  <2> QED
    BY <1>0, <1>3, <2>1, PartGrows
<1> HIDE DEF g2
<1>5. /\ Grows(g2, g3, One(s.cond) + EvalSize(br)) /\ GraphOK(g3)
      /\ g3.n = g2.n + (One(s.cond) + EvalSize(br))
      /\ s.cond => /\ Fresh(g2) \in Blocks(g3) /\ Fresh(g2) \in Blk
                   /\ Linkable(g3, x) /\ x \in Blk
  <2>1. g2.n + (One(s.cond) + EvalSize(br)) <= MaxBlocks
    BY <1>2, <1>3, <1>4
  <2> QED
    BY <1>0, <1>1, <1>4, <2>1, CondGrows
<1> HIDE DEF g3, x
<1>6. /\ Grows(g3, g4, One(s.step)) /\ GraphOK(g4) /\ g4.n = g3.n + One(s.step)
      /\ s.step => Fresh(g3) \in Blocks(g4) /\ Fresh(g3) \in Blk
  <2>1. g3.n + One(s.step) <= MaxBlocks
    BY <1>2, <1>3, <1>4, <1>5
  <2> QED
    BY <1>0, <1>5, <2>1, PartGrows
<1> HIDE DEF g4
<1>7. Grows(g4, g5, 1) /\ GraphOK(g5) /\ body \in Blocks(g5) /\ body \in Blk
  <2>1. g4.n < MaxBlocks
    BY <1>2, <1>3, <1>4, <1>5, <1>6
  <2> QED
    BY <1>6, <2>1, CreateGrows DEF Grows
<1> HIDE DEF g5, body
<1> DEFINE kc == One(s.cond) + EvalSize(br)
<1>8. kc \in Nat
  BY <1>2
<1>9. Grows(g2, g3, kc)
  BY <1>5
<1> HIDE DEF kc
<1>10. /\ Grows(g3, g5, One(s.step) + 1) /\ One(s.step) + 1 \in Nat
  BY <1>2, <1>5, <1>6, <1>7, GrowsTrans
<1>11. Grows(g2, g5, kc + (One(s.step) + 1)) /\ kc + (One(s.step) + 1) \in Nat
  BY <1>4, <1>8, <1>9, <1>10, GrowsTrans
<1> DEFINE k2 == kc + (One(s.step) + 1)
           k1 == One(s.init) + k2
<1>12. k2 \in Nat /\ k1 \in Nat /\ Grows(g2, g5, k2)
  BY <1>2, <1>11
<1> HIDE DEF k2
<1>13. Grows(g1, g5, k1)
  BY <1>2, <1>3, <1>4, <1>12, GrowsTrans
<1> HIDE DEF k1
<1>14. Grows(g, g5, Opens + k1) /\ Opens + k1 \in Nat
  BY <1>2, <1>3, <1>12, <1>13, GrowsTrans DEF IInv
<1>15. StackOK(g5, stack)
  BY <1>14, GrownState
<1>16. f \in Frames
  <2>1. << >> \in Seq(Blk)
    OBVIOUS
  <2>2. f \in LoopFrames
    BY <1>0, <1>3, <1>4, <1>5, <1>6, <1>7, <2>1 DEF LoopFrames
  <2> QED
    BY <2>2 DEF Frames
<1>17. FrameOK(g5, f)
  <2>1. Linkable(g5, entry)
    BY <1>3, <1>12, <1>13, LinkableGrows
  <2>2. s.init => Fresh(g1) \in Blocks(g5)
    BY <1>4, <1>12, GrowsBlocks
  <2>3. s.cond => Fresh(g2) \in Blocks(g5) /\ Linkable(g5, x)
    BY <1>5, <1>10, GrowsBlocks, LinkableGrows
  <2>4. s.step => Fresh(g3) \in Blocks(g5)
    BY <1>6, <1>7, GrowsBlocks
  <2>5. Elems(<< >>) = {}
    BY DEF Elems
  <2> QED
    BY <1>7, <2>1, <2>2, <2>3, <2>4, <2>5 DEF FrameOK
<1> HIDE DEF f
<1>18. StackOK(g5, Push(f)) /\ Push(f) # << >>
  BY <1>1, <1>15, <1>16, <1>17, StackPush
<1> QED
  BY <1>1, <1>7, <1>14, <1>18, HandlerOK

LEMMA ExitLoopOK == IInv /\ ExitLoop => IInv'
<1> SUFFICES ASSUME IInv, ExitLoop PROVE IInv'
  OBVIOUS
<1> DEFINE f  == Top
           m  == Fresh(g)
           c  == Create(g)
           g1 == SetGoto(c, f.entry, EntryTarget(f))
           g2 == IF f.init # Null THEN GotoIfOpen(g1, f.initExit, BackedgeTarget(f)) ELSE g1
           g3 == IF f.cond # Null THEN SetThen(g2, f.condExit, f.body) ELSE g2
           g4 == GotoIfOpen(g3, curr, BodyTarget(f))
           g5 == IF f.step # Null THEN GotoIfOpen(g4, f.stepExit, BackedgeTarget(f)) ELSE g4
           g6 == IF f.cond # Null THEN SetElse(g5, f.condExit, m) ELSE g5
           g7 == SetGotos(g6, f.merges, m)
           Ready(h) == /\ GraphOK(h) /\ FrameOK(h, f) /\ Grows(g, h, 1)
                       /\ m \in Blocks(h) /\ curr \in Blocks(h)
<1>1. /\ stack # << >> /\ f.stmt = "loop" /\ g' = g7 /\ curr' = m /\ stack' = Pop
      /\ UNCHANGED << pending, labeled, used, funcs >>
  BY DEF ExitLoop, Running
<1>2. GraphOK(g) /\ g.n < MaxBlocks /\ curr \in Blocks(g)
  BY BlocksType, MaxBlocksAssumption DEF IInv, GraphOK, ExitLoop, Room
<1>3. StackOK(g, stack)
  BY DEF IInv
<1>4. f \in LoopFrames /\ f \in Frames
  BY <1>1, <1>3, StackTop, FrameTypes
<1>5. Ready(c)
  <2>1. Grows(g, c, 1) /\ GraphOK(c) /\ m \in Blocks(c)
    BY <1>2, CreateGrows DEF Grows
  <2>2. curr \in Blocks(c)
    BY <1>2, <2>1, GrowsBlocks
  <2>3. StackOK(c, stack)
    BY <2>1, GrownState
  <2>4. FrameOK(c, f)
    BY <1>1, <2>3, StackTop
  <2> QED
    BY <2>1, <2>2, <2>4
<1> HIDE DEF f, m, c
\* Each of the setters keeps what the next one needs.
<1>6. ASSUME NEW h, NEW r, Ready(h), Grows(h, r, 0) PROVE Ready(r)
  <2>1. GraphOK(r) /\ m \in Blocks(r) /\ curr \in Blocks(r)
    BY <1>6, GrowsBlocks DEF Grows
  <2>2. FrameOK(r, f)
    BY <1>4, <1>6, FrameGrows
  <2>3. Grows(g, r, 1 + 0)
    BY <1>2, <1>6, GrowsTrans
  <2> QED
    BY <2>1, <2>2, <2>3
\* The blocks of the loop, and where its edges go.
<1>7. ASSUME NEW h, Ready(h)
      PROVE  /\ Linkable(h, f.entry) /\ f.body \in Blocks(h) /\ m \in Blocks(h)
             /\ curr \in Blocks(h) /\ GraphOK(h) /\ Grows(h, h, 0)
             /\ f.init # Null => f.init \in Blocks(h) /\ f.initExit \in Blocks(h)
             /\ f.cond # Null => f.cond \in Blocks(h) /\ Linkable(h, f.condExit)
             /\ f.step # Null => f.step \in Blocks(h) /\ f.stepExit \in Blocks(h)
             /\ \A b \in Elems(f.merges) : Linkable(h, b)
  BY <1>1, <1>7, GrowsRefl DEF FrameOK
<1>8. ASSUME NEW h, Ready(h)
      PROVE  /\ EntryTarget(f) \in Blocks(h) /\ BackedgeTarget(f) \in Blocks(h)
             /\ BodyTarget(f) \in Blocks(h)
  BY <1>7, <1>8 DEF EntryTarget, BackedgeTarget, BodyTarget
<1> HIDE DEF Ready
<1>9. Ready(g1)
  <2>1. Grows(c, g1, 0)
    BY <1>5, <1>7, <1>8, SettersGrow
  <2> QED
    BY <1>5, <1>6, <2>1
<1> HIDE DEF g1
<1>10. Ready(g2)
  <2>1. Grows(g1, g2, 0)
    BY <1>7, <1>8, <1>9, GotoGrows
  <2> QED
    BY <1>6, <1>9, <2>1
<1> HIDE DEF g2
<1>11. Ready(g3)
  <2>1. Grows(g2, g3, 0)
    BY <1>7, <1>10, SettersGrow
  <2> QED
    BY <1>6, <1>10, <2>1
<1> HIDE DEF g3
<1>12. Ready(g4)
  <2>1. Grows(g3, g4, 0)
    BY <1>7, <1>8, <1>11, GotoGrows
  <2> QED
    BY <1>6, <1>11, <2>1
<1> HIDE DEF g4
<1>13. Ready(g5)
  <2>1. Grows(g4, g5, 0)
    BY <1>7, <1>8, <1>12, GotoGrows
  <2> QED
    BY <1>6, <1>12, <2>1
<1> HIDE DEF g5
<1>14. Ready(g6)
  <2>1. Grows(g5, g6, 0)
    BY <1>7, <1>13, SettersGrow
  <2> QED
    BY <1>6, <1>13, <2>1
<1> HIDE DEF g6
<1>15. Ready(g7)
  <2>1. f.merges \in Seq(Blk)
    BY <1>4 DEF LoopFrames
  <2>2. Grows(g6, g7, 0)
    BY <1>7, <1>14, <2>1, SetGotosGrows
  <2> QED
    BY <1>6, <1>14, <2>2
<1> HIDE DEF g7
<1>16. Grows(g, g7, 1) /\ m \in Blocks(g7)
  BY <1>15 DEF Ready
<1>17. StackOK(g7, stack)
  BY <1>16, GrownState
<1>18. StackOK(g7, Pop) /\ Pop # << >>
  BY <1>1, <1>17, StackPop DEF f
<1> QED
  BY <1>1, <1>16, <1>18, HandlerOK

(***************************************************************************)
(* The theorems                                                            *)
(***************************************************************************)

LEMMA StepOK == IInv /\ [Next]_vars => IInv'
<1> SUFFICES ASSUME IInv, [Next]_vars PROVE IInv'
  OBVIOUS
<1>1. CASE UNCHANGED vars
  BY <1>1 DEF vars, IInv, PendingOK
<1>2. ASSUME NEW br \in BOOLEAN, VisitExprStmt(br) PROVE IInv'
  BY <1>2, VisitExprStmtOK
<1>3. ASSUME NEW l \in Labels, VisitGoto(l) PROVE IInv'
  BY <1>3, VisitGotoOK
<1>4. ASSUME NEW l \in Labels, VisitLabelDecl(l) PROVE IInv'
  BY <1>4, VisitLabelDeclOK
<1>5. ASSUME NEW br \in BOOLEAN, EnterIf(br) PROVE IInv'
  BY <1>5, EnterIfOK
<1>6. ASSUME NEW s \in Shapes, NEW br \in BOOLEAN, EnterLoop(s, br) PROVE IInv'
  BY <1>6, EnterLoopOK
<1>7. ASSUME NEW br \in BOOLEAN, EnterSwitch(br) PROVE IInv'
  BY <1>7, EnterSwitchOK
<1>8. ASSUME NEW br \in BOOLEAN, VisitReturn(br) PROVE IInv'
  BY <1>8, VisitReturnOK
<1> QED
  BY <1>1, <1>2, <1>3, <1>4, <1>5, <1>6, <1>7, <1>8, EnterFunctionOK, ExitFunctionOK,
     VisitCaseOK, VisitBreakOK, VisitContinueOK, EnterElseOK,
     ExitIfNoElseOK, ExitIfBothEndedOK, ExitIfMergeOK, ExitLoopOK, ExitSwitchOK
     DEF Next

LEMMA Invariant == Spec => []IInv
  BY InitOK, StepOK, PTL DEF Spec

\* The builder's state keeps its types whatever visits the parser, the MIR
\* and the LIR synthesizers make it see: no block outside the function, no
\* stack of statements that mixes their frames.
THEOREM TypeCorrect == Spec => []TypeOK
<1>1. IInv => TypeOK
  BY BlocksType DEF IInv, GraphOK, StackOK, WaitingOK, LabelsOK, TypeOK
<1> QED
  BY <1>1, Invariant, PTL

\* builder.cpp links blocks from seven places, long after they were created:
\* every edge is nevertheless recorded at both its ends, leads to a block of
\* the function, and leaves only a block that has a terminator.
THEOREM Edges == Spec => []EdgesConsistent
<1>1. IInv => EdgesConsistent
  BY DEF IInv, GraphOK, EdgesConsistent
<1> QED
  BY <1>1, Invariant, PTL

=============================================================================
