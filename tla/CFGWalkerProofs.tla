-------------------------- MODULE CFGWalkerProofs ---------------------------
(***************************************************************************)
(* Proofs about CFGWalker, for every set of blocks, finite or not, every   *)
(* set of graphs over them and each of the three orders.                   *)
(***************************************************************************)
EXTENDS CFGWalker, SequenceTheorems, TLAPS

(***************************************************************************)
(* Sequences of calls                                                      *)
(***************************************************************************)

\* The last element of a nonempty sequence, and the sequence without it.
LEMMA FrontLast ==
  ASSUME NEW S, NEW s \in Seq(S), s # << >>
  PROVE  /\ Len(s) \in Nat \ {0}
         /\ Last(s) \in S
         /\ Front(s) \in Seq(S)
         /\ Len(Front(s)) = Len(s) - 1
         /\ \A k \in 1 .. Len(s) - 1 : Front(s)[k] = s[k]
<1>1. Len(s) \in Nat \ {0} /\ Last(s) \in S
  BY DEF Last
<1>2. Front(s) \in Seq(S) /\ Len(Front(s)) = Len(s) - 1
  BY SMTT(30), <1>1 DEF Front
<1>3. \A k \in 1 .. Len(s) - 1 : Front(s)[k] = s[k]
  BY <1>1 DEF Front
<1> QED
  BY <1>1, <1>2, <1>3

\* A sequence with one more element is not empty, and ends in that element.
LEMMA AppendLast ==
  ASSUME NEW S, NEW s \in Seq(S), NEW e \in S
  PROVE  /\ Append(s, e) \in Seq(S)
         /\ Append(s, e) # << >>
         /\ Last(Append(s, e)) = e
<1>1. Append(s, e) \in Seq(S) /\ Len(Append(s, e)) = Len(s) + 1 /\ Len(s) \in Nat
  OBVIOUS
<1>2. Append(s, e)[Len(s) + 1] = e
  OBVIOUS
<1>3. Append(s, e) # << >>
  BY <1>1, EmptySeq
<1> QED
  BY <1>1, <1>2, <1>3 DEF Last

\* The innermost activation of visit_block is one.
LEMMA TopType ==
  ASSUME calls \in Seq(Calls), calls # << >>
  PROVE  /\ Len(calls) \in Nat \ {0}
         /\ Top \in Calls
  BY DEF Top

\* Replacing the innermost activation leaves the others alone.
LEMMA SetTopType ==
  ASSUME calls \in Seq(Calls), calls # << >>, NEW c \in Calls
  PROVE  /\ SetTop(c) \in Seq(Calls)
         /\ Len(SetTop(c)) = Len(calls)
         /\ SetTop(c) # << >>
         /\ SetTop(c)[Len(calls)] = c
         /\ \A k \in 1 .. Len(calls) - 1 : SetTop(c)[k] = calls[k]
  BY DEF SetTop

\* A call of visit_block begins as an activation.
LEMMA CallType ==
  ASSUME NEW b \in Block
  PROVE  /\ Call(b) \in Calls
         /\ Call(b).blk = b /\ Call(b).at = "loop" /\ Call(b).chain = << >> /\ Call(b).i = 1
  BY DEF Call, Calls

(***************************************************************************)
(* Types.  That the cursor stays inside the order is what makes the blocks *)
(* that blocks() yields blocks.                                            *)
(***************************************************************************)

CursorOK == phase = "reading" /\ kind = "revpost" => idx <= Len(order)

TypeInv == TypeOK /\ CursorOK

LEMMA TypeInit == Init => TypeInv
  BY WalkerAssumption DEF Init, TypeInv, TypeOK, CursorOK, Calls

LEMMA TypeStep == TypeInv /\ [Next]_vars => TypeInv'
<1> SUFFICES ASSUME TypeInv, [Next]_vars PROVE TypeInv'
  OBVIOUS
<1> USE DEF TypeInv
<1>1. CASE WalkFunction
  <2>1. << Call(Entry) >> \in Seq(Calls) /\ << Call(Entry) >> # << >>
    BY CallType, WalkerAssumption
  <2> QED
    BY <1>1, <2>1, WalkerAssumption DEF WalkFunction, TypeOK, CursorOK
<1>2. CASE WalkDeclaration
  BY <1>2 DEF WalkDeclaration, TypeOK, CursorOK
<1>3. CASE VisitNew
  <2>1. Top \in Calls /\ calls \in Seq(Calls) /\ calls # << >>
    BY <1>3, TopType DEF VisitNew, TypeOK
  <2>2. Top.blk \in Block /\ Top.chain \in Seq(Block) /\ succs[Top.blk] \in Seq(Block)
    BY <2>1 DEF Calls, TypeOK
  <2> DEFINE moved == [Top EXCEPT !.chain = Append(@, Top.blk)]
             n     == Len(succs[Top.blk])
             next  == CASE n = 0 -> [moved EXCEPT !.at = "post"]
                        [] n = 1 -> [moved EXCEPT !.blk = succs[Top.blk][1]]
                        [] OTHER -> [moved EXCEPT !.at = "branch"]
  <2>3. moved \in Calls
    <3>1. Append(Top.chain, Top.blk) \in Seq(Block)
      BY <2>2
    <3> QED
      BY <2>1, <3>1 DEF Calls
  <2>4. n = 1 => succs[Top.blk][1] \in Block
    BY <2>2
  <2>5. next \in Calls
    BY <2>3, <2>4 DEF Calls
  <2>6. calls' = SetTop(next)
    BY <1>3 DEF VisitNew
  <2>7. calls' \in Seq(Calls) /\ calls' # << >>
    BY <2>1, <2>5, <2>6, SetTopType
  <2>8. visited' \subseteq Block /\ order' \in Seq(Block)
    BY <1>3, <2>2 DEF VisitNew, TypeOK
  <2> QED
    BY <1>3, <2>7, <2>8 DEF VisitNew, TypeOK, CursorOK
<1>4. CASE VisitOld
  <2>1. Top \in Calls /\ calls \in Seq(Calls) /\ calls # << >>
    BY <1>4, TopType DEF VisitOld, TypeOK
  <2>2. [Top EXCEPT !.at = "post"] \in Calls
    BY <2>1 DEF Calls
  <2>3. calls' \in Seq(Calls) /\ calls' # << >>
    BY <1>4, <2>1, <2>2, SetTopType DEF VisitOld
  <2> QED
    BY <1>4, <2>3 DEF VisitOld, TypeOK, CursorOK
<1>5. CASE Branch
  <2>1. Top \in Calls /\ calls \in Seq(Calls) /\ calls # << >>
    BY <1>5, TopType DEF Branch, TypeOK
  <2>2. Top.blk \in Block /\ Top.i \in Nat \ {0} /\ succs[Top.blk] \in Seq(Block)
    BY <2>1 DEF Calls, TypeOK
  <2>3. /\ [Top EXCEPT !.at = "post"] \in Calls
        /\ [Top EXCEPT !.i = @ + 1] \in Calls
    <3>1. Top.i + 1 \in Nat \ {0}
      BY <2>2
    <3> QED
      BY <2>1, <3>1 DEF Calls
  <2>4. calls' \in Seq(Calls) /\ calls' # << >>
    <3>1. CASE Top.i > Len(succs[Top.blk])
      BY <1>5, <2>1, <2>3, <3>1, SetTopType DEF Branch
    <3>2. CASE ~(Top.i > Len(succs[Top.blk]))
      <4> DEFINE s    == succs[Top.blk][Top.i]
                 next == SetTop([Top EXCEPT !.i = @ + 1])
      <4>1. s \in Block
        BY <2>2, <3>2
      <4>2. Call(s) \in Calls
        BY <4>1, CallType
      <4>3. next \in Seq(Calls) /\ next # << >>
        BY <2>1, <2>3, SetTopType
      <4>4. calls' = IF s \in visited THEN next ELSE Append(next, Call(s))
        BY <1>5, <3>2 DEF Branch
      <4> HIDE DEF s, next
      <4> QED
        BY <4>2, <4>3, <4>4
    <3> QED
      BY <3>1, <3>2
  <2> QED
    BY <1>5, <2>4 DEF Branch, TypeOK, CursorOK
<1>6. CASE PostVisit
  <2>1. Top \in Calls /\ calls \in Seq(Calls) /\ calls # << >>
    BY <1>6, TopType DEF PostVisit, TypeOK
  <2>2. Top.chain \in Seq(Block) /\ Top.chain # << >>
    BY <1>6, <2>1 DEF PostVisit, Calls
  <2>3. Last(Top.chain) \in Block /\ Front(Top.chain) \in Seq(Block)
    BY <2>2, FrontLast
  <2>4. [Top EXCEPT !.chain = Front(@)] \in Calls
    BY <2>1, <2>3 DEF Calls
  <2>5. calls' \in Seq(Calls) /\ calls' # << >>
    BY <1>6, <2>1, <2>4, SetTopType DEF PostVisit
  <2>6. order' \in Seq(Block)
    BY <1>6, <2>3 DEF PostVisit, TypeOK
  <2> QED
    BY <1>6, <2>5, <2>6 DEF PostVisit, TypeOK, CursorOK
<1>7. CASE Return
  <2>1. calls \in Seq(Calls) /\ calls # << >> /\ Len(calls) \in Nat \ {0}
    BY <1>7, TopType DEF Return, TypeOK
  <2>2. calls' \in Seq(Calls) /\ Len(calls') = Len(calls) - 1
    BY <1>7, <2>1, FrontLast DEF Return
  <2>3. (calls' = << >>) <=> (Len(calls) = 1)
    <3>1. calls' # << >> => Len(calls') \in Nat \ {0}
      BY <2>2, EmptySeq
    <3>2. Len(<< >>) = 0
      BY EmptySeq
    <3> QED
      BY <2>1, <2>2, <3>1, <3>2
  <2>4. phase = "walking"
    BY <2>1 DEF TypeOK
  <2> QED
    BY <1>7, <2>2, <2>3, <2>4 DEF Return, TypeOK, CursorOK
<1>8. CASE Begin
  BY <1>8 DEF Begin, TypeOK, CursorOK
<1>9. CASE Read
  <2>1. idx \in Nat /\ order \in Seq(Block) /\ Len(order) \in Nat
    BY DEF TypeOK
  <2>2. CASE AtEnd
    BY <1>9, <2>2 DEF Read, TypeOK, CursorOK
  <2>3. CASE ~AtEnd
    <3> DEFINE k == IF kind = "revpost" THEN idx ELSE idx + 1
    <3>1. k \in 1 .. Len(order)
      BY <1>9, <2>1, <2>3 DEF Read, AtEnd, CursorOK
    <3>2. order[k] \in Block
      BY <2>1, <3>1
    <3>3. out' = Append(out, order[k])
      BY <1>9, <2>3 DEF Read
    <3>4. out' \in Seq(Block)
      BY <3>2, <3>3 DEF TypeOK
    <3>5. idx' \in Nat /\ (kind = "revpost" => idx' <= Len(order))
      BY <1>9, <2>1, <2>3 DEF Read, AtEnd, CursorOK
    <3> HIDE DEF k
    <3> QED
      BY <1>9, <2>3, <3>4, <3>5 DEF Read, TypeOK, CursorOK
  <2> QED
    BY <2>2, <2>3
<1>10. CASE UNCHANGED vars
  BY <1>10 DEF vars, TypeOK, CursorOK
<1> QED
  BY <1>1, <1>2, <1>3, <1>4, <1>5, <1>6, <1>7, <1>8, <1>9, <1>10 DEF Next, Visit

\* The walker's variables keep their types: what walk_function stores and what
\* the iterators of blocks() yield are blocks, whatever graph it is given.
THEOREM TypeCorrect == Spec => []TypeOK
<1>1. TypeInv => TypeOK
  BY DEF TypeInv
<1> QED
  BY TypeInit, TypeStep, <1>1, PTL DEF Spec

(***************************************************************************)
(* Soundness: whatever set is closed under successors and holds the entry  *)
(* also holds what is visited and what the calls in progress stand at.     *)
(***************************************************************************)

Follows(S) == visited \subseteq S /\ \A k \in 1 .. Len(calls) : calls[k].blk \in S

SoundInv == \A S \in SUBSET Block : Entry \in S /\ Closed(S) => Follows(S)

\* A change of the innermost activation that keeps it in S.
LEMMA SetTopStays ==
  ASSUME calls \in Seq(Calls), calls # << >>, NEW S, Follows(S),
         NEW c \in Calls, c.blk \in S
  PROVE  \A k \in 1 .. Len(SetTop(c)) : SetTop(c)[k].blk \in S
  BY SMTT(30), SetTopType DEF Follows

\* A successor of a block in a closed set is in it.
LEMMA SuccessorIn ==
  ASSUME TypeOK, NEW S \in SUBSET Block, Closed(S), NEW b \in S,
         NEW i \in 1 .. Len(succs[b])
  PROVE  succs[b][i] \in S
<1>1. i \in DOMAIN succs[b]
  BY DEF TypeOK
<1> QED
  BY <1>1 DEF Closed, Elems

LEMMA SoundInit == Init => SoundInv
  BY DEF Init, SoundInv, Follows

LEMMA SoundStep == TypeInv /\ SoundInv /\ [Next]_vars => SoundInv'
<1> SUFFICES ASSUME TypeOK, SoundInv, [Next]_vars,
                    NEW S \in SUBSET Block, Entry \in S, Closed(S)'
             PROVE  Follows(S)'
  BY DEF SoundInv, TypeInv
<1>1. CASE WalkFunction
  BY <1>1, CallType, WalkerAssumption DEF WalkFunction, Follows
<1>2. CASE ~WalkFunction
  <2>1. succs' = succs /\ Closed(S)
    BY <1>2 DEF Next, Visit, vars, Closed, WalkDeclaration, VisitNew, VisitOld, Branch,
                PostVisit, Return, Begin, Read
  <2>2. Follows(S)
    BY <2>1 DEF SoundInv
  <2>3. calls \in Seq(Calls)
    BY DEF TypeOK
  <2>4. calls # << >> => Top \in Calls /\ Top.blk \in S
    BY <2>2, <2>3, TopType DEF Top, Follows
  <2>5. CASE VisitNew
    <3>1. calls # << >> /\ Top \in Calls /\ Top.blk \in S
      BY <2>4, <2>5 DEF VisitNew
    <3>2. Top.chain \in Seq(Block) /\ succs[Top.blk] \in Seq(Block) /\ Top.blk \in Block
      BY <3>1 DEF Calls, TypeOK
    <3> DEFINE moved == [Top EXCEPT !.chain = Append(@, Top.blk)]
               n     == Len(succs[Top.blk])
               next  == CASE n = 0 -> [moved EXCEPT !.at = "post"]
                          [] n = 1 -> [moved EXCEPT !.blk = succs[Top.blk][1]]
                          [] OTHER -> [moved EXCEPT !.at = "branch"]
    <3>3. n = 1 => succs[Top.blk][1] \in S /\ succs[Top.blk][1] \in Block
      BY <2>1, <3>1, <3>2, SuccessorIn
    <3>4. moved \in Calls /\ moved.blk \in S
      <4>1. Append(Top.chain, Top.blk) \in Seq(Block)
        BY <3>2
      <4> QED
        BY <3>1, <4>1 DEF Calls
    <3>5. next \in Calls /\ next.blk \in S
      BY <3>3, <3>4 DEF Calls
    <3>6. calls' = SetTop(next)
      BY <2>5 DEF VisitNew
    <3> HIDE DEF next
    <3>7. \A k \in 1 .. Len(calls') : calls'[k].blk \in S
      BY <2>2, <2>3, <3>1, <3>5, <3>6, SetTopStays
    <3> QED
      BY <2>2, <2>5, <3>1, <3>7 DEF VisitNew, Follows
  <2>6. CASE VisitOld
    <3>1. /\ calls # << >>
          /\ [Top EXCEPT !.at = "post"] \in Calls
          /\ [Top EXCEPT !.at = "post"].blk \in S
      BY <2>4, <2>6 DEF VisitOld, Calls
    <3>2. \A k \in 1 .. Len(calls') : calls'[k].blk \in S
      BY <2>2, <2>3, <2>6, <3>1, SetTopStays DEF VisitOld
    <3> QED
      BY <2>2, <2>6, <3>2 DEF VisitOld, Follows
  <2>7. CASE Branch
    <3>1. calls # << >> /\ Top \in Calls /\ Top.blk \in S
      BY <2>4, <2>7 DEF Branch
    <3>2. Top.blk \in Block /\ Top.i \in Nat \ {0} /\ succs[Top.blk] \in Seq(Block)
      BY <3>1 DEF Calls, TypeOK
    <3>3. /\ [Top EXCEPT !.at = "post"] \in Calls
          /\ [Top EXCEPT !.at = "post"].blk \in S
      BY <3>1 DEF Calls
    <3>4. /\ [Top EXCEPT !.i = @ + 1] \in Calls
          /\ [Top EXCEPT !.i = @ + 1].blk \in S
      <4>1. Top.i + 1 \in Nat \ {0}
        BY <3>2
      <4> QED
        BY <3>1, <4>1 DEF Calls
    <3>5. \A k \in 1 .. Len(calls') : calls'[k].blk \in S
      <4>1. CASE Top.i > Len(succs[Top.blk])
        BY <2>2, <2>3, <2>7, <3>1, <3>3, <4>1, SetTopStays DEF Branch
      <4>2. CASE ~(Top.i > Len(succs[Top.blk]))
        <5> DEFINE s    == succs[Top.blk][Top.i]
                   next == SetTop([Top EXCEPT !.i = @ + 1])
        <5>1. s \in S /\ s \in Block
          BY <2>1, <3>1, <3>2, <4>2, SuccessorIn
        <5>2. Call(s) \in Calls /\ Call(s).blk \in S
          BY <5>1, CallType
        <5>3. next \in Seq(Calls) /\ \A k \in 1 .. Len(next) : next[k].blk \in S
          BY <2>2, <2>3, <3>1, <3>4, SetTopType, SetTopStays
        <5>4. calls' = IF s \in visited THEN next ELSE Append(next, Call(s))
          BY <2>7, <4>2 DEF Branch
        <5> HIDE DEF s, next
        <5> QED
          BY <5>2, <5>3, <5>4
      <4> QED
        BY <4>1, <4>2
    <3> QED
      BY <2>2, <2>7, <3>5 DEF Branch, Follows
  <2>8. CASE PostVisit
    <3>1. calls # << >> /\ Top \in Calls /\ Top.blk \in S /\ Top.chain # << >>
      BY <2>4, <2>8 DEF PostVisit
    <3>2. Front(Top.chain) \in Seq(Block)
      BY <3>1, FrontLast DEF Calls
    <3>3. /\ [Top EXCEPT !.chain = Front(@)] \in Calls
          /\ [Top EXCEPT !.chain = Front(@)].blk \in S
      BY <3>1, <3>2 DEF Calls
    <3>4. \A k \in 1 .. Len(calls') : calls'[k].blk \in S
      BY <2>2, <2>3, <2>8, <3>1, <3>3, SetTopStays DEF PostVisit
    <3> QED
      BY <2>2, <2>8, <3>4 DEF PostVisit, Follows
  <2>9. CASE Return
    <3>1. /\ Len(calls') = Len(calls) - 1 /\ Len(calls) \in Nat
          /\ \A k \in 1 .. Len(calls) - 1 : calls'[k] = calls[k]
      BY <2>3, <2>9, FrontLast DEF Return
    <3> QED
      BY <2>2, <2>9, <3>1 DEF Return, Follows
  <2>10. CASE UNCHANGED << calls, visited >>
    BY <2>2, <2>10 DEF Follows
  <2> QED
    BY <1>2, <2>5, <2>6, <2>7, <2>8, <2>9, <2>10
       DEF Next, Visit, vars, WalkDeclaration, Begin, Read
<1> QED
  BY <1>1, <1>2

\* A walk visits no block the entry does not reach, even when the walker has
\* walked other functions before.
THEOREM Soundness == Spec => []WalkSound
<1>1. TypeInv /\ SoundInv => WalkSound
  BY DEF SoundInv, WalkSound, Follows
<1> QED
  BY TypeInit, TypeStep, SoundInit, SoundStep, <1>1, PTL DEF Spec

(***************************************************************************)
(* Completeness.  While a walk goes on, a visited block some of whose      *)
(* successors are not visited yet has an activation that will see to them. *)
(***************************************************************************)

\* Activation k has been called for block b and has not looked at it yet.
JustCalled(k, b) ==
  /\ k \in 1 .. Len(calls)
  /\ calls[k].at = "loop" /\ calls[k].chain = << >> /\ calls[k].blk = b

\* Activation k has yet to follow successors of b: the only one, at which it
\* stands, or those of a branch from the i-th on.
SeesTo(k, b) ==
  \/ /\ calls[k].at = "loop"
     /\ calls[k].chain # << >> /\ b = Last(calls[k].chain)
     /\ Len(succs[b]) = 1 /\ succs[b][1] = calls[k].blk
  \/ /\ calls[k].at = "branch"
     /\ b = calls[k].blk
     /\ \A m \in 1 .. Len(succs[b]) :
          m < calls[k].i =>
            \/ succs[b][m] \in visited
            \/ m = calls[k].i - 1 /\ JustCalled(k + 1, succs[b][m])

Done(b) == \A m \in 1 .. Len(succs[b]) : succs[b][m] \in visited

Covered == \A b \in visited : Done(b) \/ \E k \in 1 .. Len(calls) : SeesTo(k, b)

LoopFirst == \A k \in 1 .. Len(calls) : calls[k].at = "loop" => calls[k].i = 1

EntryFirst ==
  IF visited # {} THEN Entry \in visited
  ELSE calls # << >> => Len(calls) = 1 /\ JustCalled(1, Entry)

CompleteInv == Covered /\ LoopFirst /\ EntryFirst

\* An activation below the innermost one goes on seeing to its block while
\* the innermost one works, returns or calls.
LEMMA LowerSeesTo ==
  ASSUME TypeOK, calls # << >>, succs' = succs, visited \subseteq visited',
         NEW k \in 1 .. Len(calls) - 1, NEW b \in Block, SeesTo(k, b),
         \A j \in 1 .. Len(calls) - 1 : j \in 1 .. Len(calls') /\ calls'[j] = calls[j],
         \A x \in Block : JustCalled(Len(calls), x) => x \in visited'
  PROVE  SeesTo(k, b)'
<1>1. Len(calls) \in Nat /\ succs[b] \in Seq(Block)
  BY DEF TypeOK
<1>2. calls'[k] = calls[k]
  OBVIOUS
<1>3. \A x \in Block : JustCalled(k + 1, x) => x \in visited' \/ JustCalled(k + 1, x)'
  <2> SUFFICES ASSUME NEW x \in Block, JustCalled(k + 1, x), x \notin visited'
               PROVE  JustCalled(k + 1, x)'
    OBVIOUS
  <2>1. k + 1 \in 1 .. Len(calls) - 1
    BY <1>1
  <2>2. k + 1 \in 1 .. Len(calls') /\ calls'[k + 1] = calls[k + 1]
    BY <2>1
  <2> QED
    BY <2>2 DEF JustCalled
<1>4. CASE calls[k].at = "loop"
  BY <1>2, <1>4 DEF SeesTo
<1>5. CASE calls[k].at = "branch"
  <2> SUFFICES ASSUME NEW m \in 1 .. Len(succs[b]), m < calls[k].i
               PROVE  \/ succs[b][m] \in visited'
                      \/ m = calls[k].i - 1 /\ JustCalled(k + 1, succs[b][m])'
    BY <1>2, <1>5 DEF SeesTo
  <2>1. succs[b][m] \in Block
    BY <1>1
  <2>2. \/ succs[b][m] \in visited
        \/ m = calls[k].i - 1 /\ JustCalled(k + 1, succs[b][m])
    BY <1>5 DEF SeesTo
  <2> QED
    BY <1>3, <2>1, <2>2
<1> QED
  BY <1>4, <1>5 DEF SeesTo

LEMMA CompleteInit == Init => CompleteInv
  BY EmptySeq DEF Init, CompleteInv, Covered, LoopFirst, EntryFirst

\* What one turn of the loop on a new block makes of the innermost activation.
LEMMA NewTop ==
  ASSUME TypeOK, VisitNew
  PROVE  \E next \in Calls :
           LET n == Len(succs[Top.blk])
           IN  /\ next.i = Top.i /\ next.chain = Append(Top.chain, Top.blk)
               /\ n = 0 => next.at = "post"
               /\ n = 1 => next.at = "loop" /\ next.blk = succs[Top.blk][1]
               /\ n > 1 => next.at = "branch" /\ next.blk = Top.blk
               /\ Len(calls') = Len(calls) /\ calls'[Len(calls)] = next
               /\ calls' \in Seq(Calls) /\ calls' # << >>
               /\ \A k \in 1 .. Len(calls) - 1 : calls'[k] = calls[k]
<1> DEFINE b0    == Top.blk
           moved == [Top EXCEPT !.chain = Append(@, Top.blk)]
           n     == Len(succs[Top.blk])
           next  == CASE n = 0 -> [moved EXCEPT !.at = "post"]
                      [] n = 1 -> [moved EXCEPT !.blk = succs[Top.blk][1]]
                      [] OTHER -> [moved EXCEPT !.at = "branch"]
<1>1. /\ calls \in Seq(Calls) /\ calls # << >> /\ Len(calls) \in Nat \ {0}
      /\ Top \in Calls /\ Top.at = "loop"
  BY TopType DEF VisitNew, TypeOK, Top
<1>2. /\ b0 \in Block /\ succs[b0] \in Seq(Block) /\ n \in Nat
      /\ Top.chain \in Seq(Block)
  BY <1>1 DEF Calls, TypeOK
<1>3. Append(Top.chain, b0) \in Seq(Block)
  BY <1>2, AppendLast
<1>4. moved \in Calls /\ moved.chain = Append(Top.chain, b0) /\ moved.blk = b0
      /\ moved.at = "loop" /\ moved.i = Top.i
  BY <1>1, <1>2, <1>3 DEF Calls
<1>5. /\ next \in Calls /\ next.i = Top.i /\ next.chain = Append(Top.chain, b0)
      /\ n = 0 => next.at = "post"
      /\ n = 1 => next.at = "loop" /\ next.blk = succs[b0][1]
      /\ n > 1 => next.at = "branch" /\ next.blk = b0
  <2>1. n = 1 => succs[b0][1] \in Block
    BY <1>2
  <2>2. /\ n = 0 => next = [moved EXCEPT !.at = "post"]
        /\ n = 1 => next = [moved EXCEPT !.blk = succs[b0][1]]
        /\ n > 1 => next = [moved EXCEPT !.at = "branch"]
    <3> HIDE DEF moved, n
    <3>1. n = 0 => next = [moved EXCEPT !.at = "post"]
      OBVIOUS
    <3>2. n = 1 => next = [moved EXCEPT !.blk = succs[b0][1]]
      OBVIOUS
    <3>3. n > 1 => next = [moved EXCEPT !.at = "branch"]
      BY <1>2
    <3> QED
      BY <3>1, <3>2, <3>3
  <2> HIDE DEF next, moved, n, b0
  <2>3. CASE n = 0
    BY <1>4, <2>2, <2>3 DEF Calls
  <2>4. CASE n = 1
    BY <1>4, <2>1, <2>2, <2>4 DEF Calls
  <2>5. CASE n > 1
    BY <1>2, <1>4, <2>2, <2>5 DEF Calls
  <2> QED
    BY <1>2, <2>3, <2>4, <2>5
<1>6. calls' = SetTop(next)
  BY DEF VisitNew
<1> HIDE DEF next, moved
<1>7. /\ Len(calls') = Len(calls) /\ calls'[Len(calls)] = next
      /\ calls' \in Seq(Calls) /\ calls' # << >>
      /\ \A k \in 1 .. Len(calls) - 1 : calls'[k] = calls[k]
  BY <1>1, <1>5, <1>6, SetTopType
<1> QED
  BY <1>5, <1>7

\* One turn of the loop on a new block: the block that waited for it is done,
\* and the new one is done, waits in the chain or branches.
LEMMA CompleteVisitNew == TypeInv /\ CompleteInv /\ VisitNew => CompleteInv'
<1> SUFFICES ASSUME TypeOK, Covered, LoopFirst, EntryFirst, VisitNew PROVE CompleteInv'
  BY DEF CompleteInv, TypeInv
<1> DEFINE b0 == Top.blk
           n  == Len(succs[Top.blk])
<1>1. /\ calls \in Seq(Calls) /\ calls # << >> /\ Len(calls) \in Nat \ {0}
      /\ Top \in Calls /\ Top.at = "loop" /\ Top.blk \notin visited
      /\ Top = calls[Len(calls)]
  BY TopType DEF VisitNew, TypeOK, Top
<1>2. /\ b0 \in Block /\ succs[b0] \in Seq(Block) /\ n \in Nat
      /\ Top.chain \in Seq(Block) /\ Top.i = 1
  BY <1>1 DEF Calls, TypeOK, LoopFirst
<1>3. Append(Top.chain, b0) \in Seq(Block) /\ Append(Top.chain, b0) # << >>
      /\ Last(Append(Top.chain, b0)) = b0
  BY <1>2, AppendLast
<1>4. PICK next \in Calls :
        /\ next.i = Top.i /\ next.chain = Append(Top.chain, b0)
        /\ n = 0 => next.at = "post"
        /\ n = 1 => next.at = "loop" /\ next.blk = succs[b0][1]
        /\ n > 1 => next.at = "branch" /\ next.blk = b0
        /\ Len(calls') = Len(calls) /\ calls'[Len(calls)] = next
        /\ calls' \in Seq(Calls) /\ calls' # << >>
        /\ \A k \in 1 .. Len(calls) - 1 : calls'[k] = calls[k]
  BY NewTop
<1>5. /\ next.i = 1 /\ next.chain = Append(Top.chain, b0)
      /\ n = 0 => next.at = "post"
      /\ n = 1 => next.at = "loop" /\ next.blk = succs[b0][1]
      /\ n > 1 => next.at = "branch" /\ next.blk = b0
  BY <1>2, <1>4
<1>7. visited' = visited \cup {b0} /\ succs' = succs
  BY DEF VisitNew
<1>8. /\ Len(calls') = Len(calls) /\ calls'[Len(calls)] = next
      /\ calls' \in Seq(Calls) /\ calls' # << >>
      /\ \A k \in 1 .. Len(calls) - 1 : calls'[k] = calls[k]
  BY <1>4
<1> HIDE DEF n, b0
<1>9. Covered'
  <2> SUFFICES ASSUME NEW b \in visited', ~Done(b)'
               PROVE  \E k \in 1 .. Len(calls') : SeesTo(k, b)'
    BY DEF Covered
  <2>1. b \in Block /\ succs[b] \in Seq(Block)
    BY <1>2, <1>7 DEF TypeOK
  <2>2. CASE b = b0
    <3>1. n # 0
      BY <1>7, <2>2 DEF Done, n, b0
    <3>2. CASE n = 1
      <4>1. SeesTo(Len(calls), b)'
        BY <1>3, <1>5, <1>7, <1>8, <2>2, <3>2 DEF SeesTo, n, b0
      <4> QED
        BY <1>1, <1>8, <4>1
    <3>3. CASE n > 1
      <4>1. SeesTo(Len(calls), b)'
        BY <1>5, <1>7, <1>8, <2>2, <3>3 DEF SeesTo
      <4> QED
        BY <1>1, <1>8, <4>1
    <3> QED
      BY <1>2, <3>1, <3>2, <3>3
  <2>3. CASE b # b0
    <3>1. b \in visited /\ ~Done(b)
      BY <1>7, <2>3 DEF Done
    <3>2. PICK k \in 1 .. Len(calls) : SeesTo(k, b)
      BY <3>1 DEF Covered
    <3>3. k # Len(calls)
      <4> SUFFICES ASSUME k = Len(calls) PROVE FALSE
        OBVIOUS
      <4>1. Len(succs[b]) = 1 /\ succs[b][1] = b0
        BY <1>1, <3>2 DEF SeesTo, b0
      <4> QED
        BY <1>7, <4>1 DEF Done
    <3>4. \A x \in Block : JustCalled(Len(calls), x) => x \in visited'
      BY <1>1, <1>7 DEF JustCalled, b0
    <3>5. k \in 1 .. Len(calls) - 1
      BY <1>1, <3>3
    <3>6. SeesTo(k, b)'
      BY <1>1, <1>7, <1>8, <2>1, <3>2, <3>4, <3>5, LowerSeesTo
    <3> QED
      BY <1>8, <3>6
  <2> QED
    BY <2>2, <2>3
<1>10. LoopFirst'
  BY <1>1, <1>5, <1>8 DEF LoopFirst
<1>11. EntryFirst'
  BY <1>1, <1>7 DEF EntryFirst, JustCalled, b0
<1> QED
  BY <1>9, <1>10, <1>11 DEF CompleteInv

\* The other steps of a walk that only change the innermost activation, into
\* one that does not look at a new block, and leave every block seen to.
LEMMA CompleteSetTop ==
  ASSUME TypeOK, CompleteInv, calls # << >>, succs' = succs, visited' = visited,
         NEW c \in Calls, calls' = SetTop(c), c.at = "loop" => c.i = 1,
         \A x \in Block : JustCalled(Len(calls), x) => x \in visited,
         \A b \in visited : SeesTo(Len(calls), b) => Done(b) \/ SeesTo(Len(calls), b)',
         visited # {}
  PROVE  CompleteInv'
<1>1. calls \in Seq(Calls) /\ Len(calls) \in Nat \ {0}
  BY TopType DEF TypeOK
<1>2. /\ Len(calls') = Len(calls) /\ calls'[Len(calls)] = c
      /\ \A k \in 1 .. Len(calls) - 1 : calls'[k] = calls[k]
  BY <1>1, SetTopType
<1>3. Covered'
  <2> SUFFICES ASSUME NEW b \in visited, ~Done(b)
               PROVE  \E k \in 1 .. Len(calls') : SeesTo(k, b)'
    BY DEF Covered, Done
  <2>1. PICK k \in 1 .. Len(calls) : SeesTo(k, b)
    BY DEF CompleteInv, Covered
  <2>2. b \in Block
    BY DEF TypeOK
  <2>3. CASE k = Len(calls)
    BY <1>2, <2>1, <2>3
  <2>4. CASE k # Len(calls)
    <3>1. k \in 1 .. Len(calls) - 1
      BY <1>1, <2>4
    <3>2. SeesTo(k, b)'
      BY <1>1, <1>2, <2>1, <2>2, <3>1, LowerSeesTo
    <3> QED
      BY <1>2, <3>2
  <2> QED
    BY <2>3, <2>4
<1>4. LoopFirst'
  BY <1>1, <1>2 DEF CompleteInv, LoopFirst
<1>5. EntryFirst'
  BY DEF CompleteInv, EntryFirst
<1> QED
  BY <1>3, <1>4, <1>5 DEF CompleteInv

\* The chain runs into a visited block: the last block of it is done.
LEMMA CompleteVisitOld == TypeInv /\ CompleteInv /\ VisitOld => CompleteInv'
<1> SUFFICES ASSUME TypeOK, CompleteInv, VisitOld PROVE CompleteInv'
  BY DEF TypeInv
<1>1. /\ calls # << >> /\ Top \in Calls /\ Top = calls[Len(calls)]
      /\ Top.at = "loop" /\ Top.blk \in visited
  BY TopType DEF VisitOld, TypeOK, Top
<1> DEFINE c == [Top EXCEPT !.at = "post"]
<1>2. c \in Calls /\ calls' = SetTop(c) /\ c.at = "post"
  BY <1>1 DEF VisitOld, Calls
<1>3. \A x \in Block : JustCalled(Len(calls), x) => x \in visited
  BY <1>1 DEF JustCalled
<1>4. \A b \in visited : SeesTo(Len(calls), b) => Done(b)
  BY <1>1 DEF SeesTo, Done
<1> HIDE DEF c
<1> QED
  BY <1>1, <1>2, <1>3, <1>4, CompleteSetTop DEF VisitOld

\* The chain shrinks when its blocks have no more successors to look at.
LEMMA CompletePostVisit == TypeInv /\ CompleteInv /\ PostVisit => CompleteInv'
<1> SUFFICES ASSUME TypeOK, CompleteInv, PostVisit PROVE CompleteInv'
  BY DEF TypeInv
<1>1. /\ calls # << >> /\ Top \in Calls /\ Top = calls[Len(calls)] /\ Top.at = "post"
      /\ Top.chain # << >> /\ Len(calls) \in Nat \ {0}
  BY TopType DEF PostVisit, TypeOK, Top
<1> DEFINE c == [Top EXCEPT !.chain = Front(@)]
<1>2. c \in Calls /\ calls' = SetTop(c) /\ c.at = "post"
  <2>1. Front(Top.chain) \in Seq(Block)
    BY <1>1, FrontLast DEF Calls
  <2> QED
    BY <1>1, <2>1 DEF PostVisit, Calls
<1>3. \A x \in Block : ~JustCalled(Len(calls), x)
  BY <1>1 DEF JustCalled
<1>4. \A b \in visited : ~SeesTo(Len(calls), b)
  BY <1>1 DEF SeesTo
<1>5. visited # {}
  BY <1>1 DEF CompleteInv, EntryFirst, JustCalled
<1> HIDE DEF c
<1> QED
  BY <1>1, <1>2, <1>3, <1>4, <1>5, CompleteSetTop DEF PostVisit

\* Returning from a call: what it was called for is visited by then.
LEMMA CompleteReturn == TypeInv /\ CompleteInv /\ Return => CompleteInv'
<1> SUFFICES ASSUME TypeOK, CompleteInv, Return PROVE CompleteInv'
  BY DEF TypeInv
<1>1. /\ calls # << >> /\ Top = calls[Len(calls)] /\ Top.at = "post"
      /\ Len(calls) \in Nat \ {0} /\ calls \in Seq(Calls)
  BY TopType DEF Return, TypeOK, Top
<1>2. /\ Len(calls') = Len(calls) - 1
      /\ \A k \in 1 .. Len(calls) - 1 : calls'[k] = calls[k]
  BY <1>1, FrontLast DEF Return
<1>3. succs' = succs /\ visited' = visited
  BY DEF Return
<1>4. \A x \in Block : ~JustCalled(Len(calls), x)
  BY <1>1 DEF JustCalled
<1>5. Covered'
  <2> SUFFICES ASSUME NEW b \in visited, ~Done(b)
               PROVE  \E k \in 1 .. Len(calls') : SeesTo(k, b)'
    BY <1>3 DEF Covered, Done
  <2>1. PICK k \in 1 .. Len(calls) : SeesTo(k, b)
    BY DEF CompleteInv, Covered
  <2>2. k # Len(calls)
    BY <1>1, <2>1 DEF SeesTo
  <2>3. k \in 1 .. Len(calls) - 1 /\ b \in Block
    BY <1>1, <2>2 DEF TypeOK
  <2>4. SeesTo(k, b)'
    BY <1>1, <1>2, <1>3, <1>4, <2>1, <2>3, LowerSeesTo
  <2> QED
    BY <1>2, <2>3, <2>4
<1>6. LoopFirst'
  BY <1>1, <1>2 DEF CompleteInv, LoopFirst
<1>7. visited # {}
  BY <1>1 DEF CompleteInv, EntryFirst, JustCalled
<1>8. EntryFirst'
  BY <1>3, <1>7 DEF CompleteInv, EntryFirst
<1> QED
  BY <1>5, <1>6, <1>8 DEF CompleteInv

\* A branch goes on to its next successor, calls for it, or has none left.
LEMMA CompleteBranch == TypeInv /\ CompleteInv /\ Branch => CompleteInv'
<1> SUFFICES ASSUME TypeOK, CompleteInv, Branch PROVE CompleteInv'
  BY DEF TypeInv
<1>1. /\ calls # << >> /\ Top \in Calls /\ Top = calls[Len(calls)] /\ Top.at = "branch"
      /\ Len(calls) \in Nat \ {0} /\ calls \in Seq(Calls)
  BY TopType DEF Branch, TypeOK, Top
<1>2. succs' = succs /\ visited' = visited
  BY DEF Branch
<1>3. Top.blk \in Block /\ Top.i \in Nat \ {0} /\ succs[Top.blk] \in Seq(Block)
  BY <1>1 DEF Calls, TypeOK
<1>4. \A x \in Block : ~JustCalled(Len(calls), x) /\ ~JustCalled(Len(calls) + 1, x)
  BY <1>1 DEF JustCalled
<1>5. visited # {}
  BY <1>1 DEF CompleteInv, EntryFirst, JustCalled
<1>6. \A b \in visited : SeesTo(Len(calls), b) =>
        /\ b = Top.blk
        /\ \A m \in 1 .. Len(succs[b]) : m < Top.i => succs[b][m] \in visited
  BY <1>1, <1>3, <1>4 DEF SeesTo
<1>7. CASE Top.i > Len(succs[Top.blk])
  <2> DEFINE c == [Top EXCEPT !.at = "post"]
  <2>1. c \in Calls /\ calls' = SetTop(c) /\ c.at = "post"
    BY <1>1, <1>7 DEF Branch, Calls
  <2>2. \A b \in visited : SeesTo(Len(calls), b) => Done(b)
    BY <1>3, <1>6, <1>7 DEF Done
  <2> HIDE DEF c
  <2> QED
    BY <1>1, <1>2, <1>4, <1>5, <2>1, <2>2, CompleteSetTop
<1>8. CASE ~(Top.i > Len(succs[Top.blk]))
  <2> DEFINE s == succs[Top.blk][Top.i]
             c == [Top EXCEPT !.i = @ + 1]
  <2>1. s \in Block
    BY <1>3, <1>8
  <2>2. c \in Calls /\ c.at = "branch" /\ c.blk = Top.blk /\ c.i = Top.i + 1
    <3>1. Top.i + 1 \in Nat \ {0}
      BY <1>3
    <3> QED
      BY <1>1, <3>1 DEF Calls
  <2>3. calls' = IF s \in visited THEN SetTop(c) ELSE Append(SetTop(c), Call(s))
    BY <1>8 DEF Branch
  <2>4. /\ SetTop(c) \in Seq(Calls) /\ Len(SetTop(c)) = Len(calls)
        /\ SetTop(c)[Len(calls)] = c
        /\ \A k \in 1 .. Len(calls) - 1 : SetTop(c)[k] = calls[k]
    BY <1>1, <2>2, SetTopType
  <2>5. Top.blk \in Block /\ \A m \in 1 .. Len(succs[Top.blk]) :
          m < c.i => m < Top.i \/ (m = c.i - 1 /\ succs[Top.blk][m] = s)
    BY <1>3, <2>2
  <2>6. CASE s \in visited
    <3>1. calls' = SetTop(c)
      BY <2>3, <2>6
    <3>2. \A b \in visited : SeesTo(Len(calls), b) => SeesTo(Len(calls), b)'
      <4> SUFFICES ASSUME NEW b \in visited, SeesTo(Len(calls), b)
                   PROVE  SeesTo(Len(calls), b)'
        OBVIOUS
      <4> HIDE DEF s, c
      <4> QED
        BY <1>2, <1>6, <2>2, <2>4, <2>5, <2>6, <3>1 DEF SeesTo
    <3> HIDE DEF c
    <3> QED
      BY <1>1, <1>2, <1>4, <1>5, <2>2, <3>1, <3>2, CompleteSetTop
  <2>7. CASE s \notin visited
    <3> HIDE DEF s, c
    <3>1. Call(s) \in Calls /\ Call(s).at = "loop" /\ Call(s).chain = << >>
          /\ Call(s).blk = s /\ Call(s).i = 1
      BY <2>1, CallType
    <3>2. /\ Len(calls') = Len(calls) + 1
          /\ calls'[Len(calls) + 1] = Call(s)
          /\ calls'[Len(calls)] = c
          /\ \A k \in 1 .. Len(calls) - 1 : calls'[k] = calls[k]
      BY <1>1, <2>3, <2>4, <2>7, <3>1
    <3> PICK N \in Nat, t \in Block : N = Len(calls) /\ t = s
      BY <1>1, <2>1
    <3>3. JustCalled(N + 1, t)'
      BY <1>1, <3>1, <3>2 DEF JustCalled
    <3>4. Covered'
      <4> SUFFICES ASSUME NEW b \in visited, ~Done(b)
                   PROVE  \E k \in 1 .. Len(calls') : SeesTo(k, b)'
        BY <1>2 DEF Covered, Done
      <4>1. PICK k \in 1 .. Len(calls) : SeesTo(k, b)
        BY DEF CompleteInv, Covered
      <4>2. CASE k = Len(calls)
        <5>1. b = Top.blk /\ \A m \in 1 .. Len(succs[b]) : m < Top.i => succs[b][m] \in visited
          BY <1>6, <4>1, <4>2
        <5>2. SeesTo(N, b)'
          BY <1>2, <2>2, <2>5, <3>2, <3>3, <5>1 DEF SeesTo
        <5> QED
          BY <1>1, <3>2, <5>2
      <4>3. CASE k # Len(calls)
        <5>1. k \in 1 .. Len(calls) - 1 /\ b \in Block
          BY <1>1, <4>3 DEF TypeOK
        <5>2. \A j \in 1 .. Len(calls) - 1 : j \in 1 .. Len(calls') /\ calls'[j] = calls[j]
          BY <1>1, <3>2
        <5>3. SeesTo(k, b)'
          BY <1>1, <1>2, <1>4, <4>1, <5>1, <5>2, LowerSeesTo
        <5> QED
          BY <5>1, <5>2, <5>3
      <4> QED
        BY <4>2, <4>3
    <3>5. LoopFirst'
      BY <1>1, <2>2, <3>1, <3>2 DEF CompleteInv, LoopFirst
    <3>6. EntryFirst'
      BY <1>2, <1>5 DEF CompleteInv, EntryFirst
    <3> QED
      BY <3>4, <3>5, <3>6 DEF CompleteInv
  <2> QED
    BY <2>6, <2>7
<1> QED
  BY <1>7, <1>8

LEMMA CompleteStep == TypeInv /\ CompleteInv /\ [Next]_vars => CompleteInv'
<1> SUFFICES ASSUME TypeInv, CompleteInv, [Next]_vars PROVE CompleteInv'
  OBVIOUS
<1>1. CASE WalkFunction
  <2>1. /\ calls' = << Call(Entry) >> /\ visited' = {}
        /\ Call(Entry).at = "loop" /\ Call(Entry).chain = << >> /\ Call(Entry).i = 1
        /\ Call(Entry).blk = Entry
    BY <1>1, CallType, WalkerAssumption DEF WalkFunction
  <2> QED
    BY <2>1 DEF CompleteInv, Covered, LoopFirst, EntryFirst, JustCalled
<1>2. CASE Visit
  BY <1>2, CompleteVisitNew, CompleteVisitOld, CompleteBranch, CompletePostVisit,
     CompleteReturn DEF Visit
<1>3. CASE UNCHANGED << succs, visited, calls >>
  BY <1>3 DEF CompleteInv, Covered, Done, SeesTo, JustCalled, LoopFirst, EntryFirst
<1> QED
  BY <1>1, <1>2, <1>3 DEF Next, vars, WalkDeclaration, Begin, Read

\* A finished walk has visited the entry and every block it leads to, for
\* graphs of any size and shape: no chain or branch is cut short.
THEOREM Completeness == Spec => []WalkComplete
<1>1. TypeInv /\ CompleteInv => WalkComplete
  <2> SUFFICES ASSUME TypeOK, CompleteInv, visited # {}, phase # "walking"
               PROVE  Entry \in visited /\ Closed(visited)
    BY DEF TypeInv, WalkComplete, Reached
  <2>1. calls = << >>
    BY DEF TypeOK
  <2>2. \A b \in visited : Done(b)
    BY <2>1, EmptySeq DEF CompleteInv, Covered
  <2>3. \A b \in visited : DOMAIN succs[b] = 1 .. Len(succs[b])
    BY DEF TypeOK
  <2> QED
    BY <2>2, <2>3 DEF Closed, Elems, Done, CompleteInv, EntryFirst
<1> QED
  BY TypeInit, TypeStep, CompleteInit, CompleteStep, <1>1, PTL DEF Spec

\* A walk visits exactly the blocks that the entry reaches (walker.cpp:4-60).
THEOREM Exactness == Spec => []WalkExact
  BY TypeCorrect, Soundness, Completeness, PTL DEF WalkExact
(***************************************************************************)
(* The iterators: how far one has come, and what it has yielded.           *)
(***************************************************************************)

\* The block that is yielded i-th.
Yields(i) == order[IF kind = "revpost" THEN Len(order) + 1 - i ELSE i]

ReadInv ==
  /\ \A i \in 1 .. Len(out) : i <= Len(order) /\ out[i] = Yields(i)
  /\ phase = "walking" => out = << >>
  /\ phase = "reading" => idx = IF kind = "revpost" THEN Len(order) - Len(out) ELSE Len(out)
  /\ phase = "idle" => out = << >> \/ Len(out) = Len(order)

LEMMA ReadInit == Init => ReadInv
  BY DEF Init, ReadInv

LEMMA ReadStep == TypeInv /\ ReadInv /\ [Next]_vars => ReadInv'
<1> SUFFICES ASSUME TypeInv, ReadInv, [Next]_vars PROVE ReadInv'
  OBVIOUS
<1>1. /\ order \in Seq(Block) /\ Len(order) \in Nat /\ out \in Seq(Block) /\ Len(out) \in Nat
      /\ idx \in Nat
  BY DEF TypeInv, TypeOK
<1>2. CASE WalkFunction
  BY <1>2 DEF WalkFunction, ReadInv
<1>3. CASE WalkDeclaration
  BY <1>3 DEF WalkDeclaration, ReadInv, Yields
<1>4. CASE Visit
  <2>1. calls # << >> /\ out' = out /\ kind' = kind /\ phase' \in {phase, "idle"}
    BY <1>4 DEF Visit, VisitNew, VisitOld, Branch, PostVisit, Return
  <2>2. phase = "walking" /\ out = << >>
    BY <2>1 DEF TypeInv, TypeOK, ReadInv
  <2> QED
    BY <2>1, <2>2 DEF ReadInv
<1>5. CASE Begin
  BY <1>1, <1>5 DEF Begin, ReadInv, Yields
<1>6. CASE Read
  <2>1. kind' = kind /\ order' = order /\ phase = "reading"
    BY <1>6 DEF Read
  <2>2. CASE AtEnd
    <3>1. phase' = "idle" /\ out' = out
      BY <1>6, <2>2 DEF Read
    <3>2. Len(out) = Len(order)
      <4>1. CASE out = << >>
        BY <1>1, <2>1, <2>2, <4>1 DEF AtEnd, ReadInv, TypeInv, CursorOK
      <4>2. CASE out # << >>
        <5>1. Len(out) \in 1 .. Len(out)
          BY <1>1, <4>2
        <5>2. Len(out) <= Len(order)
          BY <5>1 DEF ReadInv
        <5> QED
          BY <1>1, <2>1, <2>2, <5>2 DEF AtEnd, ReadInv
      <4> QED
        BY <4>1, <4>2
    <3> QED
      BY <2>1, <3>1, <3>2 DEF ReadInv, Yields
  <2>3. CASE ~AtEnd
    <3> DEFINE k == IF kind = "revpost" THEN idx ELSE idx + 1
    <3>1. /\ phase' = phase /\ out' = Append(out, order[k])
          /\ idx' = IF kind = "revpost" THEN idx - 1 ELSE idx + 1
      BY <1>6, <2>3 DEF Read
    <3>2. Len(out) < Len(order)
      BY <1>1, <2>1, <2>3 DEF AtEnd, ReadInv
    <3>3. order[k] = Yields(Len(out) + 1) /\ order[k] \in Block
      <4>1. k = IF kind = "revpost" THEN Len(order) + 1 - (Len(out) + 1) ELSE Len(out) + 1
        BY <1>1, <2>1 DEF ReadInv
      <4>2. k \in 1 .. Len(order)
        BY <1>1, <3>2, <4>1
      <4> QED
        BY <1>1, <4>1, <4>2 DEF Yields
    <3>4. \A i \in 1 .. Len(out') : i <= Len(order) /\ out'[i] = Yields(i)
      <4> TAKE i \in 1 .. Len(out')
      <4>1. Len(out') = Len(out) + 1
        BY <1>1, <3>1, <3>3
      <4>2. CASE i = Len(out) + 1
        BY <1>1, <3>1, <3>2, <3>3, <4>2
      <4>3. CASE i # Len(out) + 1
        <5>1. i \in 1 .. Len(out)
          BY <1>1, <4>1, <4>3
        <5>2. out'[i] = out[i]
          BY <1>1, <3>1, <3>3, <5>1
        <5> QED
          BY <5>1, <5>2 DEF ReadInv
      <4> QED
        BY <4>2, <4>3
    <3>5. idx' = IF kind = "revpost" THEN Len(order) - Len(out') ELSE Len(out')
      BY <1>1, <2>1, <3>1, <3>3 DEF ReadInv
    <3>6. \A i : Yields(i)' = Yields(i)
      BY <2>1 DEF Yields
    <3> HIDE DEF k
    <3> QED
      BY <2>1, <3>1, <3>4, <3>5, <3>6 DEF ReadInv
  <2> QED
    BY <2>2, <2>3
<1>7. CASE UNCHANGED vars
  BY <1>7 DEF vars, ReadInv, Yields
<1> QED
  BY <1>2, <1>3, <1>4, <1>5, <1>6, <1>7 DEF Next

\* However often functions are walked, declarations come between and orders are
\* read, what an iterator has yielded at its end is the order of the last walk,
\* the reverse postorder iterator the reverse of it (walker.hpp, VecCFGWalkerBlocksInner).
THEOREM IteratorYields == Spec => []IteratorYieldsOrder
<1>1. TypeInv /\ ReadInv => IteratorYieldsOrder
  <2> SUFFICES ASSUME TypeInv, ReadInv, phase = "idle", out # << >>
               PROVE  Len(out) = Len(order) /\ \A i \in DOMAIN out : out[i] = Yields(i)
    BY DEF IteratorYieldsOrder, Yields
  <2>1. DOMAIN out = 1 .. Len(out)
    BY DEF TypeInv, TypeOK
  <2> QED
    BY <2>1 DEF ReadInv
<1> QED
  BY TypeInit, TypeStep, ReadInit, ReadStep, <1>1, PTL DEF Spec

(***************************************************************************)
(* The postorder.  The blocks in the chains of the calls in progress are   *)
(* a path: each leads to those behind it and to where the innermost call   *)
(* stands.  A visited block is delivered or still in one chain.            *)
(***************************************************************************)

\* Where S is closed and holds a block of a chain, it holds what is behind it.
LeadsOn(k, m, S) ==
  \A i \in 1 .. Len(calls[k].chain) :
    k <= m /\ calls[k].chain[i] \in S =>
      /\ \A j \in 1 .. Len(calls[m].chain) : k < m \/ i <= j => calls[m].chain[j] \in S
      /\ calls[m].at # "post" => calls[m].blk \in S

Leads(S) == \A k, m \in 1 .. Len(calls) : LeadsOn(k, m, S)

LeadInv == \A S \in SUBSET Block : Closed(S) => Leads(S)

\* The blocks of a chain have been followed, the last of it when it is given up.
Followed(k) ==
  \A i \in 1 .. Len(calls[k].chain) :
    i < Len(calls[k].chain) \/ calls[k].at = "post" => Done(calls[k].chain[i])

\* The last block of a chain that goes on is the one being seen to.
Stands(k) ==
  /\ calls[k].at = "branch" =>
       calls[k].chain # << >> /\ calls[k].blk = Last(calls[k].chain)
  /\ calls[k].at # "post" /\ calls[k].chain # << >> => SeesTo(k, Last(calls[k].chain))

LaidOutInv == \A k \in 1 .. Len(calls) : Followed(k) /\ Stands(k)

\* A block is in one chain, and once.
Apart(k, m) ==
  \A i \in 1 .. Len(calls[k].chain) : \A j \in 1 .. Len(calls[m].chain) :
    calls[k].chain[i] = calls[m].chain[j] => k = m /\ i = j

OnceInv ==
  /\ \A k \in 1 .. Len(calls) : \A i \in 1 .. Len(calls[k].chain) : calls[k].chain[i] \in visited
  /\ \A k, m \in 1 .. Len(calls) : Apart(k, m)

InChain(x) == \E k \in 1 .. Len(calls) : \E i \in 1 .. Len(calls[k].chain) : calls[k].chain[i] = x

DeliveredInv ==
  kind # "pre" =>
    /\ \A x \in visited : x \in Elems(order) \/ InChain(x)
    /\ \A x \in Elems(order) : x \in visited /\ ~InChain(x)

PathInv == LeadInv /\ LaidOutInv /\ OnceInv /\ DeliveredInv

LEMMA ChainOf ==
  ASSUME TypeOK
  PROVE  /\ Len(calls) \in Nat
         /\ \A k \in 1 .. Len(calls) :
              /\ calls[k] \in Calls /\ calls[k].chain \in Seq(Block) /\ calls[k].blk \in Block
              /\ Len(calls[k].chain) \in Nat
              /\ \A i \in 1 .. Len(calls[k].chain) : calls[k].chain[i] \in Block
<1>1. calls \in Seq(Calls) /\ Len(calls) \in Nat
  BY DEF TypeOK
<1>2. \A k \in 1 .. Len(calls) : calls[k] \in Calls
  BY <1>1
<1>3. \A k \in 1 .. Len(calls) : calls[k].chain \in Seq(Block) /\ calls[k].blk \in Block
  BY <1>2 DEF Calls
<1> QED
  BY <1>1, <1>2, <1>3, LenProperties, ElementOfSeq

\* The changes of the innermost activation that leave its chain alone, or take
\* the last block off it.
Shortened(c) ==
  /\ Len(calls') = Len(calls) /\ calls'[Len(calls)] = c
  /\ \A k \in 1 .. Len(calls) - 1 : calls'[k] = calls[k]
  /\ c.blk = Top.blk /\ c.chain \in Seq(Block)
  /\ Len(c.chain) <= Len(Top.chain)
  /\ \A i \in 1 .. Len(c.chain) : c.chain[i] = Top.chain[i]
  /\ c.at \in {"branch", "post"}
  /\ c.at = "branch" => Top.at = "branch"
  /\ succs' = succs /\ visited' = visited /\ kind' = kind

LEMMA SetTopShortens ==
  ASSUME TypeOK, calls # << >>, NEW c \in Calls, calls' = SetTop(c), c.blk = Top.blk,
         Len(c.chain) <= Len(Top.chain), c.at \in {"branch", "post"},
         \A i \in 1 .. Len(c.chain) : c.chain[i] = Top.chain[i],
         c.at = "branch" => Top.at = "branch",
         succs' = succs, visited' = visited, kind' = kind
  PROVE  Shortened(c)
<1>1. /\ Len(calls') = Len(calls) /\ calls'[Len(calls)] = c
      /\ \A k \in 1 .. Len(calls) - 1 : calls'[k] = calls[k]
  BY SetTopType DEF TypeOK
<1>2. c.chain \in Seq(Block)
  BY DEF Calls
<1> QED
  BY <1>1, <1>2 DEF Shortened

LEMMA ShortenedKeeps ==
  ASSUME TypeOK, calls # << >>, LeadInv, OnceInv, NEW c, Shortened(c)
  PROVE  LeadInv' /\ OnceInv'
<1> DEFINE n == Len(calls)
<1>1. /\ n \in Nat \ {0} /\ Top = calls[n] /\ calls[n].chain \in Seq(Block)
      /\ Len(calls[n].chain) \in Nat /\ Len(c.chain) \in Nat
  BY ChainOf, TopType DEF TypeOK, Top, Shortened
<1>3. ASSUME NEW k \in 1 .. n
      PROVE  /\ Len(calls'[k].chain) \in Nat
             /\ \A i \in 1 .. Len(calls'[k].chain) :
                  i \in 1 .. Len(calls[k].chain) /\ calls'[k].chain[i] = calls[k].chain[i]
             /\ calls'[k].at # "post" => calls[k].at # "post" /\ calls'[k].blk = calls[k].blk
  <2>1. CASE k = n
    <3>1. calls'[k] = c
      BY <2>1 DEF Shortened
    <3>2. \A i \in 1 .. Len(c.chain) : i \in 1 .. Len(calls[n].chain) /\ c.chain[i] = calls[n].chain[i]
      BY <1>1 DEF Shortened
    <3>3. c.at # "post" => calls[n].at # "post" /\ c.blk = calls[n].blk
      BY <1>1 DEF Shortened
    <3> QED
      BY <1>1, <2>1, <3>1, <3>2, <3>3
  <2>2. CASE k # n
    <3>1. calls'[k] = calls[k] /\ Len(calls[k].chain) \in Nat
      BY <1>1, <2>2, ChainOf DEF Shortened
    <3> QED
      BY <3>1
  <2> QED
    BY <2>1, <2>2
<1>4. n = Len(calls') /\ visited' = visited /\ succs' = succs
  BY DEF Shortened
<1>5. OnceInv'
  <2>1. \A k \in 1 .. Len(calls') : \A i \in 1 .. Len(calls'[k].chain) : calls'[k].chain[i] \in visited
    BY <1>3, <1>4 DEF OnceInv
  <2>2. ASSUME NEW k \in 1 .. Len(calls'), NEW m \in 1 .. Len(calls'),
               NEW i \in 1 .. Len(calls'[k].chain), NEW j \in 1 .. Len(calls'[m].chain),
               calls'[k].chain[i] = calls'[m].chain[j]
        PROVE  k = m /\ i = j
    <3>1. k \in 1 .. n /\ m \in 1 .. n
      BY <1>4
    <3>2. i \in 1 .. Len(calls[k].chain) /\ calls'[k].chain[i] = calls[k].chain[i]
      BY <1>3, <3>1
    <3>3. j \in 1 .. Len(calls[m].chain) /\ calls'[m].chain[j] = calls[m].chain[j]
      BY <1>3, <3>1
    <3>4. calls[k].chain[i] = calls[m].chain[j]
      BY <2>2, <3>2, <3>3
    <3>5. Apart(k, m)
      BY <3>1 DEF OnceInv
    <3> QED
      BY <3>2, <3>3, <3>4, <3>5 DEF Apart
  <2>3. \A k, m \in 1 .. Len(calls') : Apart(k, m)'
    BY <2>2 DEF Apart
  <2> QED
    BY <1>4, <2>1, <2>3 DEF OnceInv
<1>6. ASSUME NEW S \in SUBSET Block, Closed(S)' PROVE Leads(S)'
  <2>1. Leads(S)
    BY <1>4, <1>6 DEF LeadInv, Closed
  <2>2. ASSUME NEW k \in 1 .. Len(calls'), NEW m \in 1 .. Len(calls'),
               NEW i \in 1 .. Len(calls'[k].chain), k <= m, calls'[k].chain[i] \in S
        PROVE  /\ \A j \in 1 .. Len(calls'[m].chain) : k < m \/ i <= j => calls'[m].chain[j] \in S
               /\ calls'[m].at # "post" => calls'[m].blk \in S
    <3>1. k \in 1 .. n /\ m \in 1 .. n
      BY <1>4
    <3>2. i \in 1 .. Len(calls[k].chain) /\ calls'[k].chain[i] = calls[k].chain[i]
      BY <1>3, <3>1
    <3>3. /\ \A j \in 1 .. Len(calls[m].chain) : k < m \/ i <= j => calls[m].chain[j] \in S
          /\ calls[m].at # "post" => calls[m].blk \in S
      BY <2>1, <2>2, <3>1, <3>2 DEF Leads, LeadsOn
    <3> QED
      BY <1>3, <3>1, <3>3
  <2> QED
    BY <2>2 DEF Leads, LeadsOn
<1> QED
  BY <1>5, <1>6 DEF LeadInv

\* An activation below the innermost one stands where it stood.
LEMMA LowerLaidOut ==
  ASSUME TypeOK, calls # << >>, LaidOutInv, succs' = succs, visited \subseteq visited',
         NEW k \in 1 .. Len(calls) - 1,
         \A j \in 1 .. Len(calls) - 1 : j \in 1 .. Len(calls') /\ calls'[j] = calls[j],
         \A x \in Block : JustCalled(Len(calls), x) => x \in visited'
  PROVE  Followed(k)' /\ Stands(k)'
<1>1. calls'[k] = calls[k] /\ k \in 1 .. Len(calls) /\ Len(calls) \in Nat
  BY ChainOf
<1>2. Followed(k) /\ Stands(k)
  BY <1>1 DEF LaidOutInv
<1>3. Followed(k)'
  BY <1>1, <1>2 DEF Followed, Done
<1>4. ASSUME calls[k].chain # << >>, calls[k].at # "post"
      PROVE  SeesTo(k, Last(calls[k].chain))'
  <2>1. SeesTo(k, Last(calls[k].chain)) /\ calls[k].chain \in Seq(Block)
    BY <1>1, <1>2, <1>4, ChainOf DEF Stands
  <2> PICK l \in Block : l = Last(calls[k].chain)
    BY <1>4, <2>1, FrontLast
  <2>2. SeesTo(k, l)'
    BY <2>1, LowerSeesTo
  <2> QED
    BY <1>1, <2>2
<1>5. Stands(k)'
  BY <1>1, <1>2, <1>4 DEF Stands
<1> QED
  BY <1>3, <1>5

\* What is delivered does not change with a step that moves no block in or out
\* of a chain.
LEMMA SameDelivered ==
  ASSUME DeliveredInv, kind' = kind, order' = order, visited' = visited,
         \A x : InChain(x)' <=> InChain(x)
  PROVE  DeliveredInv'
BY DEF DeliveredInv

\* When the innermost activation changes so, and its chain is followed, all is.
LEMMA ShortenedLaidOut ==
  ASSUME TypeOK, calls # << >>, LaidOutInv, NEW c, Shortened(c),
         NEW n, n = Len(calls), Followed(n)', Stands(n)',
         \A x \in Block : JustCalled(Len(calls), x) => x \in visited
  PROVE  LaidOutInv'
<1>1. /\ Len(calls) \in Nat /\ Len(calls') = Len(calls) /\ succs' = succs /\ visited' = visited
      /\ \A j \in 1 .. Len(calls) - 1 : j \in 1 .. Len(calls') /\ calls'[j] = calls[j]
  BY ChainOf DEF Shortened
<1> SUFFICES ASSUME NEW k \in 1 .. Len(calls) PROVE Followed(k)' /\ Stands(k)'
  BY <1>1 DEF LaidOutInv
<1>2. CASE k = Len(calls)
  BY <1>2
<1>3. CASE k # Len(calls)
  <2>1. k \in 1 .. Len(calls) - 1
    BY <1>1, <1>3
  <2> QED
    BY <1>1, <2>1, LowerLaidOut
<1> QED
  BY <1>2, <1>3

\* A change that leaves the chain whole leaves the blocks in chains the same.
LEMMA ShortenedSame ==
  ASSUME TypeOK, calls # << >>, NEW c, Shortened(c), c.chain = Top.chain
  PROVE  \A x : InChain(x)' <=> InChain(x)
<1>1. \A k \in 1 .. Len(calls) : calls'[k].chain = calls[k].chain
  <2> SUFFICES ASSUME NEW k \in 1 .. Len(calls) PROVE calls'[k].chain = calls[k].chain
    OBVIOUS
  <2>1. CASE k = Len(calls)
    BY <2>1 DEF Shortened, Top
  <2>2. CASE k # Len(calls)
    <3>1. k \in 1 .. Len(calls) - 1
      BY <2>2, ChainOf
    <3> QED
      BY <3>1 DEF Shortened
  <2> QED
    BY <2>1, <2>2
<1>2. Len(calls') = Len(calls)
  BY DEF Shortened
<1> QED
  BY <1>1, <1>2 DEF InChain

\* The chain runs into a visited block: the block before it is followed.
LEMMA PathVisitOld == TypeInv /\ PathInv /\ VisitOld => PathInv'
<1> SUFFICES ASSUME TypeOK, PathInv, VisitOld PROVE PathInv'
  BY DEF TypeInv
<1>1. /\ calls # << >> /\ Top \in Calls /\ Top = calls[Len(calls)]
      /\ calls \in Seq(Calls) /\ Len(calls) \in Nat \ {0}
      /\ Top.at = "loop" /\ Top.blk \in visited
  BY TopType DEF VisitOld, TypeOK, Top
<1> DEFINE c == [Top EXCEPT !.at = "post"]
<1>2. /\ c \in Calls /\ calls' = SetTop(c) /\ c.at = "post" /\ c.blk = Top.blk
      /\ c.chain = Top.chain /\ c.chain \in Seq(Block) /\ Len(c.chain) \in Nat
  BY <1>1 DEF VisitOld, Calls
<1> HIDE DEF c
<1>3. Shortened(c)
  <2>1. succs' = succs /\ visited' = visited /\ kind' = kind
    BY DEF VisitOld
  <2>2. /\ c.at \in {"branch", "post"} /\ Len(c.chain) <= Len(Top.chain)
        /\ c.at = "branch" => Top.at = "branch"
        /\ \A i \in 1 .. Len(c.chain) : c.chain[i] = Top.chain[i]
    BY <1>2
  <2> QED
    BY <1>1, <1>2, <2>1, <2>2, SetTopShortens
<1>4. \A i \in 1 .. Len(Top.chain) : Done(Top.chain[i])
  <2> SUFFICES ASSUME NEW i \in 1 .. Len(Top.chain) PROVE Done(Top.chain[i])
    OBVIOUS
  <2>1. Followed(Len(calls)) /\ Stands(Len(calls))
    BY <1>1 DEF PathInv, LaidOutInv
  <2>2. CASE i < Len(Top.chain)
    BY <1>1, <2>1, <2>2 DEF Followed
  <2>3. CASE ~(i < Len(Top.chain))
    <3>1. i = Len(Top.chain) /\ Top.chain # << >>
      BY <1>2, <2>3, EmptySeq
    <3>2. SeesTo(Len(calls), Last(Top.chain))
      BY <1>1, <2>1, <3>1 DEF Stands
    <3>3. Len(succs[Last(Top.chain)]) = 1 /\ succs[Last(Top.chain)][1] \in visited
      BY <1>1, <3>2 DEF SeesTo
    <3> QED
      BY <3>1, <3>3 DEF Done, Last
  <2> QED
    BY <2>2, <2>3
<1>5. LaidOutInv'
  <2> PICK n \in Nat : n = Len(calls)
    BY <1>1
  <2>1. calls'[n] = c
    BY <1>3 DEF Shortened
  <2>2. Followed(n)'
    BY <1>2, <1>4, <2>1 DEF Followed, VisitOld, Done
  <2>3. Stands(n)'
    BY <1>2, <2>1 DEF Stands
  <2>4. \A x \in Block : JustCalled(Len(calls), x) => x \in visited
    BY <1>1 DEF JustCalled
  <2> QED
    BY <1>1, <1>3, <2>2, <2>3, <2>4, ShortenedLaidOut DEF PathInv
<1>6. LeadInv' /\ OnceInv'
  BY <1>1, <1>3, ShortenedKeeps DEF PathInv
<1>7. DeliveredInv'
  BY <1>1, <1>2, <1>3, ShortenedSame, SameDelivered DEF VisitOld, PathInv
<1> QED
  BY <1>5, <1>6, <1>7 DEF PathInv

\* The last block of the chain is delivered, and is in no chain from then on.
LEMMA PathPostVisit == TypeInv /\ PathInv /\ PostVisit => PathInv'
<1> SUFFICES ASSUME TypeOK, PathInv, PostVisit PROVE PathInv'
  BY DEF TypeInv
<1>1. /\ calls # << >> /\ Top \in Calls /\ Top = calls[Len(calls)]
      /\ calls \in Seq(Calls) /\ Len(calls) \in Nat \ {0}
      /\ Top.at = "post" /\ Top.chain # << >> /\ Top.chain \in Seq(Block)
      /\ Len(Top.chain) \in Nat \ {0}
  <2>1. calls # << >> /\ Top \in Calls /\ Top.at = "post" /\ Top.chain # << >>
        /\ Len(calls) \in Nat \ {0} /\ calls \in Seq(Calls)
    BY TopType DEF PostVisit, TypeOK
  <2>2. Top.chain \in Seq(Block)
    BY <2>1 DEF Calls
  <2> QED
    BY <2>1, <2>2, FrontLast DEF Top
<1> DEFINE c == [Top EXCEPT !.chain = Front(@)]
           b == Last(Top.chain)
<1>2. /\ c \in Calls /\ calls' = SetTop(c) /\ c.at = "post" /\ c.blk = Top.blk
      /\ c.chain = Front(Top.chain) /\ c.chain \in Seq(Block)
  <2>1. Front(Top.chain) \in Seq(Block)
    BY <1>1, FrontLast
  <2> QED
    BY <1>1, <2>1 DEF PostVisit, Calls
<1> HIDE DEF c
<1>3. /\ Len(c.chain) = Len(Top.chain) - 1
      /\ \A i \in 1 .. Len(c.chain) : c.chain[i] = Top.chain[i]
  <2>1. /\ Len(Front(Top.chain)) = Len(Top.chain) - 1
        /\ \A i \in 1 .. Len(Top.chain) - 1 : Front(Top.chain)[i] = Top.chain[i]
    BY <1>1, FrontLast
  <2> QED
    BY <1>2, <2>1
<1>4. succs' = succs /\ visited' = visited /\ kind' = kind
  BY DEF PostVisit
<1>5. Shortened(c)
  BY <1>1, <1>2, <1>3, <1>4, SetTopShortens
<1> PICK n \in Nat \ {0} : n = Len(calls)
  BY <1>1
<1>6. /\ Len(calls') = n /\ calls'[n] = c
      /\ \A k \in 1 .. n - 1 : calls'[k] = calls[k]
  BY <1>5 DEF Shortened
<1>7. LaidOutInv'
  <2>1. Followed(n)
    BY <1>1 DEF PathInv, LaidOutInv
  <2>2. \A i \in 1 .. Len(c.chain) : Done(Top.chain[i])
    BY <1>1, <1>3, <2>1 DEF Followed
  <2>3. Followed(n)'
    BY <1>3, <1>4, <1>6, <2>2 DEF Followed, Done
  <2>4. Stands(n)'
    BY <1>2, <1>6 DEF Stands
  <2>5. \A x \in Block : JustCalled(Len(calls), x) => x \in visited
    BY <1>1 DEF JustCalled
  <2> QED
    BY <1>1, <1>5, <2>3, <2>4, <2>5, ShortenedLaidOut DEF PathInv
<1>8. LeadInv' /\ OnceInv'
  BY <1>1, <1>5, ShortenedKeeps DEF PathInv
<1>9. b \in Block /\ b = Top.chain[Len(Top.chain)] /\ b \in visited
  <2>1. b \in Block
    BY <1>1, FrontLast
  <2>2. calls[n].chain[Len(calls[n].chain)] \in visited
    BY <1>1 DEF PathInv, OnceInv
  <2> QED
    BY <1>1, <2>1, <2>2 DEF Last
<1>10. ASSUME NEW x PROVE InChain(x)' <=> InChain(x) /\ x # b
  <2>1. ASSUME NEW k \in 1 .. n, NEW i \in 1 .. Len(calls'[k].chain)
        PROVE  i \in 1 .. Len(calls[k].chain) /\ calls'[k].chain[i] = calls[k].chain[i]
               /\ (k = n => i < Len(Top.chain))
    <3>1. CASE k = n
      BY SMTT(30), <1>1, <1>3, <1>6, <2>1, <3>1
    <3>2. CASE k # n
      BY <1>6, <2>1, <3>2
    <3> QED
      BY <3>1, <3>2
  <2>2. ASSUME NEW k \in 1 .. n, NEW i \in 1 .. Len(calls[k].chain), calls[k].chain[i] # b
        PROVE  i \in 1 .. Len(calls'[k].chain) /\ calls'[k].chain[i] = calls[k].chain[i]
    <3>1. CASE k = n
      BY <1>1, <1>3, <1>6, <1>9, <2>2, <3>1
    <3>2. CASE k # n
      BY <1>6, <2>2, <3>2
    <3> QED
      BY <3>1, <3>2
  <2>3. InChain(x)' => InChain(x) /\ x # b
    <3> SUFFICES ASSUME InChain(x)' PROVE InChain(x) /\ x # b
      OBVIOUS
    <3> PICK k \in 1 .. n : \E i \in 1 .. Len(calls'[k].chain) : calls'[k].chain[i] = x
      BY <1>6 DEF InChain
    <3> PICK i \in 1 .. Len(calls'[k].chain) : calls'[k].chain[i] = x
      OBVIOUS
    <3>1. i \in 1 .. Len(calls[k].chain) /\ calls[k].chain[i] = x /\ (k = n => i < Len(Top.chain))
      BY <2>1
    <3>2. x # b
      <4> SUFFICES ASSUME x = b PROVE FALSE
        OBVIOUS
      <4>1. Apart(k, n)
        BY DEF PathInv, OnceInv
      <4> DEFINE l == Len(calls[n].chain)
      <4>2. l \in 1 .. Len(calls[n].chain) /\ calls[n].chain[l] = b /\ l = Len(Top.chain)
        BY <1>1, <1>9
      <4> HIDE DEF l
      <4>3. k = n /\ i = l
        BY <3>1, <4>1, <4>2 DEF Apart
      <4> QED
        BY <1>1, <3>1, <4>2, <4>3
    <3> QED
      BY <3>1, <3>2 DEF InChain
  <2>4. InChain(x) /\ x # b => InChain(x)'
    <3> SUFFICES ASSUME InChain(x), x # b PROVE InChain(x)'
      OBVIOUS
    <3> PICK k \in 1 .. n : \E i \in 1 .. Len(calls[k].chain) : calls[k].chain[i] = x
      BY DEF InChain
    <3> PICK i \in 1 .. Len(calls[k].chain) : calls[k].chain[i] = x
      OBVIOUS
    <3>1. i \in 1 .. Len(calls'[k].chain) /\ calls'[k].chain[i] = x
      BY <2>2
    <3> QED
      BY <1>6, <3>1 DEF InChain
  <2> QED
    BY <2>3, <2>4
<1>11. ASSUME kind # "pre" PROVE Elems(order') = Elems(order) \cup {b}
  <2>1. order' = Append(order, b) /\ order \in Seq(Block)
    BY <1>11 DEF PostVisit, TypeOK
  <2> QED
    BY <1>9, <2>1 DEF Elems
<1>12. DeliveredInv'
  <2> SUFFICES ASSUME kind # "pre"
               PROVE  /\ \A x \in visited : x \in Elems(order') \/ InChain(x)'
                      /\ \A x \in Elems(order') : x \in visited /\ ~InChain(x)'
    BY <1>4 DEF DeliveredInv
  <2>1. /\ \A x \in visited : x \in Elems(order) \/ InChain(x)
        /\ \A x \in Elems(order) : x \in visited /\ ~InChain(x)
    BY DEF PathInv, DeliveredInv
  <2> HIDE DEF b
  <2> QED
    BY <1>9, <1>10, <1>11, <2>1
<1> QED
  BY <1>7, <1>8, <1>12 DEF PathInv

\* A call that returns has delivered its chain.
LEMMA PathReturn == TypeInv /\ PathInv /\ Return => PathInv'
<1> SUFFICES ASSUME TypeOK, PathInv, Return PROVE PathInv'
  BY DEF TypeInv
<1>1. /\ calls # << >> /\ Top = calls[Len(calls)] /\ Top.at = "post" /\ Top.chain = << >>
      /\ Len(calls) \in Nat \ {0} /\ calls \in Seq(Calls) /\ calls' = Front(calls)
  BY TopType DEF Return, TypeOK, Top
<1>2. succs' = succs /\ visited' = visited /\ kind' = kind /\ order' = order
  BY DEF Return
<1> PICK n \in Nat \ {0} : n = Len(calls)
  BY <1>1
<1>3. /\ Len(calls') = n - 1
      /\ \A k \in 1 .. n - 1 : calls'[k] = calls[k]
  <2>1. /\ Len(Front(calls)) = Len(calls) - 1
        /\ \A k \in 1 .. Len(calls) - 1 : Front(calls)[k] = calls[k]
    BY <1>1, FrontLast
  <2> QED
    BY <1>1, <2>1
<1>4. LaidOutInv'
  <2> SUFFICES ASSUME NEW k \in 1 .. n - 1 PROVE Followed(k)' /\ Stands(k)'
    BY <1>3 DEF LaidOutInv
  <2>1. \A x \in Block : ~JustCalled(Len(calls), x)
    BY <1>1 DEF JustCalled
  <2> QED
    BY <1>1, <1>2, <1>3, <2>1, LowerLaidOut DEF PathInv
<1>5. LeadInv'
  <2> SUFFICES ASSUME NEW S \in SUBSET Block, Closed(S)' PROVE Leads(S)'
    BY DEF LeadInv
  <2>1. Leads(S)
    BY <1>2 DEF PathInv, LeadInv, Closed
  <2>2. ASSUME NEW k \in 1 .. n - 1, NEW m \in 1 .. n - 1 PROVE LeadsOn(k, m, S)'
    <3>1. k \in 1 .. Len(calls) /\ m \in 1 .. Len(calls)
      OBVIOUS
    <3>2. calls'[k] = calls[k] /\ calls'[m] = calls[m]
      BY <1>3
    <3>3. LeadsOn(k, m, S)
      BY <2>1, <3>1 DEF Leads
    <3> QED
      BY <3>2, <3>3 DEF LeadsOn
  <2> QED
    BY <1>3, <2>2 DEF Leads
<1>6. OnceInv'
  <2>1. OnceInv
    BY DEF PathInv
  <2>2. ASSUME NEW k \in 1 .. n - 1, NEW m \in 1 .. n - 1 PROVE Apart(k, m)'
    <3>1. k \in 1 .. Len(calls) /\ m \in 1 .. Len(calls)
      OBVIOUS
    <3>2. calls'[k] = calls[k] /\ calls'[m] = calls[m]
      BY <1>3
    <3>3. Apart(k, m)
      BY <2>1, <3>1 DEF OnceInv
    <3> QED
      BY <3>2, <3>3 DEF Apart
  <2>3. ASSUME NEW k \in 1 .. n - 1
        PROVE  \A i \in 1 .. Len(calls'[k].chain) : calls'[k].chain[i] \in visited
    <3>1. calls'[k] = calls[k] /\ k \in 1 .. Len(calls)
      BY <1>3
    <3> QED
      BY <2>1, <3>1 DEF OnceInv
  <2> QED
    BY <1>2, <1>3, <2>2, <2>3 DEF OnceInv
<1>7. ASSUME NEW x PROVE InChain(x)' <=> InChain(x)
  <2>1. ~(\E i \in 1 .. Len(calls[n].chain) : calls[n].chain[i] = x)
    BY <1>1
  <2>2. \A k \in 1 .. n - 1 : k \in 1 .. n
    OBVIOUS
  <2>3. \A k \in 1 .. n : k \in 1 .. n - 1 \/ k = n
    OBVIOUS
  <2>4. InChain(x)' <=> \E k \in 1 .. n - 1 : \E i \in 1 .. Len(calls'[k].chain) : calls'[k].chain[i] = x
    BY <1>3 DEF InChain
  <2>5. InChain(x) <=> \E k \in 1 .. n : \E i \in 1 .. Len(calls[k].chain) : calls[k].chain[i] = x
    BY DEF InChain
  <2> DEFINE In(k) == \E i \in 1 .. Len(calls[k].chain) : calls[k].chain[i] = x
  <2>6. \A k \in 1 .. n - 1 : (\E i \in 1 .. Len(calls'[k].chain) : calls'[k].chain[i] = x) <=> In(k)
    BY <1>3
  <2>7. InChain(x)' <=> \E k \in 1 .. n - 1 : In(k)
    BY <2>4, <2>6
  <2>8. ~In(n) /\ (InChain(x) <=> \E k \in 1 .. n : In(k))
    BY <2>1, <2>5
  <2> HIDE DEF In
  <2> QED
    BY <2>2, <2>3, <2>7, <2>8
<1>8. DeliveredInv'
  BY <1>2, <1>7, SameDelivered DEF PathInv
<1> QED
  BY <1>4, <1>5, <1>6, <1>8 DEF PathInv

\* A branch goes on to its next successor, or has followed the last one.
LEMMA PathBranch == TypeInv /\ PathInv /\ Branch => PathInv'
<1> SUFFICES ASSUME TypeOK, PathInv, Branch PROVE PathInv'
  BY DEF TypeInv
<1>1. /\ calls # << >> /\ Top \in Calls /\ Top = calls[Len(calls)]
      /\ calls \in Seq(Calls) /\ Len(calls) \in Nat \ {0} /\ Top.at = "branch"
  BY TopType DEF Branch, TypeOK, Top
<1>2. /\ Top.blk \in Block /\ Top.i \in Nat \ {0} /\ succs[Top.blk] \in Seq(Block)
      /\ Top.chain \in Seq(Block) /\ Len(Top.chain) \in Nat
  <2>1. Top.blk \in Block /\ Top.i \in Nat \ {0} /\ Top.chain \in Seq(Block)
    BY <1>1 DEF Calls
  <2> QED
    BY <2>1 DEF TypeOK
<1>3. succs' = succs /\ visited' = visited /\ kind' = kind /\ order' = order
  BY DEF Branch
<1> PICK n \in Nat \ {0} : n = Len(calls)
  BY <1>1
<1>4. \A x \in Block : ~JustCalled(n, x) /\ ~JustCalled(n + 1, x)
  BY <1>1 DEF JustCalled
<1>5. /\ Followed(n) /\ Top.chain # << >> /\ Top.blk = Last(Top.chain)
      /\ SeesTo(n, Top.blk) /\ Top.at # "post"
  <2>1. Followed(n) /\ Stands(n)
    BY DEF PathInv, LaidOutInv
  <2>2. Top.chain # << >> /\ Top.blk = Last(Top.chain) /\ Top.at # "post"
    BY <1>1, <2>1 DEF Stands
  <2>3. SeesTo(n, Last(Top.chain))
    BY <1>1, <2>1, <2>2 DEF Stands
  <2> QED
    BY <2>1, <2>2, <2>3
<1>6. \A m \in 1 .. Len(succs[Top.blk]) : m < Top.i => succs[Top.blk][m] \in visited
  BY <1>1, <1>2, <1>4, <1>5 DEF SeesTo
<1>7. \A i \in 1 .. Len(Top.chain) : i < Len(Top.chain) => Done(Top.chain[i])
  BY <1>1, <1>5 DEF Followed
<1>8. LeadInv /\ OnceInv /\ LaidOutInv /\ DeliveredInv
  BY DEF PathInv
<1>9. CASE Top.i > Len(succs[Top.blk])
  <2> DEFINE c == [Top EXCEPT !.at = "post"]
  <2>1. c \in Calls /\ calls' = SetTop(c) /\ c.at = "post" /\ c.blk = Top.blk /\ c.chain = Top.chain
    BY <1>1, <1>9 DEF Branch, Calls
  <2> HIDE DEF c
  <2>2. Shortened(c)
    <3>1. /\ c.at \in {"branch", "post"} /\ (c.at = "branch" => Top.at = "branch")
          /\ Len(c.chain) <= Len(Top.chain)
          /\ \A i \in 1 .. Len(c.chain) : c.chain[i] = Top.chain[i]
      BY <1>1, <1>2, <2>1
    <3> QED
      BY <1>1, <1>3, <2>1, <3>1, SetTopShortens
  <2>3. Done(Last(Top.chain))
    BY <1>2, <1>5, <1>6, <1>9 DEF Done
  <2>4. \A i \in 1 .. Len(Top.chain) : Done(Top.chain[i])
    <3> SUFFICES ASSUME NEW i \in 1 .. Len(Top.chain) PROVE Done(Top.chain[i])
      OBVIOUS
    <3>1. CASE i < Len(Top.chain)
      BY <1>7, <3>1
    <3>2. CASE i = Len(Top.chain)
      BY <2>3, <3>2 DEF Last
    <3> QED
      BY <1>2, <3>1, <3>2
  <2>5. calls'[n] = c
    BY <2>2 DEF Shortened
  <2>6. Followed(n)'
    BY <1>3, <2>1, <2>4, <2>5 DEF Followed, Done
  <2>7. Stands(n)'
    BY <2>1, <2>5 DEF Stands
  <2>8. LaidOutInv'
    BY <1>1, <1>4, <1>8, <2>2, <2>6, <2>7, ShortenedLaidOut
  <2>9. LeadInv' /\ OnceInv'
    BY <1>1, <1>8, <2>2, ShortenedKeeps
  <2>10. DeliveredInv'
    BY <1>1, <1>3, <1>8, <2>1, <2>2, ShortenedSame, SameDelivered
  <2> QED
    BY <2>8, <2>9, <2>10 DEF PathInv
<1>10. CASE ~(Top.i > Len(succs[Top.blk]))
  <2> DEFINE s == succs[Top.blk][Top.i]
             c == [Top EXCEPT !.i = @ + 1]
  <2>1. s \in Block /\ Top.i \in 1 .. Len(succs[Top.blk])
    BY <1>2, <1>10
  <2>2. /\ c \in Calls /\ c.at = "branch" /\ c.blk = Top.blk /\ c.i = Top.i + 1
        /\ c.chain = Top.chain
    <3>1. Top.i + 1 \in Nat \ {0}
      BY <1>2
    <3> QED
      BY <1>1, <3>1 DEF Calls
  <2>3. calls' = IF s \in visited THEN SetTop(c) ELSE Append(SetTop(c), Call(s))
    BY <1>10 DEF Branch
  <2> HIDE DEF c
  <2>4. \A m \in 1 .. Len(succs[Top.blk]) :
          m < c.i => succs[Top.blk][m] \in visited \/ (m = c.i - 1 /\ succs[Top.blk][m] = s)
    BY <1>2, <1>6, <2>2
  <2> PICK b \in Block, t \in Block : b = Top.blk /\ t = s
    BY <1>2, <2>1
  <2> HIDE DEF s
  <2>5. CASE s \in visited
    <3>1. calls' = SetTop(c)
      BY <2>3, <2>5
    <3>2. Shortened(c)
      <4>1. /\ c.at \in {"branch", "post"} /\ (c.at = "branch" => Top.at = "branch")
            /\ Len(c.chain) <= Len(Top.chain)
            /\ \A i \in 1 .. Len(c.chain) : c.chain[i] = Top.chain[i]
        BY <1>1, <1>2, <2>2
      <4> QED
        BY <1>1, <1>3, <2>2, <3>1, <4>1, SetTopShortens
    <3>3. calls'[n] = c
      BY <3>2 DEF Shortened
    <3>4. Followed(n)'
      BY <1>3, <1>7, <2>2, <3>3 DEF Followed, Done
    <3>5. SeesTo(n, b)'
      <4>1. \A m \in 1 .. Len(succs[b]) : m < c.i => succs[b][m] \in visited
        BY <2>4, <2>5
      <4> QED
        BY <1>3, <2>2, <3>3, <4>1 DEF SeesTo
    <3>6. Stands(n)'
      BY <1>5, <2>2, <3>3, <3>5 DEF Stands
    <3>7. LaidOutInv'
      BY <1>1, <1>4, <1>8, <3>2, <3>4, <3>6, ShortenedLaidOut
    <3>8. LeadInv' /\ OnceInv'
      BY <1>1, <1>8, <3>2, ShortenedKeeps
    <3>9. DeliveredInv'
      BY <1>1, <1>3, <1>8, <2>2, <3>2, ShortenedSame, SameDelivered
    <3> QED
      BY <3>7, <3>8, <3>9 DEF PathInv
  <2>6. CASE s \notin visited
    <3>1. Call(t) \in Calls /\ Call(t).at = "loop" /\ Call(t).chain = << >> /\ Call(t).blk = t
      BY CallType
    <3>2. /\ Len(calls') = n + 1 /\ calls'[n + 1] = Call(t) /\ calls'[n] = c
          /\ \A k \in 1 .. n - 1 : calls'[k] = calls[k]
      <4>1. /\ SetTop(c) \in Seq(Calls) /\ Len(SetTop(c)) = n /\ SetTop(c)[n] = c
            /\ \A k \in 1 .. n - 1 : SetTop(c)[k] = calls[k]
        BY <1>1, <2>2, SetTopType
      <4> QED
        BY <2>3, <2>6, <3>1, <4>1
    <3>3. \A k \in 1 .. n : calls'[k].chain = calls[k].chain
      <4> SUFFICES ASSUME NEW k \in 1 .. n PROVE calls'[k].chain = calls[k].chain
        OBVIOUS
      <4>1. CASE k = n
        BY <1>1, <2>2, <3>2, <4>1
      <4>2. CASE k # n
        BY <3>2, <4>2
      <4> QED
        BY <4>1, <4>2
    <3>4. LaidOutInv'
      <4>0. Followed(n)'
        BY <1>3, <1>7, <2>2, <3>2 DEF Followed, Done
      <4>1. Followed(n + 1)' /\ Stands(n + 1)'
        <5>1. /\ calls'[n + 1].at = "loop" /\ calls'[n + 1].chain = << >>
              /\ Len(calls'[n + 1].chain) = 0
          BY <3>1, <3>2
        <5> QED
          BY <5>1 DEF Followed, Stands
      <4>2. JustCalled(n + 1, t)'
        BY <3>1, <3>2 DEF JustCalled
      <4>3. SeesTo(n, b)'
        <5>1. \A m \in 1 .. Len(succs[b]) :
                m < c.i => succs[b][m] \in visited \/ (m = c.i - 1 /\ succs[b][m] = t)
          BY <2>4
        <5> QED
          BY <1>3, <2>2, <3>2, <4>2, <5>1 DEF SeesTo
      <4>4. Stands(n)'
        BY <1>5, <2>2, <3>2, <4>3 DEF Stands
      <4>5. ASSUME NEW k \in 1 .. n - 1 PROVE Followed(k)' /\ Stands(k)'
        <5>1. \A j \in 1 .. Len(calls) - 1 : j \in 1 .. Len(calls') /\ calls'[j] = calls[j]
          BY <3>2
        <5> QED
          BY <1>1, <1>3, <1>4, <1>8, <5>1, LowerLaidOut
      <4>6. \A k \in 1 .. n + 1 : k \in 1 .. n - 1 \/ k = n \/ k = n + 1
        OBVIOUS
      <4> QED
        BY <3>2, <4>0, <4>1, <4>4, <4>5, <4>6 DEF LaidOutInv
    <3>5. ASSUME NEW S \in SUBSET Block, Closed(S)' PROVE Leads(S)'
      <4>1. Closed(S) /\ Leads(S)
        BY <1>3, <1>8, <3>5 DEF LeadInv, Closed
      <4>2. ASSUME NEW k \in 1 .. n, NEW m \in 1 .. n PROVE LeadsOn(k, m, S)'
        <5>1. LeadsOn(k, m, S)
          BY <4>1 DEF Leads
        <5>2. calls'[m].at # "post" => calls[m].at # "post" /\ calls'[m].blk = calls[m].blk
          <6>1. CASE m = n
            BY <1>1, <2>2, <3>2, <6>1
          <6>2. CASE m # n
            BY <3>2, <6>2
          <6> QED
            BY <6>1, <6>2
        <5> QED
          BY <3>3, <5>1, <5>2 DEF LeadsOn
      <4>3. ASSUME NEW k \in 1 .. n PROVE LeadsOn(k, n + 1, S)'
        <5>1. LeadsOn(k, n, S)
          BY <4>1 DEF Leads
        <5>2. b \in S => t \in S
          BY <2>1, <4>1, SuccessorIn DEF s
        <5> QED
          BY <1>1, <3>1, <3>2, <3>3, <5>1, <5>2 DEF LeadsOn
      <4>4. \A m \in 1 .. n + 1 : LeadsOn(n + 1, m, S)'
        BY <3>1, <3>2 DEF LeadsOn
      <4>5. \A k \in 1 .. n + 1 : k \in 1 .. n \/ k = n + 1
        OBVIOUS
      <4> QED
        BY <3>2, <4>2, <4>3, <4>4, <4>5 DEF Leads
    <3>6. OnceInv'
      <4>1. ASSUME NEW k \in 1 .. n, NEW m \in 1 .. n PROVE Apart(k, m)'
        <5>1. Apart(k, m)
          BY <1>8 DEF OnceInv
        <5> QED
          BY <3>3, <5>1 DEF Apart
      <4>2. ASSUME NEW k \in 1 .. n + 1 PROVE Apart(k, n + 1)' /\ Apart(n + 1, k)'
        BY <3>1, <3>2 DEF Apart
      <4>3. \A k \in 1 .. n : \A i \in 1 .. Len(calls'[k].chain) : calls'[k].chain[i] \in visited
        BY <1>8, <3>3 DEF OnceInv
      <4>4. \A i \in 1 .. Len(calls'[n + 1].chain) : calls'[n + 1].chain[i] \in visited
        BY <3>1, <3>2
      <4>5. \A k \in 1 .. n + 1 : k \in 1 .. n \/ k = n + 1
        OBVIOUS
      <4> QED
        BY <1>3, <3>2, <4>1, <4>2, <4>3, <4>4, <4>5 DEF OnceInv
    <3>7. ASSUME NEW x PROVE InChain(x)' <=> InChain(x)
      <4> DEFINE In(k) == \E i \in 1 .. Len(calls[k].chain) : calls[k].chain[i] = x
      <4>1. \A k \in 1 .. n : (\E i \in 1 .. Len(calls'[k].chain) : calls'[k].chain[i] = x) <=> In(k)
        BY <3>3
      <4>2. ~(\E i \in 1 .. Len(calls'[n + 1].chain) : calls'[n + 1].chain[i] = x)
        BY <3>1, <3>2
      <4>3. \A k : k \in 1 .. n + 1 <=> k \in 1 .. n \/ k = n + 1
        OBVIOUS
      <4>4. InChain(x)' <=> \E k \in 1 .. n : In(k)
        BY <3>2, <4>1, <4>2, <4>3 DEF InChain
      <4>5. InChain(x) <=> \E k \in 1 .. n : In(k)
        BY DEF InChain
      <4> QED
        BY <4>4, <4>5
    <3>8. DeliveredInv'
      BY <1>3, <1>8, <3>7, SameDelivered
    <3> QED
      BY <3>4, <3>5, <3>6, <3>8 DEF PathInv, LeadInv
  <2> QED
    BY <2>5, <2>6
<1> QED
  BY <1>9, <1>10

\* A new block joins the chain of the innermost activation: the block before
\* it leads to it, and it leads to where the activation goes on.
LEMMA PathVisitNew == TypeInv /\ CompleteInv /\ PathInv /\ VisitNew => PathInv'
<1> SUFFICES ASSUME TypeOK, LoopFirst, PathInv, VisitNew PROVE PathInv'
  BY DEF TypeInv, CompleteInv
<1>1. /\ calls \in Seq(Calls) /\ calls # << >> /\ Len(calls) \in Nat \ {0}
      /\ Top \in Calls /\ Top.at = "loop" /\ Top.blk \notin visited
      /\ Top = calls[Len(calls)]
  BY TopType DEF VisitNew, TypeOK, Top
<1> PICK n \in Nat \ {0}, b \in Block : n = Len(calls) /\ b = Top.blk
  BY <1>1 DEF Calls
<1> PICK chain \in Seq(Block) : chain = Top.chain
  BY <1>1 DEF Calls
<1> DEFINE l == Len(chain)
           w == Len(succs[b])
<1>2. succs[b] \in Seq(Block) /\ w \in Nat /\ l \in Nat /\ Top.i = 1
  BY <1>1 DEF TypeOK, LoopFirst
<1>3. PICK next \in Calls :
        /\ next.i = Top.i /\ next.chain = Append(Top.chain, b)
        /\ w = 0 => next.at = "post"
        /\ w = 1 => next.at = "loop" /\ next.blk = succs[b][1]
        /\ w > 1 => next.at = "branch" /\ next.blk = b
        /\ Len(calls') = n /\ calls'[n] = next
        /\ \A k \in 1 .. n - 1 : calls'[k] = calls[k]
  BY NewTop
<1>4. /\ Len(next.chain) = l + 1 /\ next.chain[l + 1] = b /\ next.chain # << >>
      /\ Last(next.chain) = b
      /\ \A i \in 1 .. l : next.chain[i] = chain[i]
  <2>1. next.chain = Append(chain, b)
    BY <1>3
  <2> QED
    BY <2>1, AppendLast
<1>5. visited' = visited \cup {b} /\ succs' = succs /\ kind' = kind
  BY DEF VisitNew
<1>6. LeadInv /\ OnceInv /\ LaidOutInv /\ DeliveredInv
  BY DEF PathInv
<1>7. Followed(n) /\ Stands(n) /\ calls[n].chain = chain /\ calls[n].at = "loop" /\ calls[n].blk = b
  BY <1>1, <1>6 DEF LaidOutInv
<1> HIDE DEF l, w
<1>8. LaidOutInv'
  <2>1. ASSUME NEW i \in 1 .. l PROVE Done(chain[i])'
    <3>1. CASE i < l
      <4>1. Done(chain[i])
        BY <1>7, <2>1, <3>1 DEF Followed, l
      <4> QED
        BY <1>5, <4>1 DEF Done
    <3>2. CASE i = l
      <4>1. chain # << >> /\ chain[i] = Last(chain)
        BY <2>1, <3>2 DEF l, Last
      <4>2. SeesTo(n, Last(chain))
        BY <1>7, <4>1 DEF Stands
      <4>3. Len(succs[Last(chain)]) = 1 /\ succs[Last(chain)][1] = b
        BY <1>7, <4>2 DEF SeesTo
      <4> QED
        BY <1>5, <4>1, <4>3 DEF Done
    <3> QED
      BY <1>2, <3>1, <3>2
  <2>2. Followed(n)'
    <3> SUFFICES ASSUME NEW i \in 1 .. l + 1, i < l + 1 \/ next.at = "post"
                 PROVE  Done(next.chain[i])'
      BY <1>3, <1>4 DEF Followed
    <3>1. CASE i \in 1 .. l
      <4>1. next.chain[i] = chain[i]
        BY <1>4, <3>1
      <4> QED
        BY <2>1, <3>1, <4>1
    <3>2. CASE i = l + 1
      <4>1. w = 0
        BY <1>2, <1>3, <3>2
      <4>2. next.chain[i] = b
        BY <1>4, <3>2
      <4> QED
        BY <1>5, <4>1, <4>2 DEF Done, w
    <3> QED
      BY <1>2, <3>1, <3>2
  <2>3. next.at # "post" => SeesTo(n, b)'
    <3>1. (next.at = "loop" /\ w = 1) \/ (next.at = "branch" /\ w > 1) \/ next.at = "post"
      BY <1>2, <1>3
    <3>2. CASE next.at = "loop" /\ w = 1
      BY <1>3, <1>4, <1>5, <3>2 DEF SeesTo, w
    <3>3. CASE next.at = "branch" /\ w > 1
      BY <1>2, <1>3, <1>5, <3>3 DEF SeesTo
    <3> QED
      BY <3>1, <3>2, <3>3
  <2>4. next.at = "branch" => next.blk = b
    BY <1>2, <1>3
  <2>5. Stands(n)'
    <3>1. calls'[n] = next
      BY <1>3
    <3>2. next.at = "branch" => next.chain # << >> /\ next.blk = Last(next.chain)
      BY <1>4, <2>4
    <3>3. next.at # "post" => SeesTo(n, Last(next.chain))'
      BY <1>4, <2>3
    <3> QED
      BY <3>1, <3>2, <3>3 DEF Stands
  <2>6. ASSUME NEW k \in 1 .. n - 1 PROVE Followed(k)' /\ Stands(k)'
    <3>1. \A x \in Block : JustCalled(Len(calls), x) => x \in visited'
      BY <1>1, <1>5 DEF JustCalled
    <3>2. \A j \in 1 .. Len(calls) - 1 : j \in 1 .. Len(calls') /\ calls'[j] = calls[j]
      BY <1>3
    <3> QED
      BY <1>1, <1>5, <1>6, <3>1, <3>2, LowerLaidOut
  <2>7. \A k \in 1 .. n : k \in 1 .. n - 1 \/ k = n
    OBVIOUS
  <2> QED
    BY <1>3, <2>2, <2>5, <2>6, <2>7 DEF LaidOutInv
\* A block of a chain was there before, or is the new one.
<1>9. ASSUME NEW k \in 1 .. n, NEW i \in 1 .. Len(calls'[k].chain)
      PROVE  \/ i \in 1 .. Len(calls[k].chain) /\ calls'[k].chain[i] = calls[k].chain[i]
             \/ k = n /\ i = l + 1 /\ calls'[k].chain[i] = b
  <2>1. CASE k = n
    <3>1. i \in 1 .. l + 1 /\ calls'[k].chain = next.chain /\ Len(calls[k].chain) = l
      BY <1>3, <1>4, <1>7, <2>1 DEF l
    <3>2. i \in 1 .. l \/ i = l + 1
      BY <1>2, <3>1
    <3> QED
      BY <1>4, <1>7, <2>1, <3>1, <3>2 DEF l
  <2>2. CASE k # n
    <3>1. calls'[k] = calls[k]
      BY <1>3, <2>2
    <3> QED
      BY <3>1
  <2> QED
    BY <2>1, <2>2
<1>10. OnceInv'
  <2>1. ASSUME NEW k \in 1 .. n, NEW m \in 1 .. n PROVE Apart(k, m)'
    <3> SUFFICES ASSUME NEW i \in 1 .. Len(calls'[k].chain), NEW j \in 1 .. Len(calls'[m].chain),
                        calls'[k].chain[i] = calls'[m].chain[j]
                 PROVE  k = m /\ i = j
      BY DEF Apart
    <3>1. Apart(k, m) /\ b \notin visited
      BY <1>1, <1>6 DEF OnceInv
    <3>2. \/ i \in 1 .. Len(calls[k].chain) /\ calls'[k].chain[i] = calls[k].chain[i]
          \/ k = n /\ i = l + 1 /\ calls'[k].chain[i] = b
      BY <1>9
    <3>3. \/ j \in 1 .. Len(calls[m].chain) /\ calls'[m].chain[j] = calls[m].chain[j]
          \/ m = n /\ j = l + 1 /\ calls'[m].chain[j] = b
      BY <1>9
    <3>4. /\ i \in 1 .. Len(calls[k].chain) => calls[k].chain[i] \in visited
          /\ j \in 1 .. Len(calls[m].chain) => calls[m].chain[j] \in visited
      BY <1>6 DEF OnceInv
    <3> QED
      BY <3>1, <3>2, <3>3, <3>4 DEF Apart
  <2>2. ASSUME NEW k \in 1 .. n, NEW i \in 1 .. Len(calls'[k].chain)
        PROVE  calls'[k].chain[i] \in visited'
    <3>1. i \in 1 .. Len(calls[k].chain) => calls[k].chain[i] \in visited
      BY <1>6 DEF OnceInv
    <3> QED
      BY <1>5, <1>9, <3>1
  <2> QED
    BY <1>3, <2>1, <2>2 DEF OnceInv
<1>11. ASSUME NEW S \in SUBSET Block, Closed(S)' PROVE Leads(S)'
  <2>1. Closed(S) /\ Leads(S)
    BY <1>5, <1>6, <1>11 DEF LeadInv, Closed
  <2>2. b \in S /\ next.at # "post" => next.blk \in S
    <3>1. w = 1 /\ b \in S => succs[b][1] \in S
      BY <2>1, SuccessorIn DEF w
    <3> QED
      BY <1>2, <1>3, <3>1
  <2>3. ASSUME NEW k \in 1 .. n, NEW m \in 1 .. n PROVE LeadsOn(k, m, S)'
    <3> SUFFICES ASSUME NEW i \in 1 .. Len(calls'[k].chain), k <= m, calls'[k].chain[i] \in S
                 PROVE  /\ \A j \in 1 .. Len(calls'[m].chain) :
                             k < m \/ i <= j => calls'[m].chain[j] \in S
                        /\ calls'[m].at # "post" => calls'[m].blk \in S
      BY DEF LeadsOn
    <3>1. LeadsOn(k, m, S)
      BY <2>1 DEF Leads
    <3>2. CASE i \in 1 .. Len(calls[k].chain) /\ calls'[k].chain[i] = calls[k].chain[i]
      <4>1. /\ \A j \in 1 .. Len(calls[m].chain) : k < m \/ i <= j => calls[m].chain[j] \in S
            /\ calls[m].at # "post" => calls[m].blk \in S
        BY <3>1, <3>2 DEF LeadsOn
      <4>2. CASE m = n
        <5>1. b \in S
          BY <1>7, <4>1, <4>2
        <5>2. calls'[m] = next
          BY <1>3, <4>2
        <5>3. \A j \in 1 .. Len(calls'[m].chain) : k < m \/ i <= j => calls'[m].chain[j] \in S
          BY <1>9, <4>1, <5>1
        <5> QED
          BY <2>2, <5>1, <5>2, <5>3
      <4>3. CASE m # n
        <5>1. calls'[m] = calls[m]
          BY <1>3, <4>3
        <5> QED
          BY <4>1, <5>1
      <4> QED
        BY <4>2, <4>3
    <3>3. CASE k = n /\ i = l + 1 /\ calls'[k].chain[i] = b
      <4>1. m = n /\ b \in S /\ calls'[m] = next
        BY <1>3, <3>3
      <4>2. \A j \in 1 .. Len(calls'[m].chain) : i <= j => j = l + 1
        BY <1>2, <1>4, <3>3, <4>1
      <4> QED
        BY <1>4, <2>2, <3>3, <4>1, <4>2
    <3> QED
      BY <1>9, <3>2, <3>3
  <2> QED
    BY <1>3, <2>3 DEF Leads
<1>12. ASSUME NEW x PROVE InChain(x)' <=> InChain(x) \/ x = b
  <2>1. InChain(x)' => InChain(x) \/ x = b
    <3> SUFFICES ASSUME InChain(x)' PROVE InChain(x) \/ x = b
      OBVIOUS
    <3> PICK k \in 1 .. n : \E i \in 1 .. Len(calls'[k].chain) : calls'[k].chain[i] = x
      BY <1>3 DEF InChain
    <3> PICK i \in 1 .. Len(calls'[k].chain) : calls'[k].chain[i] = x
      OBVIOUS
    <3>1. (i \in 1 .. Len(calls[k].chain) /\ calls[k].chain[i] = x) \/ x = b
      BY <1>9
    <3> QED
      BY <3>1 DEF InChain
  <2>2. InChain(b)'
    <3>1. n \in 1 .. Len(calls') /\ l + 1 \in 1 .. Len(calls'[n].chain) /\ calls'[n].chain[l + 1] = b
      BY <1>2, <1>3, <1>4
    <3> QED
      BY <3>1 DEF InChain
  <2>3. InChain(x) => InChain(x)'
    <3> SUFFICES ASSUME InChain(x) PROVE InChain(x)'
      OBVIOUS
    <3> PICK k \in 1 .. n : \E i \in 1 .. Len(calls[k].chain) : calls[k].chain[i] = x
      BY DEF InChain
    <3> PICK i \in 1 .. Len(calls[k].chain) : calls[k].chain[i] = x
      OBVIOUS
    <3>1. i \in 1 .. Len(calls'[k].chain) /\ calls'[k].chain[i] = x
      <4>1. CASE k = n
        <5>1. i \in 1 .. l
          BY <1>7, <4>1 DEF l
        <5>2. calls'[k].chain = next.chain /\ calls[k].chain = chain
          BY <1>3, <1>7, <4>1
        <5>3. i \in 1 .. l + 1
          BY <1>2, <5>1
        <5> QED
          BY <1>4, <5>1, <5>2, <5>3
      <4>2. CASE k # n
        BY SMTT(30), <1>3, <4>2
      <4> QED
        BY <4>1, <4>2
    <3> QED
      BY <1>3, <3>1 DEF InChain
  <2> QED
    BY <2>1, <2>2, <2>3
<1>13. DeliveredInv'
  <2> SUFFICES ASSUME kind # "pre"
               PROVE  /\ \A x \in visited' : x \in Elems(order') \/ InChain(x)'
                      /\ \A x \in Elems(order') : x \in visited' /\ ~InChain(x)'
    BY <1>5 DEF DeliveredInv
  <2>1. order' = order
    BY DEF VisitNew
  <2>2. /\ \A x \in visited : x \in Elems(order) \/ InChain(x)
        /\ \A x \in Elems(order) : x \in visited /\ ~InChain(x)
    BY <1>6 DEF DeliveredInv
  <2> QED
    BY <1>1, <1>5, <1>12, <2>1, <2>2
<1> QED
  BY <1>8, <1>10, <1>11, <1>13 DEF PathInv, LeadInv

LEMMA PathInit == Init => PathInv
<1> SUFFICES ASSUME Init PROVE PathInv
  OBVIOUS
<1>1. calls = << >> /\ Len(calls) = 0 /\ order = << >> /\ visited = {}
  BY DEF Init
<1>2. LaidOutInv /\ LeadInv /\ OnceInv
  BY <1>1 DEF LaidOutInv, LeadInv, Leads, OnceInv
<1>3. DeliveredInv
  BY <1>1 DEF DeliveredInv, Elems
<1> QED
  BY <1>2, <1>3 DEF PathInv

LEMMA PathStep == TypeInv /\ CompleteInv /\ PathInv /\ [Next]_vars => PathInv'
<1> SUFFICES ASSUME TypeInv, CompleteInv, PathInv, [Next]_vars PROVE PathInv'
  OBVIOUS
<1>1. CASE WalkFunction
  <2>1. /\ calls' = << Call(Entry) >> /\ visited' = {} /\ order' = << >>
        /\ Call(Entry).at = "loop" /\ Call(Entry).chain = << >>
    BY <1>1, CallType, WalkerAssumption DEF WalkFunction
  <2>2. Len(calls') = 1 /\ calls'[1].at = "loop" /\ calls'[1].chain = << >> /\ Len(calls'[1].chain) = 0
    BY <2>1
  <2>3. LaidOutInv'
    BY <2>2 DEF LaidOutInv, Followed, Stands
  <2>4. LeadInv' /\ OnceInv'
    BY <2>2 DEF LeadInv, Leads, LeadsOn, OnceInv, Apart
  <2>5. DeliveredInv'
    BY <2>1 DEF DeliveredInv, Elems
  <2> QED
    BY <2>3, <2>4, <2>5 DEF PathInv
<1>2. CASE Visit
  BY <1>2, PathVisitNew, PathVisitOld, PathBranch, PathPostVisit, PathReturn DEF Visit
<1>3. CASE UNCHANGED << succs, visited, calls, order, kind >>
  <2>1. LaidOutInv'
    <3> SUFFICES ASSUME NEW k \in 1 .. Len(calls) PROVE Followed(k)' /\ Stands(k)'
      BY <1>3 DEF LaidOutInv
    <3>1. Followed(k) /\ Stands(k)
      BY DEF PathInv, LaidOutInv
    <3>2. Followed(k)'
      BY <1>3, <3>1 DEF Followed, Done
    <3>3. Stands(k)'
      BY <1>3, <3>1 DEF Stands, SeesTo, JustCalled
    <3> QED
      BY <3>2, <3>3
  <2>2. LeadInv'
    <3> SUFFICES ASSUME NEW S \in SUBSET Block, Closed(S)',
                        NEW k \in 1 .. Len(calls), NEW m \in 1 .. Len(calls)
                 PROVE  LeadsOn(k, m, S)'
      BY <1>3 DEF LeadInv, Leads
    <3>1. LeadsOn(k, m, S)
      BY <1>3 DEF PathInv, LeadInv, Leads, Closed
    <3> QED
      BY <1>3, <3>1 DEF LeadsOn
  <2>3. OnceInv' /\ DeliveredInv'
    BY <1>3 DEF PathInv, OnceInv, Apart, DeliveredInv, InChain
  <2> QED
    BY <2>1, <2>2, <2>3 DEF PathInv
<1> QED
  BY <1>1, <1>2, <1>3 DEF Next, vars, WalkDeclaration, Begin, Read

\* What the walker keeps at every step, to be read by the refinement.
WalkInv == TypeInv /\ SoundInv /\ CompleteInv /\ PathInv

THEOREM WalkInvariant == Spec => []WalkInv
<1>1. Init => WalkInv
  BY TypeInit, SoundInit, CompleteInit, PathInit DEF WalkInv
<1>2. WalkInv /\ [Next]_vars => WalkInv'
  BY TypeStep, SoundStep, CompleteStep, PathStep DEF WalkInv
<1> QED
  BY <1>1, <1>2, PTL DEF Spec

\* The block that is delivered comes from the entry, for the first time, and
\* after its successors, but for those that lead back to it.
LEMMA PostVisitDelivers ==
  WalkInv /\ PostVisit /\ kind # "pre" => \E b \in Block : Promise!Deliver(b)
<1> SUFFICES ASSUME TypeOK, SoundInv, PathInv, PostVisit, kind # "pre"
             PROVE  \E b \in Block : Promise!Deliver(b)
  BY DEF WalkInv, TypeInv
<1>1. /\ calls # << >> /\ Top \in Calls /\ Top = calls[Len(calls)]
      /\ calls \in Seq(Calls) /\ Len(calls) \in Nat \ {0}
      /\ Top.at = "post" /\ Top.chain # << >>
  BY TopType DEF PostVisit, TypeOK, Top
<1> PICK n \in Nat \ {0}, chain \in Seq(Block) : n = Len(calls) /\ chain = Top.chain
  BY <1>1 DEF Calls
<1>2. chain # << >> /\ calls[n].chain = chain /\ calls[n].at = "post"
  BY <1>1
<1> PICK l \in Nat \ {0}, b \in Block : l = Len(chain) /\ b = chain[l] /\ b = Last(chain)
  BY <1>2, FrontLast DEF Last
<1>2a. /\ n \in 1 .. Len(calls) /\ l \in 1 .. Len(calls[n].chain)
      /\ calls[n].chain[l] = b /\ Len(calls[n].chain) = l
  <2>1. l \in 1 .. l /\ n \in 1 .. n
    OBVIOUS
  <2>2. Len(calls[n].chain) = l /\ calls[n].chain[l] = b
    BY <1>2, Zenon
  <2> QED
    BY <2>1, <2>2
<1>3. b \in visited /\ Done(b) /\ InChain(b)
  <2>1. Followed(n)
    BY <1>2a DEF PathInv, LaidOutInv
  <2>2. n \in 1 .. Len(calls) /\ calls[n].chain[l] = b /\ l \in 1 .. Len(calls[n].chain)
    BY <1>2a
  <2>3. Done(b)
    BY <1>2, <2>1, <2>2 DEF Followed
  <2>4. b \in visited
    BY <2>2 DEF PathInv, OnceInv
  <2>5. InChain(b)
    BY <2>2 DEF InChain
  <2> QED
    BY <2>3, <2>4, <2>5
<1>4. \A x \in Block : x \in Promise!Delivered <=> x \in Elems(order)
  BY DEF Promise!Delivered, Elems
<1>5. b \notin Promise!Delivered
  BY <1>3, <1>4 DEF PathInv, DeliveredInv
<1>6. \A S \in SUBSET Block : Promise!Closed(S) => Closed(S)
  BY DEF Promise!Closed, Closed, Elems
<1>7. Promise!LeadsTo(Entry, b)
  BY <1>3, <1>6 DEF Promise!LeadsTo, SoundInv, Follows
<1>8. ASSUME NEW i \in DOMAIN succs[b], succs[b][i] \notin Promise!Delivered
      PROVE  Promise!LeadsTo(succs[b][i], b)
  <2>1. succs[b] \in Seq(Block) /\ i \in 1 .. Len(succs[b])
    BY DEF TypeOK
  <2> PICK s \in Block : s = succs[b][i]
    BY <2>1
  <2>2. s \in visited /\ s \notin Elems(order)
    <3>1. s \in visited
      BY <1>3, <2>1 DEF Done
    <3>2. s \notin Promise!Delivered
      BY <1>8
    <3> QED
      BY <1>4, <3>1, <3>2
  <2>3. InChain(s)
    BY <2>2 DEF PathInv, DeliveredInv
  <2> PICK k \in 1 .. n : \E j \in 1 .. Len(calls[k].chain) : calls[k].chain[j] = s
    BY <2>3 DEF InChain
  <2> PICK j \in 1 .. Len(calls[k].chain) : calls[k].chain[j] = s
    OBVIOUS
  <2>4. ASSUME NEW S \in SUBSET Block, s \in S, Promise!Closed(S) PROVE b \in S
    <3>1. Closed(S) /\ n \in 1 .. Len(calls)
      BY <1>6, <2>4
    <3>2. LeadsOn(k, n, S)
      BY <3>1 DEF PathInv, LeadInv, Leads
    <3>3. k <= n /\ (k < n \/ (k = n /\ j <= l))
      BY <1>2a
    <3>4. l \in 1 .. Len(calls[n].chain) /\ calls[n].chain[l] = b /\ calls[k].chain[j] \in S
      BY <1>2a, <2>4
    <3> QED
      BY <3>2, <3>3, <3>4 DEF LeadsOn
  <2> QED
    BY <2>4 DEF Promise!LeadsTo
<1>9. order' = Append(order, b) /\ succs' = succs
  BY DEF PostVisit
<1>10. /\ (IF kind = "pre" THEN << >> ELSE order)' = order'
       /\ (IF kind = "pre" THEN << >> ELSE order) = order
  BY DEF PostVisit
<1>11. \A i \in DOMAIN succs[b] :
         succs[b][i] \in Promise!Delivered \/ Promise!LeadsTo(succs[b][i], b)
  BY <1>8
<1> QED
  BY <1>5, <1>7, <1>9, <1>10, <1>11 DEF Promise!Deliver

\* Every step of the walker is a step of the promise, or none of its concern.
THEOREM PromiseKept == Spec => PostorderPromise
<1>1. Init => Promise!Init
  BY DEF Init, Promise!Init
<1>2. WalkInv /\ [Next]_vars
        => [Promise!Next]_<< succs, IF kind = "pre" THEN << >> ELSE order >>
  <2> SUFFICES ASSUME WalkInv, [Next]_vars
               PROVE  [Promise!Next]_<< succs, IF kind = "pre" THEN << >> ELSE order >>
    OBVIOUS
  <2>1. CASE WalkFunction
    <3>1. /\ succs' \in [Block -> Seq(Block)] /\ order' = << >>
      BY <2>1, WalkerAssumption DEF WalkInv, TypeInv, TypeOK, WalkFunction
    <3> QED
      BY <3>1 DEF Promise!Next, Promise!Begin
  <2>2. CASE PostVisit
    <3>1. CASE kind = "pre"
      BY <2>2, <3>1 DEF PostVisit
    <3>2. CASE kind # "pre"
      BY <2>2, <3>2, PostVisitDelivers DEF Promise!Next
    <3> QED
      BY <3>1, <3>2
  <2>3. CASE VisitNew
    BY <2>3 DEF VisitNew
  <2>4. CASE UNCHANGED << succs, order, kind >>
    BY <2>4
  <2> QED
    BY <2>1, <2>2, <2>3, <2>4
       DEF Next, Visit, VisitOld, Branch, Return, WalkDeclaration, Begin, Read, vars
<1> QED
  BY <1>1, <1>2, WalkInvariant, PTL DEF Spec, PostorderPromise, Promise!Spec

=============================================================================
