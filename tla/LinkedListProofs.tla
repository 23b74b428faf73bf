-------------------------- MODULE LinkedListProofs --------------------------
(***************************************************************************)
(* Proofs about LinkedList, for any sets of lists, nodes and values.       *)
(***************************************************************************)
EXTENDS LinkedList, FiniteSetTheorems, SequenceTheorems, WellFoundedInduction, TLAPS

\* Some sequence of nodes is what the ends and links of list l spell out.
Spelled(N, k, l) ==
  \E len \in Nat : \E s \in [1 .. len -> Node] : Represents(N, k, l, s, len)

\* The nodes in N are s[1] .. s[len], each of them once.
Each(N, s, len) ==
  /\ \A i \in 1 .. len : s[i] \in N /\ s[i] \in Node
  /\ \A x \in N : \E i \in 1 .. len : s[i] = x
  /\ \A i, j \in 1 .. len : s[i] = s[j] => i = j

\* Represents, with the set of nodes taken apart.
Spells(N, k, l, s, len) ==
  /\ len \in Nat
  /\ Each(N, s, len)
  /\ len = 0 => k.first[l] = Null /\ k.last[l] = Null
  /\ len # 0 => k.first[l] = s[1] /\ k.last[l] = s[len]
  /\ \A i \in 1 .. len : /\ k.next[s[i]] = IF i = len THEN Null ELSE s[i + 1]
                        /\ k.prev[s[i]] = IF i = 1 THEN Null ELSE s[i - 1]

\* t is s with n put in as its q-th, and s with its p-th taken out.
Put(s, t, len, q, n) ==
  \A i \in 1 .. len + 1 : t[i] = IF i < q THEN s[i] ELSE IF i = q THEN n ELSE s[i - 1]
Taken(s, t, len, p) == \A i \in 1 .. len - 1 : t[i] = IF i < p THEN s[i] ELSE s[i + 1]

\* With the links k2, list l spells out s and the new node n as its q-th.
Gets(N, k2, l, s, len, n, q) ==
  \E t \in [1 .. len + 1 -> Node] :
    Spells(N \cup {n}, k2, l, t, len + 1) /\ Put(s, t, len, q, n)

\* With the links k2, list l spells out s without its p-th node, n.
Loses(N, k2, l, s, len, n, p) ==
  \E t \in [1 .. len - 1 -> Node] :
    Spells(N \ {n}, k2, l, t, len - 1) /\ Taken(s, t, len, p)

\* k2 differs from k at most in the ends of l and in the links of the nodes in X.
Frame(k, k2, l, X) ==
  /\ k2 \in Links
  /\ \A m \in List \ {l} : k2.first[m] = k.first[m] /\ k2.last[m] = k.last[m]
  /\ \A x \in Node \ X : k2.next[x] = k.next[x] /\ k2.prev[x] = k.prev[x]

-----------------------------------------------------------------------------
(* The links *)

LEMMA SpellsApart ==
  ASSUME NEW k, NEW l, NEW N, Spelled(N, k, l)
  PROVE  \E len \in Nat : \E s \in [1 .. len -> Node] : Spells(N, k, l, s, len)
  <1>1. PICK len \in Nat : \E s \in [1 .. len -> Node] : Represents(N, k, l, s, len)
    BY DEF Spelled
  <1>2. PICK s \in [1 .. len -> Node] : Represents(N, k, l, s, len)
    BY <1>1
  <1>3. Spells(N, k, l, s, len)
    BY <1>2 DEF Represents, Spells, Each
  <1> QED
    BY <1>3

LEMMA SpellsTogether ==
  ASSUME NEW k, NEW l, NEW N, NEW len \in Nat, NEW s \in [1 .. len -> Node],
         Spells(N, k, l, s, len)
  PROVE  Spelled(N, k, l)
  <1>1. \A x : x \in N <=> x \in {s[i] : i \in 1 .. len}
    BY DEF Spells, Each
  <1>2. N = {s[i] : i \in 1 .. len}
    BY <1>1
  <1>3. Represents(N, k, l, s, len)
    BY <1>2 DEF Represents, Spells, Each
  <1> QED
    BY <1>3 DEF Spelled

\* What is outside a frame stays spelled out.
LEMMA FrameSpells ==
  ASSUME NEW k \in Links, NEW k2, NEW l \in List, NEW X, Frame(k, k2, l, X),
         NEW m \in List \ {l}, NEW M \in SUBSET Node, M \cap X = {},
         NEW len \in Nat, NEW s \in [1 .. len -> Node], Spells(M, k, m, s, len)
  PROVE  Spells(M, k2, m, s, len)
  <1>1. \A i \in 1 .. len : s[i] \in Node \ X
    BY DEF Spells, Each
  <1>2. \A i \in 1 .. len : k2.next[s[i]] = k.next[s[i]] /\ k2.prev[s[i]] = k.prev[s[i]]
    BY <1>1 DEF Frame
  <1>3. k2.first[m] = k.first[m] /\ k2.last[m] = k.last[m]
    BY DEF Frame
  <1>4. Each(M, s, len)
    BY DEF Spells
  <1> QED
    BY <1>2, <1>3, <1>4 DEF Spells

LEMMA FrameKeeps ==
  ASSUME NEW k \in Links, NEW k2, NEW l \in List, NEW X, Frame(k, k2, l, X),
         NEW m \in List \ {l}, NEW M \in SUBSET Node, M \cap X = {}, Spelled(M, k, m)
  PROVE  Spelled(M, k2, m)
  <1>1. PICK len \in Nat : \E s \in [1 .. len -> Node] : Spells(M, k, m, s, len)
    BY SpellsApart
  <1>2. PICK s \in [1 .. len -> Node] : Spells(M, k, m, s, len)
    BY <1>1
  <1>3. Spells(M, k2, m, s, len)
    BY <1>2, FrameSpells
  <1> QED
    BY <1>3, SpellsTogether

\* The ends of a list and the neighbours of its nodes are its nodes, or none.
LEMMA Neighbours ==
  ASSUME NEW k, NEW l, NEW N, NEW len, NEW s, Spells(N, k, l, s, len)
  PROVE  /\ k.first[l] \in N \cup {Null}
         /\ k.last[l] \in N \cup {Null}
         /\ \A x \in N : k.next[x] \in N \cup {Null} /\ k.prev[x] \in N \cup {Null}
  <1>1. k.first[l] \in N \cup {Null} /\ k.last[l] \in N \cup {Null}
    BY DEF Spells, Each
  <1>2. ASSUME NEW x \in N
        PROVE  k.next[x] \in N \cup {Null} /\ k.prev[x] \in N \cup {Null}
    <2>1. PICK i \in 1 .. len : s[i] = x
      BY DEF Spells, Each
    <2> QED
      BY <2>1 DEF Spells, Each
  <1> QED
    BY <1>1, <1>2

\* Where a sequence of the nodes in N, each once, gets n as its q-th.
LEMMA Inserted ==
  ASSUME NEW N, NEW n \in Node \ N, NEW len \in Nat, NEW s, NEW q \in 1 .. len + 1, NEW t,
         Each(N, s, len),
         \A i \in 1 .. len + 1 : t[i] = IF i < q THEN s[i] ELSE IF i = q THEN n ELSE s[i - 1]
  PROVE  Each(N \cup {n}, t, len + 1)
  <1>0. /\ \A i \in 1 .. len : s[i] \in N /\ s[i] \in Node
        /\ \A x \in N : \E i \in 1 .. len : s[i] = x
        /\ \A i, j \in 1 .. len : s[i] = s[j] => i = j
    BY DEF Each
  <1>1. \A i \in 1 .. len + 1 : t[i] \in N \cup {n} /\ t[i] \in Node
    BY <1>0
  <1>2. \A x \in N \cup {n} : \E i \in 1 .. len + 1 : t[i] = x
    <2>1. t[q] = n
      BY <1>0
    <2>2. \A i \in 1 .. len : \E j \in 1 .. len + 1 : t[j] = s[i]
      <3> TAKE i \in 1 .. len
      <3>1. i < q => t[i] = s[i] /\ i \in 1 .. len + 1
        BY <1>0
      <3>2. ~(i < q) => t[i + 1] = s[i] /\ i + 1 \in 1 .. len + 1
        BY <1>0
      <3> QED
        BY <3>1, <3>2
    <2> QED
      BY <2>1, <2>2, <1>0
  <1>3. \A i, j \in 1 .. len + 1 : t[i] = t[j] => i = j
    <2>1. \A i \in 1 .. len + 1 : t[i] = n <=> i = q
      BY <1>0
    <2>2. \A i \in 1 .. len + 1 : i < q => t[i] = s[i] /\ i \in 1 .. len
      BY <1>0
    <2>3. \A i \in 1 .. len + 1 : i > q => t[i] = s[i - 1] /\ i - 1 \in 1 .. len
      BY <1>0
    <2> TAKE i, j \in 1 .. len + 1
    <2> HAVE t[i] = t[j]
    <2>4. CASE i = q \/ j = q
      BY <2>1, <2>4, <1>0
    <2>5. CASE i < q /\ j < q
      BY <2>2, <2>5, <1>0
    <2>6. CASE i > q /\ j > q
      BY <2>3, <2>6, <1>0
    <2>7. CASE i < q /\ j > q
      BY <2>2, <2>3, <2>7, <1>0
    <2>8. CASE i > q /\ j < q
      BY <2>2, <2>3, <2>8, <1>0
    <2> QED
      BY <2>4, <2>5, <2>6, <2>7, <2>8
  <1> QED
    BY <1>1, <1>2, <1>3 DEF Each

LEMMA LinkBackSpells ==
  ASSUME NEW k \in Links, NEW l \in List, NEW N \in SUBSET Node,
         NEW n \in Node \ N,
         NEW len \in Nat, NEW s \in [1 .. len -> Node], Spells(N, k, l, s, len)
  PROVE  /\ Frame(k, LinkBack(k, l, n), l, N \cup {n})
         /\ Gets(N, LinkBack(k, l, n), l, s, len, n, len + 1)
  <1> DEFINE k2 == LinkBack(k, l, n)
             t == [i \in 1 .. len + 1 |-> IF i = len + 1 THEN n ELSE s[i]]
  <1>3. k.last[l] \in N \cup {Null}
    BY DEF Spells, Each
  <1>4. k2 \in Links
    BY <1>3 DEF LinkBack, Links, Set, SetEnd
  <1>5. \A x \in Node :
          /\ k2.next[x] = IF x = k.last[l] THEN n ELSE IF x = n THEN Null ELSE k.next[x]
          /\ k2.prev[x] = IF x = n THEN k.last[l] ELSE k.prev[x]
    BY <1>3, NullAssumption DEF LinkBack, Links, Set
  <1>6. \A m \in List :
          /\ k2.first[m] = IF m = l /\ k.last[l] = Null THEN n ELSE k.first[m]
          /\ k2.last[m] = IF m = l THEN n ELSE k.last[m]
    BY DEF LinkBack, Links, SetEnd
  <1>7. t \in [1 .. len + 1 -> Node] /\ len + 1 \in Nat
    OBVIOUS
  <1>8. \A i \in 1 .. len + 1 : t[i] = IF i = len + 1 THEN n ELSE s[i]
    OBVIOUS
  <1> HIDE DEF k2, t
  <1>9. Frame(k, k2, l, N \cup {n})
    BY <1>3, <1>4, <1>5, <1>6, NullAssumption DEF Frame
  <1>10. Spells(N \cup {n}, k2, l, t, len + 1)
    <2>1. Each(N \cup {n}, t, len + 1)
      <3>1. Each(N, s, len) /\ len + 1 \in 1 .. len + 1
        BY DEF Spells
      <3>2. \A i \in 1 .. len + 1 :
              t[i] = IF i < len + 1 THEN s[i] ELSE IF i = len + 1 THEN n ELSE s[i - 1]
        BY <1>8
      <3> QED
        BY <3>1, <3>2, Inserted, Zenon
    <2>4. k2.first[l] = t[1] /\ k2.last[l] = t[len + 1]
      BY <1>6, <1>8, NullAssumption DEF Spells, Each
    <2>5. \A i \in 1 .. len + 1 : /\ k2.next[t[i]] = IF i = len + 1 THEN Null ELSE t[i + 1]
                                  /\ k2.prev[t[i]] = IF i = 1 THEN Null ELSE t[i - 1]
      <3> TAKE i \in 1 .. len + 1
      <3>1. CASE i = len + 1
        <4>1. t[i] = n /\ n \in Node
          BY <3>1, <1>8
        <4>2. k.last[l] = IF len = 0 THEN Null ELSE s[len]
          BY DEF Spells, Each
        <4>3. k.last[l] # n
          BY <1>3, NullAssumption
        <4>4. len # 0 => t[len] = s[len]
          BY <1>8
        <4> QED
          BY <4>1, <4>2, <4>3, <4>4, <3>1, <1>5
      <3>2. CASE i # len + 1
        <4>1. i \in 1 .. len /\ len # 0 /\ t[i] = s[i] /\ s[i] # n /\ s[i] \in Node
          BY <3>2, <1>8 DEF Spells, Each
        <4>2. k.last[l] = s[len] /\ (s[i] = s[len] <=> i = len)
          BY <4>1 DEF Spells, Each
        <4>3. k2.next[t[i]] = IF i = len THEN n ELSE s[i + 1]
          BY <4>1, <4>2, <1>5 DEF Spells, Each
        <4>4. k2.prev[t[i]] = IF i = 1 THEN Null ELSE s[i - 1]
          BY <4>1, <1>5 DEF Spells, Each
        <4> QED
          BY <3>2, <4>1, <4>3, <4>4, <1>8
      <3> QED
        BY <3>1, <3>2
    <2>6. len + 1 \in Nat /\ len + 1 # 0
      OBVIOUS
    <2> QED
      BY <2>1, <2>4, <2>5, <2>6, Zenon DEF Spells
  <1>11. Put(s, t, len, len + 1, n)
    BY <1>8 DEF Put
  <1>12. Gets(N, k2, l, s, len, n, len + 1)
    BY <1>7, <1>10, <1>11, Zenon DEF Gets
  <1> QED
    BY <1>9, <1>12 DEF k2

LEMMA LinkBackKeeps ==
  ASSUME NEW k \in Links, NEW l \in List, NEW N \in SUBSET Node,
         NEW n \in Node \ N, Spelled(N, k, l)
  PROVE  /\ Frame(k, LinkBack(k, l, n), l, N \cup {n})
         /\ Spelled(N \cup {n}, LinkBack(k, l, n), l)
  <1>1. PICK len \in Nat : \E s \in [1 .. len -> Node] : Spells(N, k, l, s, len)
    BY SpellsApart
  <1>2. PICK s \in [1 .. len -> Node] : Spells(N, k, l, s, len)
    BY <1>1
  <1>3. /\ Frame(k, LinkBack(k, l, n), l, N \cup {n})
        /\ Gets(N, LinkBack(k, l, n), l, s, len, n, len + 1)
    BY <1>2, LinkBackSpells
  <1> QED
    BY <1>3, SpellsTogether DEF Gets

LEMMA LinkFrontSpells ==
  ASSUME NEW k \in Links, NEW l \in List, NEW N \in SUBSET Node,
         NEW n \in Node \ N,
         NEW len \in Nat, NEW s \in [1 .. len -> Node], Spells(N, k, l, s, len)
  PROVE  /\ Frame(k, LinkFront(k, l, n), l, N \cup {n})
         /\ Gets(N, LinkFront(k, l, n), l, s, len, n, 1)
  <1> DEFINE k2 == LinkFront(k, l, n)
             t == [i \in 1 .. len + 1 |-> IF i = 1 THEN n ELSE s[i - 1]]
  <1>3. k.first[l] \in N \cup {Null}
    BY Neighbours
  <1>4. k2 \in Links
    BY <1>3 DEF LinkFront, Links, Set, SetEnd
  <1>5. \A x \in Node :
          /\ k2.next[x] = IF x = n THEN k.first[l] ELSE k.next[x]
          /\ k2.prev[x] = IF x = k.first[l] THEN n ELSE IF x = n THEN Null ELSE k.prev[x]
    BY <1>3, NullAssumption DEF LinkFront, Links, Set
  <1>6. \A m \in List :
          /\ k2.first[m] = IF m = l THEN n ELSE k.first[m]
          /\ k2.last[m] = IF m = l /\ k.first[l] = Null THEN n ELSE k.last[m]
    BY DEF LinkFront, Links, SetEnd
  <1>7. t \in [1 .. len + 1 -> Node] /\ len + 1 \in Nat
    OBVIOUS
  <1>8. \A i \in 1 .. len + 1 : t[i] = IF i = 1 THEN n ELSE s[i - 1]
    OBVIOUS
  <1> HIDE DEF k2, t
  <1>9. Frame(k, k2, l, N \cup {n})
    BY <1>3, <1>4, <1>5, <1>6, NullAssumption DEF Frame
  <1>10. Spells(N \cup {n}, k2, l, t, len + 1)
    <2>1. Each(N \cup {n}, t, len + 1)
      <3>1. Each(N, s, len) /\ 1 \in 1 .. len + 1
        BY DEF Spells
      <3>2. \A i \in 1 .. len + 1 :
              t[i] = IF i < 1 THEN s[i] ELSE IF i = 1 THEN n ELSE s[i - 1]
        BY <1>8
      <3> QED
        BY <3>1, <3>2, Inserted, Zenon
    <2>4. k2.first[l] = t[1] /\ k2.last[l] = t[len + 1]
      BY <1>6, <1>8, NullAssumption DEF Spells, Each
    <2>5. \A i \in 1 .. len + 1 : /\ k2.next[t[i]] = IF i = len + 1 THEN Null ELSE t[i + 1]
                                  /\ k2.prev[t[i]] = IF i = 1 THEN Null ELSE t[i - 1]
      <3> TAKE i \in 1 .. len + 1
      <3>1. CASE i = 1
        <4>1. t[i] = n /\ n \in Node
          BY <3>1, <1>8
        <4>2. k.first[l] = IF len = 0 THEN Null ELSE s[1]
          BY DEF Spells, Each
        <4>3. k.first[l] # n
          BY <1>3, NullAssumption
        <4>4. len # 0 => t[2] = s[1]
          BY <1>8
        <4> QED
          BY <4>1, <4>2, <4>3, <4>4, <3>1, <1>5
      <3>2. CASE i # 1
        <4> DEFINE j == i - 1
        <4>1. j \in 1 .. len /\ len # 0 /\ t[i] = s[j] /\ s[j] # n /\ s[j] \in Node
          BY <3>2, <1>8 DEF Spells, Each
        <4>2. k.first[l] = s[1] /\ (s[j] = s[1] <=> j = 1)
          BY <4>1 DEF Spells, Each
        <4>3. k2.next[t[i]] = IF j = len THEN Null ELSE s[j + 1]
          BY <4>1, <1>5 DEF Spells, Each
        <4>4. k2.prev[t[i]] = IF j = 1 THEN n ELSE s[j - 1]
          BY <4>1, <4>2, <1>5 DEF Spells, Each
        <4> QED
          BY <3>2, <4>1, <4>3, <4>4, <1>8
      <3> QED
        BY <3>1, <3>2
    <2>6. len + 1 \in Nat /\ len + 1 # 0
      OBVIOUS
    <2> QED
      BY <2>1, <2>4, <2>5, <2>6, Zenon DEF Spells
  <1>11. Put(s, t, len, 1, n)
    BY <1>8 DEF Put
  <1>12. Gets(N, k2, l, s, len, n, 1)
    BY <1>7, <1>10, <1>11, Zenon DEF Gets
  <1> QED
    BY <1>9, <1>12 DEF k2

LEMMA LinkFrontKeeps ==
  ASSUME NEW k \in Links, NEW l \in List, NEW N \in SUBSET Node,
         NEW n \in Node \ N, Spelled(N, k, l)
  PROVE  /\ Frame(k, LinkFront(k, l, n), l, N \cup {n})
         /\ Spelled(N \cup {n}, LinkFront(k, l, n), l)
  <1>1. PICK len \in Nat : \E s \in [1 .. len -> Node] : Spells(N, k, l, s, len)
    BY SpellsApart
  <1>2. PICK s \in [1 .. len -> Node] : Spells(N, k, l, s, len)
    BY <1>1
  <1>3. /\ Frame(k, LinkFront(k, l, n), l, N \cup {n})
        /\ Gets(N, LinkFront(k, l, n), l, s, len, n, 1)
    BY <1>2, LinkFrontSpells
  <1> QED
    BY <1>3, SpellsTogether DEF Gets

LEMMA LinkBeforeSpells ==
  ASSUME NEW k \in Links, NEW l \in List, NEW N \in SUBSET Node,
         NEW n \in Node \ N, NEW pos \in N,
         NEW len \in Nat, NEW s \in [1 .. len -> Node], Spells(N, k, l, s, len)
  PROVE  /\ Frame(k, LinkBefore(k, l, n, pos), l, N \cup {n})
         /\ \E p \in 1 .. len : s[p] = pos /\ Gets(N, LinkBefore(k, l, n, pos), l, s, len, n, p)
  <1>p. PICK p \in 1 .. len : s[p] = pos
    BY DEF Spells, Each
  <1> DEFINE k2 == LinkBefore(k, l, n, pos)
             before == k.prev[pos]
             t == [i \in 1 .. len + 1 |->
                     IF i < p THEN s[i] ELSE IF i = p THEN n ELSE s[i - 1]]
  <1>3. before \in N \cup {Null} /\ before # n /\ pos # n
    BY Neighbours, NullAssumption
  <1>b. before = IF p = 1 THEN Null ELSE s[p - 1]
    BY <1>p DEF Spells, Each
  <1>4. k2 \in Links
    BY <1>3 DEF LinkBefore, Links, Set, SetEnd
  <1>5. \A x \in Node :
          /\ k2.next[x] = IF x = before THEN n ELSE IF x = n THEN pos ELSE k.next[x]
          /\ k2.prev[x] = IF x = pos THEN n ELSE IF x = n THEN before ELSE k.prev[x]
    BY <1>3, NullAssumption DEF LinkBefore, Links, Set
  <1>6. \A m \in List :
          /\ k2.first[m] = IF m = l /\ before = Null THEN n ELSE k.first[m]
          /\ k2.last[m] = k.last[m]
    BY DEF LinkBefore, Links, SetEnd
  <1>7. t \in [1 .. len + 1 -> Node] /\ len + 1 \in Nat
    OBVIOUS
  <1>8. \A i \in 1 .. len + 1 : t[i] = IF i < p THEN s[i] ELSE IF i = p THEN n ELSE s[i - 1]
    OBVIOUS
  <1> HIDE DEF k2, t, before
  <1>9. Frame(k, k2, l, N \cup {n})
    BY <1>3, <1>4, <1>5, <1>6, NullAssumption DEF Frame
  <1>10. Spells(N \cup {n}, k2, l, t, len + 1)
    <2>1. Each(N \cup {n}, t, len + 1)
      <3>1. Each(N, s, len) /\ p \in 1 .. len + 1
        BY DEF Spells
      <3> QED
        BY <1>8, <3>1, Inserted, Zenon
    <2>4. k2.first[l] = t[1] /\ k2.last[l] = t[len + 1]
      BY <1>3, <1>b, <1>6, <1>8, NullAssumption DEF Spells, Each
    <2>5. \A i \in 1 .. len + 1 : /\ k2.next[t[i]] = IF i = len + 1 THEN Null ELSE t[i + 1]
                                  /\ k2.prev[t[i]] = IF i = 1 THEN Null ELSE t[i - 1]
      <3> TAKE i \in 1 .. len + 1
      <3>1. CASE i < p
        <4>1. i \in 1 .. len /\ t[i] = s[i] /\ s[i] # n /\ s[i] # pos /\ s[i] \in Node
          BY <3>1, <1>p, <1>8 DEF Spells, Each
        <4>2. s[i] = before <=> i + 1 = p
          <5>1. p - 1 \in 1 .. len /\ before = s[p - 1]
            BY <3>1, <1>b
          <5>2. s[i] = s[p - 1] => i = p - 1
            BY <4>1, <5>1 DEF Spells, Each
          <5> QED
            BY <4>1, <5>1, <5>2
        <4>3. k2.next[t[i]] = IF i + 1 = p THEN n ELSE s[i + 1]
          BY <3>1, <4>1, <4>2, <1>5 DEF Spells, Each
        <4>4. k2.prev[t[i]] = IF i = 1 THEN Null ELSE s[i - 1]
          <5>1. k.prev[s[i]] = IF i = 1 THEN Null ELSE s[i - 1]
            BY <4>1 DEF Spells
          <5>2. k2.prev[s[i]] = k.prev[s[i]]
            BY <4>1, <1>5
          <5> QED
            BY <4>1, <5>1, <5>2
        <4> QED
          BY <3>1, <4>1, <4>3, <4>4, <1>8
      <3>2. CASE i = p
        <4>1. t[i] = n /\ t[i + 1] = pos
          BY <3>2, <1>p, <1>8
        <4>2. i # 1 => t[i - 1] = before
          BY <3>2, <1>b, <1>8
        <4> QED
          BY <3>2, <4>1, <4>2, <1>3, <1>b, <1>5
      <3>3. CASE i > p
        <4> DEFINE j == i - 1
        <4>1. j \in 1 .. len /\ t[i] = s[j] /\ s[j] # n /\ s[j] \in Node
          BY <3>3, <1>8 DEF Spells, Each
        <4>2. s[j] # before /\ (s[j] = pos <=> j = p)
          BY <3>3, <4>1, <1>b, <1>p, NullAssumption DEF Spells, Each
        <4>3. k2.next[t[i]] = IF j = len THEN Null ELSE s[j + 1]
          BY <4>1, <4>2, <1>5 DEF Spells, Each
        <4>4. k2.prev[t[i]] = IF j = p THEN n ELSE s[j - 1]
          BY <3>3, <4>1, <4>2, <1>5 DEF Spells, Each
        <4> QED
          BY <3>3, <4>1, <4>3, <4>4, <1>8
      <3> QED
        BY <3>1, <3>2, <3>3
    <2> QED
      BY <1>7, <2>1, <2>4, <2>5 DEF Spells, Each
  <1>11. Put(s, t, len, p, n)
    BY <1>8 DEF Put
  <1>12. Gets(N, k2, l, s, len, n, p)
    BY <1>7, <1>10, <1>11, Zenon DEF Gets
  <1> QED
    BY <1>9, <1>12, <1>p DEF k2

LEMMA LinkBeforeKeeps ==
  ASSUME NEW k \in Links, NEW l \in List, NEW N \in SUBSET Node,
         NEW n \in Node \ N, NEW pos \in N, Spelled(N, k, l)
  PROVE  /\ Frame(k, LinkBefore(k, l, n, pos), l, N \cup {n})
         /\ Spelled(N \cup {n}, LinkBefore(k, l, n, pos), l)
  <1>1. PICK len \in Nat : \E s \in [1 .. len -> Node] : Spells(N, k, l, s, len)
    BY SpellsApart
  <1>2. PICK s \in [1 .. len -> Node] : Spells(N, k, l, s, len)
    BY <1>1
  <1>3. /\ Frame(k, LinkBefore(k, l, n, pos), l, N \cup {n})
        /\ \E p \in 1 .. len : s[p] = pos /\ Gets(N, LinkBefore(k, l, n, pos), l, s, len, n, p)
    BY <1>2, LinkBeforeSpells
  <1> QED
    BY <1>3, SpellsTogether DEF Gets

LEMMA LinkAfterSpells ==
  ASSUME NEW k \in Links, NEW l \in List, NEW N \in SUBSET Node,
         NEW n \in Node \ N, NEW pos \in N,
         NEW len \in Nat, NEW s \in [1 .. len -> Node], Spells(N, k, l, s, len)
  PROVE  /\ Frame(k, LinkAfter(k, l, n, pos), l, N \cup {n})
         /\ \E p \in 1 .. len : s[p] = pos /\ Gets(N, LinkAfter(k, l, n, pos), l, s, len, n, p + 1)
  <1>p. PICK p \in 1 .. len : s[p] = pos
    BY DEF Spells, Each
  <1> DEFINE k2 == LinkAfter(k, l, n, pos)
             after == k.next[pos]
             t == [i \in 1 .. len + 1 |->
                     IF i < p + 1 THEN s[i] ELSE IF i = p + 1 THEN n ELSE s[i - 1]]
  <1>3. after \in N \cup {Null} /\ after # n /\ pos # n
    BY Neighbours, NullAssumption
  <1>b. after = IF p = len THEN Null ELSE s[p + 1]
    BY <1>p DEF Spells, Each
  <1>4. k2 \in Links
    BY <1>3 DEF LinkAfter, Links, Set, SetEnd
  <1>5. \A x \in Node :
          /\ k2.next[x] = IF x = pos THEN n ELSE IF x = n THEN after ELSE k.next[x]
          /\ k2.prev[x] = IF x = after THEN n ELSE IF x = n THEN pos ELSE k.prev[x]
    BY <1>3, NullAssumption DEF LinkAfter, Links, Set
  <1>6. \A m \in List :
          /\ k2.first[m] = k.first[m]
          /\ k2.last[m] = IF m = l /\ after = Null THEN n ELSE k.last[m]
    BY DEF LinkAfter, Links, SetEnd
  <1>7. t \in [1 .. len + 1 -> Node] /\ len + 1 \in Nat
    OBVIOUS
  <1>8. \A i \in 1 .. len + 1 :
          t[i] = IF i < p + 1 THEN s[i] ELSE IF i = p + 1 THEN n ELSE s[i - 1]
    OBVIOUS
  <1> HIDE DEF k2, t, after
  <1>9. Frame(k, k2, l, N \cup {n})
    BY <1>3, <1>4, <1>5, <1>6, NullAssumption DEF Frame
  <1>10. Spells(N \cup {n}, k2, l, t, len + 1)
    <2>1. Each(N \cup {n}, t, len + 1)
      <3>1. Each(N, s, len) /\ p + 1 \in 1 .. len + 1
        BY DEF Spells
      <3> QED
        BY <1>8, <3>1, Inserted, Zenon
    <2>4. k2.first[l] = t[1] /\ k2.last[l] = t[len + 1]
      BY <1>3, <1>b, <1>6, <1>8, NullAssumption DEF Spells, Each
    <2>5. \A i \in 1 .. len + 1 : /\ k2.next[t[i]] = IF i = len + 1 THEN Null ELSE t[i + 1]
                                  /\ k2.prev[t[i]] = IF i = 1 THEN Null ELSE t[i - 1]
      <3> TAKE i \in 1 .. len + 1
      <3>1. CASE i < p + 1
        <4>1. i \in 1 .. len /\ t[i] = s[i] /\ s[i] # n /\ s[i] \in Node
          BY <3>1, <1>8 DEF Spells, Each
        <4>2. s[i] # after /\ (s[i] = pos <=> i = p)
          BY <3>1, <4>1, <1>b, <1>p, NullAssumption DEF Spells, Each
        <4>3. k2.next[t[i]] = IF i = p THEN n ELSE IF i = len THEN Null ELSE s[i + 1]
          BY <4>1, <4>2, <1>5 DEF Spells, Each
        <4>4. k2.prev[t[i]] = IF i = 1 THEN Null ELSE s[i - 1]
          BY <4>1, <4>2, <1>5 DEF Spells, Each
        <4> QED
          BY <3>1, <4>1, <4>3, <4>4, <1>8
      <3>2. CASE i = p + 1
        <4>1. t[i] = n /\ t[i - 1] = pos
          BY <3>2, <1>p, <1>8
        <4>2. i # len + 1 => t[i + 1] = after
          BY <3>2, <1>b, <1>8
        <4> QED
          BY <3>2, <4>1, <4>2, <1>3, <1>b, <1>5
      <3>3. CASE i > p + 1
        <4> DEFINE j == i - 1
        <4>0. j \in 1 .. len /\ t[i] = s[j] /\ j # p
          BY <3>3, <1>8
        <4>1. j \in 1 .. len /\ t[i] = s[j] /\ s[j] # n /\ s[j] # pos /\ s[j] \in Node
          <5> HIDE DEF j
          <5> QED
            BY <4>0, <1>p DEF Spells, Each
        <4>2. s[j] = after <=> j = p + 1
          <5>1. p + 1 \in 1 .. len /\ after = s[p + 1]
            BY <3>3, <1>b
          <5>2. s[j] = s[p + 1] => j = p + 1
            BY <4>1, <5>1 DEF Spells, Each
          <5> QED
            BY <4>1, <5>1, <5>2
        <4>3. k2.next[t[i]] = IF j = len THEN Null ELSE s[j + 1]
          BY <4>1, <1>5 DEF Spells, Each
        <4>4. k2.prev[t[i]] = IF j = p + 1 THEN n ELSE s[j - 1]
          BY <3>3, <4>1, <4>2, <1>5 DEF Spells, Each
        <4> QED
          BY <3>3, <4>1, <4>3, <4>4, <1>8
      <3> QED
        BY <3>1, <3>2, <3>3
    <2> QED
      BY <1>7, <2>1, <2>4, <2>5 DEF Spells, Each
  <1>11. Put(s, t, len, p + 1, n)
    BY <1>8 DEF Put
  <1>12. Gets(N, k2, l, s, len, n, p + 1)
    BY <1>7, <1>10, <1>11, Zenon DEF Gets
  <1> QED
    BY <1>9, <1>12, <1>p DEF k2

LEMMA LinkAfterKeeps ==
  ASSUME NEW k \in Links, NEW l \in List, NEW N \in SUBSET Node,
         NEW n \in Node \ N, NEW pos \in N, Spelled(N, k, l)
  PROVE  /\ Frame(k, LinkAfter(k, l, n, pos), l, N \cup {n})
         /\ Spelled(N \cup {n}, LinkAfter(k, l, n, pos), l)
  <1>1. PICK len \in Nat : \E s \in [1 .. len -> Node] : Spells(N, k, l, s, len)
    BY SpellsApart
  <1>2. PICK s \in [1 .. len -> Node] : Spells(N, k, l, s, len)
    BY <1>1
  <1>3. /\ Frame(k, LinkAfter(k, l, n, pos), l, N \cup {n})
        /\ \E p \in 1 .. len : s[p] = pos /\ Gets(N, LinkAfter(k, l, n, pos), l, s, len, n, p + 1)
    BY <1>2, LinkAfterSpells
  <1> QED
    BY <1>3, SpellsTogether DEF Gets

LEMMA UnlinkSpells ==
  ASSUME NEW k \in Links, NEW l \in List, NEW N \in SUBSET Node, NEW n \in N,
         NEW len \in Nat, NEW s \in [1 .. len -> Node], Spells(N, k, l, s, len)
  PROVE  /\ Frame(k, Unlink(k, l, n), l, N)
         /\ \E p \in 1 .. len : s[p] = n /\ Loses(N, Unlink(k, l, n), l, s, len, n, p)
  <1>p. PICK p \in 1 .. len : s[p] = n
    BY DEF Spells, Each
  <1> DEFINE k2 == Unlink(k, l, n)
             before == k.prev[n]
             after == k.next[n]
             t == [i \in 1 .. len - 1 |-> IF i < p THEN s[i] ELSE s[i + 1]]
  <1>3. before \in N \cup {Null} /\ after \in N \cup {Null}
    BY Neighbours
  <1>b. /\ before = IF p = 1 THEN Null ELSE s[p - 1]
        /\ after = IF p = len THEN Null ELSE s[p + 1]
    BY <1>p DEF Spells, Each
  <1>4. k2 \in Links
    BY <1>3 DEF Unlink, Links, Set, SetEnd
  <1>5. \A x \in Node :
          /\ k2.next[x] = IF x = before THEN after ELSE k.next[x]
          /\ k2.prev[x] = IF x = after THEN before ELSE k.prev[x]
    BY <1>3, NullAssumption DEF Unlink, Links, Set
  <1>6. \A m \in List :
          /\ k2.first[m] = IF m = l /\ before = Null THEN after ELSE k.first[m]
          /\ k2.last[m] = IF m = l /\ after = Null THEN before ELSE k.last[m]
    BY DEF Unlink, Links, SetEnd
  <1>7. t \in [1 .. len - 1 -> Node] /\ len - 1 \in Nat
    OBVIOUS
  <1>8. \A i \in 1 .. len - 1 : t[i] = IF i < p THEN s[i] ELSE s[i + 1]
    OBVIOUS
  <1> HIDE DEF k2, t, before, after
  <1>9. Frame(k, k2, l, N)
    BY <1>3, <1>4, <1>5, <1>6, NullAssumption DEF Frame
  <1>n. len # 0
    OBVIOUS
  <1>0. /\ \A i \in 1 .. len : s[i] \in N /\ s[i] \in Node
        /\ \A x \in N : \E i \in 1 .. len : s[i] = x
        /\ \A i, j \in 1 .. len : s[i] = s[j] => i = j
        /\ \A i \in 1 .. len : /\ k.next[s[i]] = IF i = len THEN Null ELSE s[i + 1]
                              /\ k.prev[s[i]] = IF i = 1 THEN Null ELSE s[i - 1]
        /\ k.first[l] = s[1] /\ k.last[l] = s[len]
    <2>1. Each(N, s, len)
      BY DEF Spells
    <2>2. /\ \A i \in 1 .. len : s[i] \in N /\ s[i] \in Node
          /\ \A x \in N : \E i \in 1 .. len : s[i] = x
          /\ \A i, j \in 1 .. len : s[i] = s[j] => i = j
      BY <2>1 DEF Each
    <2>3. \A i \in 1 .. len : /\ k.next[s[i]] = IF i = len THEN Null ELSE s[i + 1]
                              /\ k.prev[s[i]] = IF i = 1 THEN Null ELSE s[i - 1]
      BY DEF Spells
    <2>4. k.first[l] = s[1] /\ k.last[l] = s[len]
      BY <1>n DEF Spells
    <2> QED
      BY <2>2, <2>3, <2>4
  <1>10. Spells(N \ {n}, k2, l, t, len - 1)
    <2>1. \A i \in 1 .. len - 1 : t[i] \in N \ {n} /\ t[i] \in Node
      BY <1>0, <1>p, <1>8
    <2>2. \A x \in N \ {n} : \E i \in 1 .. len - 1 : t[i] = x
      <3> TAKE x \in N \ {n}
      <3>1. PICK j \in 1 .. len : s[j] = x
        BY <1>0
      <3>2. CASE j < p
        BY <3>1, <3>2, <1>8
      <3>3. CASE j > p
        <4>1. t[j - 1] = x /\ j - 1 \in 1 .. len - 1
          BY <3>1, <3>3, <1>8
        <4> QED
          BY <4>1
      <3> QED
        BY <3>1, <3>2, <3>3, <1>p
    <2>3. \A i, j \in 1 .. len - 1 : t[i] = t[j] => i = j
      <3>1. \A i \in 1 .. len - 1 : i < p => t[i] = s[i] /\ i \in 1 .. len
        BY <1>8
      <3>2. \A i \in 1 .. len - 1 : ~(i < p) => t[i] = s[i + 1] /\ i + 1 \in 1 .. len
        BY <1>8
      <3> TAKE i, j \in 1 .. len - 1
      <3> HAVE t[i] = t[j]
      <3>3. CASE i < p /\ j < p
        BY <3>1, <3>3, <1>0
      <3>4. CASE ~(i < p) /\ ~(j < p)
        BY <3>2, <3>4, <1>0
      <3>5. CASE i < p /\ ~(j < p)
        BY <3>1, <3>2, <3>5, <1>0
      <3>6. CASE ~(i < p) /\ j < p
        BY <3>1, <3>2, <3>6, <1>0
      <3> QED
        BY <3>3, <3>4, <3>5, <3>6
    <2>4. /\ len - 1 = 0 => k2.first[l] = Null /\ k2.last[l] = Null
          /\ len - 1 # 0 => k2.first[l] = t[1] /\ k2.last[l] = t[len - 1]
      <3>1. before = Null <=> p = 1
        BY <1>0, <1>b, NullAssumption
      <3>2. after = Null <=> p = len
        BY <1>0, <1>b, NullAssumption
      <3>3. /\ k2.first[l] = IF p = 1 THEN after ELSE s[1]
            /\ k2.last[l] = IF p = len THEN before ELSE s[len]
        BY <1>0, <1>6, <3>1, <3>2
      <3>4. CASE len - 1 = 0
        BY <1>b, <3>3, <3>4
      <3>5. CASE len - 1 # 0
        <4>1. 1 \in 1 .. len - 1 /\ len - 1 \in 1 .. len - 1 /\ (len - 1) + 1 = len
          BY <3>5
        <4>2. t[1] = IF 1 < p THEN s[1] ELSE s[1 + 1]
          BY <1>8, <4>1
        <4>3. t[len - 1] = IF len - 1 < p THEN s[len - 1] ELSE s[len]
          BY <1>8, <4>1
        <4>4. k2.first[l] = t[1]
          BY <1>b, <3>3, <3>5, <4>2
        <4>5. k2.last[l] = t[len - 1]
          BY <1>b, <3>3, <3>5, <4>3
        <4> QED
          BY <3>5, <4>4, <4>5
      <3> QED
        BY <3>4, <3>5
    <2>5. \A i \in 1 .. len - 1 : /\ k2.next[t[i]] = IF i = len - 1 THEN Null ELSE t[i + 1]
                                  /\ k2.prev[t[i]] = IF i = 1 THEN Null ELSE t[i - 1]
      <3> TAKE i \in 1 .. len - 1
      <3>1. CASE i < p
        <4>1. i \in 1 .. len /\ t[i] = s[i] /\ s[i] \in Node
          BY <3>1, <1>0, <1>8
        <4>2. s[i] # after
          BY SMTT(30), <3>1, <4>1, <1>0, <1>b, NullAssumption
        <4>3. s[i] = before <=> i + 1 = p
          <5>1. p - 1 \in 1 .. len /\ before = s[p - 1]
            BY <3>1, <1>b
          <5>2. s[i] = s[p - 1] => i = p - 1
            BY <4>1, <5>1, <1>0
          <5> QED
            BY <4>1, <5>1, <5>2
        <4>4. k2.next[t[i]] = IF i + 1 = p THEN after ELSE s[i + 1]
          <5>1. k2.next[s[i]] = IF s[i] = before THEN after ELSE k.next[s[i]]
            BY <4>1, <1>5
          <5>2. k.next[s[i]] = s[i + 1]
            BY <3>1, <4>1, <1>0
          <5> QED
            BY <4>1, <4>3, <5>1, <5>2
        <4>5. k2.prev[t[i]] = IF i = 1 THEN Null ELSE s[i - 1]
          <5>1. k2.prev[s[i]] = k.prev[s[i]]
            BY <4>1, <4>2, <1>5
          <5> QED
            BY <4>1, <5>1, <1>0
        <4> QED
          BY <3>1, <4>4, <4>5, <1>8, <1>b
      <3>2. CASE ~(i < p)
        <4> DEFINE j == i + 1
        <4>1. j \in 1 .. len /\ t[i] = s[j] /\ s[j] \in Node
          BY <3>2, <1>0, <1>8
        <4>2. s[j] # before
          BY <3>2, <4>1, <1>0, <1>b, NullAssumption
        <4>3. s[j] = after <=> j = p + 1
          <5>1. p + 1 \in 1 .. len /\ after = s[p + 1]
            BY <3>2, <1>b
          <5>2. s[j] = s[p + 1] => j = p + 1
            BY <4>1, <5>1, <1>0
          <5> QED
            BY <4>1, <5>1, <5>2
        <4>4. k2.next[t[i]] = IF j = len THEN Null ELSE s[j + 1]
          <5>1. k2.next[s[j]] = k.next[s[j]]
            BY <4>1, <4>2, <1>5
          <5> QED
            BY <4>1, <5>1, <1>0
        <4>5. k2.prev[t[i]] = IF j = p + 1 THEN before ELSE s[j - 1]
          <5>1. k2.prev[s[j]] = IF s[j] = after THEN before ELSE k.prev[s[j]]
            BY <4>1, <1>5
          <5>2. k.prev[s[j]] = s[j - 1]
            BY <3>2, <4>1, <1>0
          <5> QED
            BY <4>1, <4>3, <5>1, <5>2
        <4> QED
          BY <3>2, <4>4, <4>5, <1>8, <1>b
      <3> QED
        BY <3>1, <3>2
    <2> QED
      BY <1>7, <2>1, <2>2, <2>3, <2>4, <2>5 DEF Spells, Each
  <1>11. Taken(s, t, len, p)
    BY <1>8 DEF Taken
  <1>12. Loses(N, k2, l, s, len, n, p)
    BY <1>7, <1>10, <1>11, Zenon DEF Loses
  <1> QED
    BY <1>9, <1>12, <1>p DEF k2

LEMMA UnlinkKeeps ==
  ASSUME NEW k \in Links, NEW l \in List, NEW N \in SUBSET Node, NEW n \in N, Spelled(N, k, l)
  PROVE  /\ Frame(k, Unlink(k, l, n), l, N)
         /\ Spelled(N \ {n}, Unlink(k, l, n), l)
  <1>1. PICK len \in Nat : \E s \in [1 .. len -> Node] : Spells(N, k, l, s, len)
    BY SpellsApart
  <1>2. PICK s \in [1 .. len -> Node] : Spells(N, k, l, s, len)
    BY <1>1
  <1>3. /\ Frame(k, Unlink(k, l, n), l, N)
        /\ \E p \in 1 .. len : s[p] = n /\ Loses(N, Unlink(k, l, n), l, s, len, n, p)
    BY <1>2, UnlinkSpells
  <1>4. len # 0
    BY <1>2 DEF Spells, Each
  <1>5. len - 1 \in Nat
    BY <1>4
  <1> QED
    BY <1>3, <1>5, SpellsTogether DEF Loses

\* t is s with its p-th and its q-th node exchanged.
Exchange(s, t, len, p, q) ==
  \A i \in 1 .. len : t[i] = IF i = p THEN s[q] ELSE IF i = q THEN s[p] ELSE s[i]

\* With the links k2, list l spells out s with two nodes exchanged.
Turns(N, k2, l, s, len, p, q) ==
  \E t \in [1 .. len -> Node] : Spells(N, k2, l, t, len) /\ Exchange(s, t, len, p, q)

\* Where two of the nodes of a sequence, each in it once, change places.
LEMMA Exchanged ==
  ASSUME NEW N, NEW len \in Nat, NEW s, NEW t, NEW p \in 1 .. len, NEW q \in 1 .. len,
         Each(N, s, len), Exchange(s, t, len, p, q)
  PROVE  Each(N, t, len)
  <1>0. /\ \A i \in 1 .. len : s[i] \in N /\ s[i] \in Node
        /\ \A x \in N : \E i \in 1 .. len : s[i] = x
        /\ \A i, j \in 1 .. len : s[i] = s[j] => i = j
    BY DEF Each
  <1> DEFINE from(i) == IF i = p THEN q ELSE IF i = q THEN p ELSE i
  <1>1. \A i \in 1 .. len : from(i) \in 1 .. len /\ t[i] = s[from(i)] /\ t[from(i)] = s[i]
    BY <1>0 DEF Exchange
  <1>2. \A i, j \in 1 .. len : from(i) = from(j) => i = j
    OBVIOUS
  <1> HIDE DEF from
  <1>3. \A i \in 1 .. len : t[i] \in N /\ t[i] \in Node
    BY <1>0, <1>1
  <1>4. \A x \in N : \E i \in 1 .. len : t[i] = x
    BY <1>0, <1>1
  <1>5. \A i, j \in 1 .. len : t[i] = t[j] => i = j
    BY <1>0, <1>1, <1>2
  <1> QED
    BY <1>3, <1>4, <1>5 DEF Each

LEMMA SwapAdjacentSpells ==
  ASSUME NEW k \in Links, NEW l \in List, NEW N \in SUBSET Node,
         NEW a \in N, NEW b \in N, a # b, k.next[a] = b,
         NEW len \in Nat, NEW s \in [1 .. len -> Node], Spells(N, k, l, s, len)
  PROVE  /\ Frame(k, SwapAdjacent(k, l, a, b), l, N)
         /\ \E p, q \in 1 .. len :
              s[p] = a /\ s[q] = b /\ Turns(N, SwapAdjacent(k, l, a, b), l, s, len, p, q)
  <1>p. PICK p \in 1 .. len : s[p] = a
    BY DEF Spells, Each
  <1>n. len # 0
    OBVIOUS
  <1>0. /\ \A i \in 1 .. len : s[i] \in N /\ s[i] \in Node
        /\ \A i, j \in 1 .. len : s[i] = s[j] => i = j
        /\ \A i \in 1 .. len : /\ k.next[s[i]] = IF i = len THEN Null ELSE s[i + 1]
                              /\ k.prev[s[i]] = IF i = 1 THEN Null ELSE s[i - 1]
        /\ k.first[l] = s[1] /\ k.last[l] = s[len]
    <2>1. Each(N, s, len)
      BY DEF Spells
    <2>2. /\ \A i \in 1 .. len : s[i] \in N /\ s[i] \in Node
          /\ \A x \in N : \E i \in 1 .. len : s[i] = x
          /\ \A i, j \in 1 .. len : s[i] = s[j] => i = j
      BY <2>1 DEF Each
    <2>3. \A i \in 1 .. len : /\ k.next[s[i]] = IF i = len THEN Null ELSE s[i + 1]
                              /\ k.prev[s[i]] = IF i = 1 THEN Null ELSE s[i - 1]
      BY DEF Spells
    <2>4. k.first[l] = s[1] /\ k.last[l] = s[len]
      BY <1>n DEF Spells
    <2> QED
      BY <2>2, <2>3, <2>4
  <1>q. p + 1 \in 1 .. len /\ s[p + 1] = b
    BY <1>0, <1>p, NullAssumption
  <1> DEFINE k2 == SwapAdjacent(k, l, a, b)
             before == k.prev[a]
             after == k.next[b]
             t == [i \in 1 .. len |-> IF i = p THEN s[p + 1] ELSE IF i = p + 1 THEN s[p] ELSE s[i]]
  <1>3. before \in N \cup {Null} /\ after \in N \cup {Null}
    BY Neighbours
  <1>b. /\ before = IF p = 1 THEN Null ELSE s[p - 1]
        /\ after = IF p + 1 = len THEN Null ELSE s[p + 2]
    BY <1>0, <1>p, <1>q
  <1>4. k2 \in Links
    <2>1. /\ k.next \in [Node -> Node \cup {Null}] /\ k.prev \in [Node -> Node \cup {Null}]
          /\ k.first \in [List -> Node \cup {Null}] /\ k.last \in [List -> Node \cup {Null}]
      BY DEF Links
    <2>2. [k.next EXCEPT ![b] = a, ![a] = after] \in [Node -> Node \cup {Null}]
      BY <1>3, <2>1
    <2>3. [k.prev EXCEPT ![b] = before, ![a] = b] \in [Node -> Node \cup {Null}]
      BY <1>3, <2>1
    <2>4. /\ Set([k.next EXCEPT ![b] = a, ![a] = after], before, b) \in [Node -> Node \cup {Null}]
          /\ Set([k.prev EXCEPT ![b] = before, ![a] = b], after, a) \in [Node -> Node \cup {Null}]
      BY <1>3, <2>2, <2>3 DEF Set
    <2>5. /\ SetEnd(k.first, l, before, b) \in [List -> Node \cup {Null}]
          /\ SetEnd(k.last, l, after, a) \in [List -> Node \cup {Null}]
      BY <1>3, <2>1 DEF SetEnd
    <2> QED
      BY <2>4, <2>5 DEF SwapAdjacent, Links
  <1>5. \A x \in Node :
          /\ k2.next[x] = IF x = before THEN b ELSE IF x = a THEN after
                          ELSE IF x = b THEN a ELSE k.next[x]
          /\ k2.prev[x] = IF x = after THEN a ELSE IF x = a THEN b
                          ELSE IF x = b THEN before ELSE k.prev[x]
    <2>1. /\ k2.next = Set([k.next EXCEPT ![b] = a, ![a] = after], before, b)
          /\ k2.prev = Set([k.prev EXCEPT ![b] = before, ![a] = b], after, a)
      BY DEF SwapAdjacent
    <2>2. k.next \in [Node -> Node \cup {Null}] /\ k.prev \in [Node -> Node \cup {Null}]
      BY DEF Links
    <2> HIDE DEF k2, before, after
    <2>3. \A x \in Node : k2.next[x] = IF x = before THEN b ELSE IF x = a THEN after
                                       ELSE IF x = b THEN a ELSE k.next[x]
      BY <1>3, <2>1, <2>2, NullAssumption DEF Set
    <2>4. \A x \in Node : k2.prev[x] = IF x = after THEN a ELSE IF x = a THEN b
                                       ELSE IF x = b THEN before ELSE k.prev[x]
      BY <1>3, <2>1, <2>2, NullAssumption DEF Set
    <2> QED
      BY <2>3, <2>4
  <1>6. \A m \in List :
          /\ k2.first[m] = IF m = l /\ before = Null THEN b ELSE k.first[m]
          /\ k2.last[m] = IF m = l /\ after = Null THEN a ELSE k.last[m]
    BY DEF SwapAdjacent, Links, SetEnd
  <1>7. t \in [1 .. len -> Node]
    BY <1>q
  <1>8. \A i \in 1 .. len :
          t[i] = IF i = p THEN s[p + 1] ELSE IF i = p + 1 THEN s[p] ELSE s[i]
    OBVIOUS
  <1> HIDE DEF k2, t, before, after
  <1>9. Frame(k, k2, l, N)
    BY <1>3, <1>4, <1>5, <1>6, NullAssumption DEF Frame
  <1>i. \A i \in 1 .. len : /\ (s[i] = a <=> i = p)
                          /\ (s[i] = b <=> i = p + 1)
                          /\ (s[i] = before <=> i = p - 1)
                          /\ (s[i] = after <=> i = p + 2)
    <2> TAKE i \in 1 .. len
    <2>1. (s[i] = a <=> i = p) /\ (s[i] = b <=> i = p + 1)
      BY <1>0, <1>p, <1>q
    <2>2. s[i] = before <=> i = p - 1
      <3>1. CASE p = 1
        BY <3>1, <1>b, <1>0, NullAssumption
      <3>2. CASE p # 1
        <4>1. p - 1 \in 1 .. len /\ before = s[p - 1]
          BY <3>2, <1>b
        <4> QED
          BY <4>1, <1>0
      <3> QED
        BY <3>1, <3>2
    <2>3. s[i] = after <=> i = p + 2
      <3>1. CASE p + 1 = len
        BY <3>1, <1>b, <1>0, NullAssumption
      <3>2. CASE p + 1 # len
        <4>1. p + 2 \in 1 .. len /\ after = s[p + 2]
          BY <3>2, <1>b, <1>q
        <4> QED
          BY <4>1, <1>0
      <3> QED
        BY <3>1, <3>2
    <2> QED
      BY <2>1, <2>2, <2>3
  <1>10. Spells(N, k2, l, t, len)
    <2>1. Each(N, t, len)
      <3>1. Each(N, s, len) /\ len \in Nat /\ p \in 1 .. len /\ p + 1 \in 1 .. len
        BY <1>q DEF Spells
      <3>2. Exchange(s, t, len, p, p + 1)
        BY <1>8 DEF Exchange
      <3> QED
        BY <3>1, <3>2, Exchanged, Zenon
    <2>4. k2.first[l] = t[1] /\ k2.last[l] = t[len]
      BY <1>0, <1>3, <1>b, <1>p, <1>q, <1>6, <1>8, NullAssumption
    <2>5. \A i \in 1 .. len : /\ k2.next[t[i]] = IF i = len THEN Null ELSE t[i + 1]
                             /\ k2.prev[t[i]] = IF i = 1 THEN Null ELSE t[i - 1]
      <3> TAKE i \in 1 .. len
      <3>1. CASE i = p
        <4>1. t[i] = b /\ t[i + 1] = a /\ b \in Node /\ b # before /\ b # after /\ i # len
          BY <3>1, <1>p, <1>q, <1>8, <1>i
        <4>2. i # 1 => t[i - 1] = before
          BY <3>1, <1>b, <1>8
        <4> QED
          BY <3>1, <4>1, <4>2, <1>5, <1>b
      <3>2. CASE i = p + 1
        <4>1. t[i] = a /\ t[i - 1] = b /\ a \in Node /\ a # before /\ a # after /\ i # 1
          BY <3>2, <1>p, <1>q, <1>8, <1>i
        <4>2. i # len => t[i + 1] = after
          BY <3>2, <1>b, <1>8
        <4> QED
          BY <3>2, <4>1, <4>2, <1>5, <1>b
      <3>3. CASE i # p /\ i # p + 1
        <4>1. t[i] = s[i] /\ s[i] \in Node /\ s[i] # a /\ s[i] # b
          BY <3>3, <1>0, <1>8, <1>i
        <4>2. k2.next[t[i]] = IF i = p - 1 THEN b ELSE IF i = len THEN Null ELSE s[i + 1]
          BY <4>1, <1>0, <1>5, <1>i
        <4>3. k2.prev[t[i]] = IF i = p + 2 THEN a ELSE IF i = 1 THEN Null ELSE s[i - 1]
          BY <4>1, <1>0, <1>5, <1>i
        <4>4. i # len => t[i + 1] = IF i = p - 1 THEN b ELSE s[i + 1]
          BY <3>3, <1>8, <1>q
        <4>5. i # 1 => t[i - 1] = IF i = p + 2 THEN a ELSE s[i - 1]
          BY <3>3, <1>8, <1>p
        <4> QED
          BY <4>2, <4>3, <4>4, <4>5, <1>q
      <3> QED
        BY <3>1, <3>2, <3>3
    <2> QED
      BY <1>p, <2>1, <2>4, <2>5 DEF Spells
  <1>11. Exchange(s, t, len, p, p + 1)
    BY <1>8 DEF Exchange
  <1>12. Turns(N, k2, l, s, len, p, p + 1)
    BY <1>7, <1>10, <1>11, Zenon DEF Turns
  <1> QED
    BY <1>9, <1>12, <1>p, <1>q DEF k2

LEMMA SwapAdjacentKeeps ==
  ASSUME NEW k \in Links, NEW l \in List, NEW N \in SUBSET Node,
         NEW a \in N, NEW b \in N, a # b, k.next[a] = b, Spelled(N, k, l)
  PROVE  /\ Frame(k, SwapAdjacent(k, l, a, b), l, N)
         /\ Spelled(N, SwapAdjacent(k, l, a, b), l)
  <1>1. PICK len \in Nat : \E s \in [1 .. len -> Node] : Spells(N, k, l, s, len)
    BY SpellsApart
  <1>2. PICK s \in [1 .. len -> Node] : Spells(N, k, l, s, len)
    BY <1>1
  <1>3. /\ Frame(k, SwapAdjacent(k, l, a, b), l, N)
        /\ \E p, q \in 1 .. len :
              s[p] = a /\ s[q] = b /\ Turns(N, SwapAdjacent(k, l, a, b), l, s, len, p, q)
    BY <1>2, SwapAdjacentSpells
  <1> QED
    BY <1>3, SpellsTogether DEF Turns

LEMMA SwapApartSpells ==
  ASSUME NEW k \in Links, NEW l \in List, NEW N \in SUBSET Node,
         NEW a \in N, NEW b \in N, a # b, k.next[a] # b, k.next[b] # a,
         NEW len \in Nat, NEW s \in [1 .. len -> Node], Spells(N, k, l, s, len)
  PROVE  /\ Frame(k, SwapApart(k, l, a, b), l, N)
         /\ \E p, q \in 1 .. len :
              s[p] = a /\ s[q] = b /\ Turns(N, SwapApart(k, l, a, b), l, s, len, p, q)
  <1>p. PICK p \in 1 .. len : s[p] = a
    BY DEF Spells, Each
  <1>q. PICK q \in 1 .. len : s[q] = b
    BY DEF Spells, Each
  <1>nz. len # 0
    OBVIOUS
  <1>0. /\ \A i \in 1 .. len : s[i] \in N /\ s[i] \in Node
        /\ \A i, j \in 1 .. len : s[i] = s[j] => i = j
        /\ \A i \in 1 .. len : /\ k.next[s[i]] = IF i = len THEN Null ELSE s[i + 1]
                              /\ k.prev[s[i]] = IF i = 1 THEN Null ELSE s[i - 1]
        /\ k.first[l] = s[1] /\ k.last[l] = s[len]
    <2>1. Each(N, s, len)
      BY DEF Spells
    <2>2. /\ \A i \in 1 .. len : s[i] \in N /\ s[i] \in Node
          /\ \A x \in N : \E i \in 1 .. len : s[i] = x
          /\ \A i, j \in 1 .. len : s[i] = s[j] => i = j
      BY <2>1 DEF Each
    <2>3. \A i \in 1 .. len : /\ k.next[s[i]] = IF i = len THEN Null ELSE s[i + 1]
                              /\ k.prev[s[i]] = IF i = 1 THEN Null ELSE s[i - 1]
      BY DEF Spells
    <2>4. k.first[l] = s[1] /\ k.last[l] = s[len]
      BY <1>nz DEF Spells
    <2> QED
      BY <2>2, <2>3, <2>4
  <1>d. p # q /\ p + 1 # q /\ q + 1 # p
    BY <1>0, <1>p, <1>q
  <1> DEFINE k2 == SwapApart(k, l, a, b)
             pa == k.prev[a]
             na == k.next[a]
             pb == k.prev[b]
             nb == k.next[b]
             t == [i \in 1 .. len |-> IF i = p THEN s[q] ELSE IF i = q THEN s[p] ELSE s[i]]
  <1>3. {pa, na, pb, nb} \subseteq N \cup {Null}
    BY Neighbours
  <1>b. /\ pa = IF p = 1 THEN Null ELSE s[p - 1]
        /\ na = IF p = len THEN Null ELSE s[p + 1]
        /\ pb = IF q = 1 THEN Null ELSE s[q - 1]
        /\ nb = IF q = len THEN Null ELSE s[q + 1]
    BY <1>0, <1>p, <1>q
  <1>4. k2 \in Links
    <2>1. \A f \in [Node -> Node \cup {Null}] :
            /\ \A x, y \in Node \cup {Null} : Set(f, x, y) \in [Node -> Node \cup {Null}]
            /\ \A x, y \in Node \cup {Null} : x \in Node => [f EXCEPT ![x] = y] \in [Node -> Node \cup {Null}]
      BY DEF Set
    <2>2. \A f \in [List -> Node \cup {Null}] :
            \A x, y \in Node \cup {Null} : SetEnd(f, l, x, y) \in [List -> Node \cup {Null}]
      BY DEF SetEnd
    <2> QED
      BY <1>3, <2>1, <2>2 DEF SwapApart, Links
  <1>5. \A x \in Node :
          /\ k2.next[x] = IF x = pa THEN b ELSE IF x = pb THEN a
                          ELSE IF x = b THEN na ELSE IF x = a THEN nb ELSE k.next[x]
          /\ k2.prev[x] = IF x = na THEN b ELSE IF x = nb THEN a
                          ELSE IF x = b THEN pa ELSE IF x = a THEN pb ELSE k.prev[x]
    BY <1>3, NullAssumption DEF SwapApart, Links, Set
  <1>6. \A m \in List :
          /\ k2.first[m] = IF m = l /\ pa = Null THEN b
                           ELSE IF m = l /\ pb = Null THEN a ELSE k.first[m]
          /\ k2.last[m] = IF m = l /\ na = Null THEN b
                          ELSE IF m = l /\ nb = Null THEN a ELSE k.last[m]
    BY DEF SwapApart, Links, SetEnd
  <1>7. t \in [1 .. len -> Node]
    OBVIOUS
  <1>8. \A i \in 1 .. len : t[i] = IF i = p THEN s[q] ELSE IF i = q THEN s[p] ELSE s[i]
    OBVIOUS
  <1> HIDE DEF k2, t, pa, na, pb, nb
  <1>9. Frame(k, k2, l, N)
    BY <1>3, <1>4, <1>5, <1>6, NullAssumption DEF Frame
  <1>i. \A i \in 1 .. len : /\ (s[i] = a <=> i = p)
                          /\ (s[i] = b <=> i = q)
                          /\ (s[i] = pa <=> i = p - 1)
                          /\ (s[i] = na <=> i = p + 1)
                          /\ (s[i] = pb <=> i = q - 1)
                          /\ (s[i] = nb <=> i = q + 1)
    <2> TAKE i \in 1 .. len
    <2>1. (s[i] = a <=> i = p) /\ (s[i] = b <=> i = q)
      BY <1>0, <1>p, <1>q
    <2>2. \A y, r : r \in 1 .. len /\ y = s[r] => (s[i] = y <=> i = r)
      BY <1>0
    <2>3. s[i] # Null
      BY <1>0, NullAssumption
    <2>4. s[i] = pa <=> i = p - 1
      BY <2>2, <2>3, <1>b
    <2>5. s[i] = na <=> i = p + 1
      BY <2>2, <2>3, <1>b
    <2>6. s[i] = pb <=> i = q - 1
      BY <2>2, <2>3, <1>b
    <2>7. s[i] = nb <=> i = q + 1
      BY <2>2, <2>3, <1>b
    <2> QED
      BY <2>1, <2>4, <2>5, <2>6, <2>7
  <1>n. {a, b} \subseteq Node /\ {a, b} \cap {pa, na, pb, nb} = {}
    BY <1>i, <1>d, <1>p, <1>q, NullAssumption
  <1>10. Spells(N, k2, l, t, len)
    <2>1. Each(N, t, len)
      <3>1. Each(N, s, len) /\ len \in Nat /\ p \in 1 .. len /\ q \in 1 .. len
        BY <1>p, <1>q DEF Spells
      <3>2. Exchange(s, t, len, p, q)
        BY <1>8 DEF Exchange
      <3> QED
        BY <3>1, <3>2, Exchanged, Zenon
    <2>4. k2.first[l] = t[1] /\ k2.last[l] = t[len]
      BY SMTT(30), <1>0, <1>3, <1>b, <1>d, <1>p, <1>q, <1>6, <1>8, NullAssumption
    <2>5. \A i \in 1 .. len : /\ k2.next[t[i]] = IF i = len THEN Null ELSE t[i + 1]
                             /\ k2.prev[t[i]] = IF i = 1 THEN Null ELSE t[i - 1]
      <3> TAKE i \in 1 .. len
      <3>1. CASE i = p
        <4>1. t[i] = b /\ k2.next[b] = na /\ k2.prev[b] = pa
          BY <3>1, <1>q, <1>8, <1>n, <1>5
        <4>2. (i # 1 => t[i - 1] = s[i - 1]) /\ (i # len => t[i + 1] = s[i + 1])
          BY <3>1, <1>d, <1>8
        <4> QED
          BY <3>1, <4>1, <4>2, <1>b
      <3>2. CASE i = q
        <4>1. t[i] = a /\ k2.next[a] = nb /\ k2.prev[a] = pb
          BY <3>2, <1>p, <1>d, <1>8, <1>n, <1>5
        <4>2. (i # 1 => t[i - 1] = s[i - 1]) /\ (i # len => t[i + 1] = s[i + 1])
          BY <3>2, <1>d, <1>8
        <4> QED
          BY <3>2, <4>1, <4>2, <1>b
      <3>3. CASE i # p /\ i # q
        <4>1. t[i] = s[i] /\ s[i] \in Node /\ s[i] # a /\ s[i] # b
          BY <3>3, <1>0, <1>8, <1>i
        <4>2. k2.next[t[i]] = IF i = p - 1 THEN b ELSE IF i = q - 1 THEN a
                              ELSE IF i = len THEN Null ELSE s[i + 1]
          BY <4>1, <1>0, <1>5, <1>i
        <4>3. k2.prev[t[i]] = IF i = p + 1 THEN b ELSE IF i = q + 1 THEN a
                              ELSE IF i = 1 THEN Null ELSE s[i - 1]
          BY <4>1, <1>0, <1>5, <1>i
        <4>4. i # len => t[i + 1] = IF i = p - 1 THEN b ELSE IF i = q - 1 THEN a ELSE s[i + 1]
          BY <1>8, <1>p, <1>q
        <4>5. i # 1 => t[i - 1] = IF i = p + 1 THEN b ELSE IF i = q + 1 THEN a ELSE s[i - 1]
          BY <1>8, <1>p, <1>q
        <4> QED
          BY <4>2, <4>3, <4>4, <4>5
      <3> QED
        BY <3>1, <3>2, <3>3
    <2> QED
      BY <1>p, <2>1, <2>4, <2>5 DEF Spells
  <1>11. Exchange(s, t, len, p, q)
    BY <1>8 DEF Exchange
  <1>12. Turns(N, k2, l, s, len, p, q)
    BY <1>7, <1>10, <1>11, Zenon DEF Turns
  <1> QED
    BY <1>9, <1>12, <1>p, <1>q DEF k2

LEMMA SwapApartKeeps ==
  ASSUME NEW k \in Links, NEW l \in List, NEW N \in SUBSET Node,
         NEW a \in N, NEW b \in N, a # b, k.next[a] # b, k.next[b] # a, Spelled(N, k, l)
  PROVE  /\ Frame(k, SwapApart(k, l, a, b), l, N)
         /\ Spelled(N, SwapApart(k, l, a, b), l)
  <1>1. PICK len \in Nat : \E s \in [1 .. len -> Node] : Spells(N, k, l, s, len)
    BY SpellsApart
  <1>2. PICK s \in [1 .. len -> Node] : Spells(N, k, l, s, len)
    BY <1>1
  <1>3. /\ Frame(k, SwapApart(k, l, a, b), l, N)
        /\ \E p, q \in 1 .. len :
              s[p] = a /\ s[q] = b /\ Turns(N, SwapApart(k, l, a, b), l, s, len, p, q)
    BY <1>2, SwapApartSpells
  <1> QED
    BY <1>3, SpellsTogether DEF Turns

\* Forgetting destroyed nodes disturbs no list without them.
LEMMA ForgetSpells ==
  ASSUME NEW k \in Links, NEW D \in SUBSET Node, NEW l \in List, NEW M \in SUBSET Node,
         M \cap D = {}, NEW len \in Nat, NEW s \in [1 .. len -> Node], Spells(M, k, l, s, len)
  PROVE  Spells(M, Forget(k, D), l, s, len)
  <1> DEFINE k2 == Forget(k, D)
  <1>1. /\ \A x \in Node \ D : k2.next[x] = k.next[x] /\ k2.prev[x] = k.prev[x]
        /\ k2.first = k.first /\ k2.last = k.last
    BY DEF Forget, Links
  <1> HIDE DEF k2
  <1>2. \A i \in 1 .. len : s[i] \in Node \ D
    BY DEF Spells, Each
  <1>3. Spells(M, k2, l, s, len)
    BY <1>1, <1>2 DEF Spells
  <1> QED
    BY <1>3 DEF k2

LEMMA ForgetKeeps ==
  ASSUME NEW k \in Links, NEW D \in SUBSET Node
  PROVE  /\ Forget(k, D) \in Links
         /\ \A l \in List : Frame(k, Forget(k, D), l, D)
         /\ \A l \in List, M \in SUBSET Node :
              M \cap D = {} /\ Spelled(M, k, l) => Spelled(M, Forget(k, D), l)
  <1> DEFINE k2 == Forget(k, D)
  <1>1. /\ k2 \in Links
        /\ \A x \in Node \ D : k2.next[x] = k.next[x] /\ k2.prev[x] = k.prev[x]
        /\ k2.first = k.first /\ k2.last = k.last
    BY DEF Forget, Links
  <1> HIDE DEF k2
  <1>2. ASSUME NEW l \in List, NEW M \in SUBSET Node, M \cap D = {}, Spelled(M, k, l)
        PROVE  Spelled(M, k2, l)
    <2>1. PICK len \in Nat : \E s \in [1 .. len -> Node] : Spells(M, k, l, s, len)
      BY <1>2, SpellsApart
    <2>2. PICK s \in [1 .. len -> Node] : Spells(M, k, l, s, len)
      BY <2>1
    <2>3. Spells(M, Forget(k, D), l, s, len)
      BY <1>2, <2>2, ForgetSpells
    <2> QED
      BY <2>3, SpellsTogether DEF k2
  <1>3. \A l \in List : Frame(k, k2, l, D)
    BY <1>1 DEF Frame
  <1> QED
    BY <1>1, <1>2, <1>3 DEF k2

LEMMA FrameGrows ==
  ASSUME NEW k, NEW k2, NEW l, NEW X, NEW Y, X \subseteq Y, Frame(k, k2, l, X)
  PROVE  Frame(k, k2, l, Y)
  BY DEF Frame

LEMMA FrameTwice ==
  ASSUME NEW k, NEW k1, NEW k2, NEW l, NEW X, Frame(k, k1, l, X), Frame(k1, k2, l, X)
  PROVE  Frame(k, k2, l, X)
  BY DEF Frame

-----------------------------------------------------------------------------
(* The invariant *)

Disjoint == \A l, m \in List : l # m => nodes[l] \cap nodes[m] = {}
AllSpelled == \A l \in List : Spelled(nodes[l], links, l)

\* What the lists are, apart from the loop that copies.
Lists ==
  /\ nodes \in [List -> SUBSET Node]
  /\ links \in Links
  /\ Disjoint
  /\ AllSpelled

Inv == TypeOK /\ Lists /\ LoopStaysOnLists

\* A step that changes one list, within its own nodes and free ones.
LEMMA OneList ==
  ASSUME Lists, NEW l \in List, NEW N \in SUBSET Node,
         N \subseteq nodes[l] \cup Free,
         nodes' = [nodes EXCEPT ![l] = N],
         Frame(links, links', l, nodes[l] \cup N), Spelled(N, links', l)
  PROVE  Lists'
  <1> DEFINE k == links
             k2 == links'
  <1>1. links' \in Links /\ nodes' \in [List -> SUBSET Node]
    BY DEF Frame, Lists
  <1>2. \A m \in List \ {l} : nodes[m] \cap (nodes[l] \cup N) = {} /\ nodes[m] \in SUBSET Node
    BY DEF Lists, Disjoint, Free
  <1>3. Disjoint'
    BY <1>2 DEF Lists, Disjoint
  <1>4. \A m \in List \ {l} : Spelled(nodes[m], links', m)
    <2> TAKE m \in List \ {l}
    <2>1. Spelled(nodes[m], links, m) /\ links \in Links
      BY DEF Lists, AllSpelled
    <2> QED
      BY <1>2, <2>1, FrameKeeps
  <1>5. \A m \in List : Spelled(nodes'[m], links', m)
    BY <1>4 DEF Lists
  <1> QED
    BY <1>1, <1>3, <1>5 DEF Lists, AllSpelled

\* A new node is linked into a list.
LEMMA AdoptKeeps ==
  ASSUME Lists, NEW l \in List, NEW n \in Node, NEW v, NEW k2, Adopt(l, n, v, k2),
         Frame(links, k2, l, nodes[l] \cup {n}), Spelled(nodes[l] \cup {n}, k2, l)
  PROVE  Lists'
  <1> DEFINE N == nodes[l] \cup {n}
  <1>1. N \in SUBSET Node /\ N \subseteq nodes[l] \cup Free /\ nodes[l] \cup N = N
    BY DEF Adopt, Lists
  <1>2. nodes' = [nodes EXCEPT ![l] = N] /\ links' = k2
    BY DEF Adopt
  <1> QED
    BY <1>1, <1>2, OneList

\* Nodes of a list are destroyed.
LEMMA DestroyKeeps ==
  ASSUME Lists, NEW l \in List, NEW D \in SUBSET nodes[l], NEW k1, Destroy(l, D, k1),
         Frame(links, k1, l, nodes[l]), Spelled(nodes[l] \ D, k1, l)
  PROVE  Lists'
  <1> DEFINE N == nodes[l] \ D
  <1>1. /\ N \in SUBSET Node /\ N \subseteq nodes[l] \cup Free /\ nodes[l] \cup N = nodes[l]
        /\ D \in SUBSET Node /\ N \cap D = {} /\ k1 \in Links
    BY DEF Lists, Frame
  <1>2. nodes' = [nodes EXCEPT ![l] = N] /\ links' = Forget(k1, D)
    BY DEF Destroy
  <1>3. Frame(k1, links', l, D) /\ Spelled(N, links', l)
    BY <1>1, <1>2, ForgetKeeps
  <1>4. Frame(links, links', l, nodes[l])
    BY <1>3, FrameGrows, FrameTwice
  <1> QED
    BY <1>1, <1>2, <1>3, <1>4, OneList

\* A list keeps its nodes and changes their order.
LEMMA RelinkKeeps ==
  ASSUME Lists, NEW l \in List, nodes' = nodes,
         Frame(links, links', l, nodes[l]), Spelled(nodes[l], links', l)
  PROVE  Lists'
  <1> DEFINE N == nodes[l]
  <1>1. N \in SUBSET Node /\ nodes[l] \cup N = N /\ nodes' = [nodes EXCEPT ![l] = N]
    BY DEF Lists
  <1> QED
    BY <1>1, OneList

\* What one list gives to the lemmas on links.
LEMMA ListFacts ==
  ASSUME Lists, NEW l \in List
  PROVE  nodes[l] \in SUBSET Node /\ links \in Links /\ Spelled(nodes[l], links, l)
  BY DEF Lists, AllSpelled

LEMMA AdoptIsNew ==
  ASSUME NEW l \in List, NEW n \in Node, NEW v, NEW k2, Adopt(l, n, v, k2)
  PROVE  n \in Node \ nodes[l]
  BY DEF Adopt, Free

LEMMA BackStep ==
  ASSUME Lists, NEW l \in List, NEW n \in Node, NEW v, Adopt(l, n, v, LinkBack(links, l, n))
  PROVE  Lists'
  BY ListFacts, AdoptIsNew, LinkBackKeeps, AdoptKeeps

LEMMA FrontStep ==
  ASSUME Lists, NEW l \in List, NEW n \in Node, NEW v, Adopt(l, n, v, LinkFront(links, l, n))
  PROVE  Lists'
  BY ListFacts, AdoptIsNew, LinkFrontKeeps, AdoptKeeps

LEMMA BeforeStep ==
  ASSUME Lists, NEW l \in List, NEW n \in Node, NEW v, NEW pos \in nodes[l],
         Adopt(l, n, v, LinkBefore(links, l, n, pos))
  PROVE  Lists'
  BY ListFacts, AdoptIsNew, LinkBeforeKeeps, AdoptKeeps

LEMMA AfterStep ==
  ASSUME Lists, NEW l \in List, NEW n \in Node, NEW v, NEW pos \in nodes[l],
         Adopt(l, n, v, LinkAfter(links, l, n, pos))
  PROVE  Lists'
  BY ListFacts, AdoptIsNew, LinkAfterKeeps, AdoptKeeps

LEMMA RemoveStep ==
  ASSUME Lists, NEW l \in List, NEW n \in nodes[l], Remove(l, n)
  PROVE  Lists'
  <1>1. Destroy(l, {n}, Unlink(links, l, n)) /\ {n} \in SUBSET nodes[l]
    BY DEF Remove
  <1>2. /\ Frame(links, Unlink(links, l, n), l, nodes[l])
        /\ Spelled(nodes[l] \ {n}, Unlink(links, l, n), l)
    BY ListFacts, UnlinkKeeps
  <1> QED
    BY <1>1, <1>2, DestroyKeeps

\* The ends of a list and what comes after its nodes are its nodes, or none.
LEMMA Ends ==
  ASSUME NEW N, NEW k, NEW l, Spelled(N, k, l)
  PROVE  /\ k.first[l] \in N \cup {Null}
         /\ k.last[l] \in N \cup {Null}
         /\ \A x \in N : k.next[x] \in N \cup {Null}
  <1>1. PICK len \in Nat : \E s \in [1 .. len -> Node] : Spells(N, k, l, s, len)
    BY SpellsApart
  <1>2. PICK s \in [1 .. len -> Node] : Spells(N, k, l, s, len)
    BY <1>1
  <1> QED
    BY <1>2, Neighbours

LEMMA SwapStep ==
  ASSUME Lists, NEW l \in List, NEW a \in nodes[l], NEW b \in nodes[l], Swap(l, a, b)
  PROVE  Lists'
  <1>1. nodes' = nodes /\ links' = SwapNodes(links, l, a, b)
    BY DEF Swap
  <1>2. nodes[l] \in SUBSET Node /\ links \in Links /\ Spelled(nodes[l], links, l)
    BY ListFacts
  <1>3. CASE a = b
    <2>1. links' = links
      BY <1>1, <1>3 DEF SwapNodes
    <2>2. Frame(links, links', l, nodes[l])
      BY <1>2, <2>1 DEF Frame
    <2> QED
      BY <1>1, <1>2, <2>1, <2>2, RelinkKeeps
  <1>4. CASE a # b /\ links.next[a] = b
    <2>1. links' = SwapAdjacent(links, l, a, b)
      BY <1>1, <1>4 DEF SwapNodes
    <2> QED
      BY <1>1, <1>2, <1>4, <2>1, SwapAdjacentKeeps, RelinkKeeps
  <1>5. CASE a # b /\ links.next[a] # b /\ links.next[b] = a
    <2>1. links' = SwapAdjacent(links, l, b, a)
      BY <1>1, <1>5 DEF SwapNodes
    <2> QED
      BY <1>1, <1>2, <1>5, <2>1, SwapAdjacentKeeps, RelinkKeeps
  <1>6. CASE a # b /\ links.next[a] # b /\ links.next[b] # a
    <2>1. links' = SwapApart(links, l, a, b)
      BY <1>1, <1>6 DEF SwapNodes
    <2> QED
      BY <1>1, <1>2, <1>6, <2>1, SwapApartKeeps, RelinkKeeps
  <1> QED
    BY <1>3, <1>4, <1>5, <1>6

LEMMA MoveBeforeStep ==
  ASSUME Lists, NEW l \in List, NEW n \in nodes[l], NEW pos \in nodes[l], MoveBefore(l, n, pos)
  PROVE  Lists'
  <1> DEFINE k1 == Unlink(links, l, n)
             N == nodes[l] \ {n}
  <1>1. nodes' = nodes /\ links' = LinkBefore(k1, l, n, pos) /\ n # pos
    BY DEF MoveBefore
  <1>2. nodes[l] \in SUBSET Node /\ links \in Links /\ Spelled(nodes[l], links, l)
    BY ListFacts
  <1>3. Frame(links, k1, l, nodes[l]) /\ Spelled(N, k1, l)
    BY <1>2, UnlinkKeeps
  <1>4. k1 \in Links /\ N \in SUBSET Node /\ n \in Node \ N /\ pos \in N /\ N \cup {n} = nodes[l]
    BY <1>1, <1>2, <1>3 DEF Frame
  <1> HIDE DEF k1, N
  <1>5. /\ Frame(k1, LinkBefore(k1, l, n, pos), l, N \cup {n})
        /\ Spelled(N \cup {n}, LinkBefore(k1, l, n, pos), l)
    BY <1>3, <1>4, LinkBeforeKeeps
  <1>6. Frame(links, links', l, nodes[l]) /\ Spelled(nodes[l], links', l)
    BY <1>1, <1>3, <1>4, <1>5, FrameTwice
  <1> QED
    BY <1>1, <1>6, RelinkKeeps

LEMMA MoveAfterStep ==
  ASSUME Lists, NEW l \in List, NEW n \in nodes[l], NEW pos \in nodes[l], MoveAfter(l, n, pos)
  PROVE  Lists'
  <1> DEFINE k1 == Unlink(links, l, n)
             N == nodes[l] \ {n}
  <1>1. nodes' = nodes /\ links' = LinkAfter(k1, l, n, pos) /\ n # pos
    BY DEF MoveAfter
  <1>2. nodes[l] \in SUBSET Node /\ links \in Links /\ Spelled(nodes[l], links, l)
    BY ListFacts
  <1>3. Frame(links, k1, l, nodes[l]) /\ Spelled(N, k1, l)
    BY <1>2, UnlinkKeeps
  <1>4. k1 \in Links /\ N \in SUBSET Node /\ n \in Node \ N /\ pos \in N /\ N \cup {n} = nodes[l]
    BY <1>1, <1>2, <1>3 DEF Frame
  <1> HIDE DEF k1, N
  <1>5. /\ Frame(k1, LinkAfter(k1, l, n, pos), l, N \cup {n})
        /\ Spelled(N \cup {n}, LinkAfter(k1, l, n, pos), l)
    BY <1>3, <1>4, LinkAfterKeeps
  <1>6. Frame(links, links', l, nodes[l]) /\ Spelled(nodes[l], links', l)
    BY <1>1, <1>3, <1>4, <1>5, FrameTwice
  <1> QED
    BY <1>1, <1>6, RelinkKeeps

\* No list of no nodes has ends.
LEMMA EmptySpelled ==
  ASSUME NEW k, NEW l
  PROVE  Spelled({}, k, l) <=> k.first[l] = Null /\ k.last[l] = Null
  <1>1. ASSUME Spelled({}, k, l)
        PROVE  k.first[l] = Null /\ k.last[l] = Null
    <2>1. PICK len \in Nat : \E s \in [1 .. len -> Node] : Spells({}, k, l, s, len)
      BY <1>1, SpellsApart
    <2>2. PICK s \in [1 .. len -> Node] : Spells({}, k, l, s, len)
      BY <2>1
    <2>3. len = 0
      BY <2>2 DEF Spells, Each
    <2> QED
      BY <2>2, <2>3 DEF Spells
  <1>2. ASSUME k.first[l] = Null, k.last[l] = Null
        PROVE  Spelled({}, k, l)
    <2> DEFINE s == [i \in 1 .. 0 |-> CHOOSE n \in Node : TRUE]
    <2>1. s \in [1 .. 0 -> Node] /\ 1 .. 0 = {}
      OBVIOUS
    <2>2. Spells({}, k, l, s, 0)
      BY <1>2, <2>1 DEF Spells, Each
    <2> QED
      BY <2>1, <2>2, SpellsTogether
  <1> QED
    BY <1>1, <1>2

LEMMA CopyAssignStep ==
  ASSUME Lists, NEW l \in List, NEW other \in List, CopyAssign(l, other)
  PROVE  Lists'
  <1> DEFINE k1 == [links EXCEPT !.first[l] = Null, !.last[l] = Null]
  <1>1. Destroy(l, nodes[l], k1) /\ links \in Links
    BY ListFacts DEF CopyAssign
  <1>2. k1.first[l] = Null /\ k1.last[l] = Null /\ Frame(links, k1, l, nodes[l])
    BY <1>1 DEF Links, Frame
  <1> HIDE DEF k1
  <1>3. Spelled(nodes[l] \ nodes[l], k1, l)
    <2>1. nodes[l] \ nodes[l] = {}
      OBVIOUS
    <2> QED
      BY <1>2, <2>1, EmptySpelled
  <1> QED
    BY <1>1, <1>2, <1>3, DestroyKeeps

LEMMA MoveAssignStep ==
  ASSUME Lists, NEW l \in List, NEW other \in List, MoveAssign(l, other)
  PROVE  Lists'
  <1> DEFINE k1 == [links EXCEPT !.first = [@ EXCEPT ![l] = links.first[other], ![other] = Null],
                                 !.last  = [@ EXCEPT ![l] = links.last[other], ![other] = Null]]
  <1>1. /\ l # other
        /\ nodes' = [nodes EXCEPT ![l] = nodes[other], ![other] = {}]
        /\ links' = Forget(k1, nodes[l])
    BY DEF MoveAssign
  <1>2. /\ links \in Links /\ nodes[l] \in SUBSET Node /\ nodes[other] \in SUBSET Node
        /\ Spelled(nodes[other], links, other)
        /\ nodes \in [List -> SUBSET Node] /\ Disjoint /\ AllSpelled
    BY ListFacts DEF Lists
  <1>3. /\ k1 \in Links
        /\ k1.next = links.next /\ k1.prev = links.prev
        /\ \A m \in List :
             /\ k1.first[m] = IF m = other THEN Null
                              ELSE IF m = l THEN links.first[other] ELSE links.first[m]
             /\ k1.last[m] = IF m = other THEN Null
                             ELSE IF m = l THEN links.last[other] ELSE links.last[m]
    BY <1>1, <1>2 DEF Links
  <1> HIDE DEF k1
  <1>4. nodes' \in [List -> SUBSET Node] /\ links' \in Links
    BY <1>1, <1>2, <1>3, ForgetKeeps
  <1>5. Disjoint'
    BY <1>1, <1>2 DEF Disjoint
  <1>6. ASSUME NEW m \in List
        PROVE  Spelled(nodes'[m], links', m)
    <2>1. CASE m = other
      <3>1. nodes'[m] = {} /\ Spelled({}, k1, m)
        BY <2>1, <1>1, <1>2, <1>3, EmptySpelled
      <3> QED
        BY <3>1, <1>1, <1>2, <1>3, ForgetKeeps
    <2>2. CASE m = l
      <3>1. nodes'[m] = nodes[other] /\ nodes[other] \cap nodes[l] = {}
        BY <2>2, <1>1, <1>2 DEF Disjoint
      <3>2. PICK len \in Nat :
              \E s \in [1 .. len -> Node] : Spells(nodes[other], links, other, s, len)
        BY <1>2, SpellsApart
      <3>3. PICK s \in [1 .. len -> Node] : Spells(nodes[other], links, other, s, len)
        BY <3>2
      <3>4. Spells(nodes[other], k1, m, s, len)
        BY <3>3, <2>2, <1>1, <1>3 DEF Spells
      <3>5. Spelled(nodes[other], k1, m)
        BY <3>4, SpellsTogether
      <3> QED
        BY <3>1, <3>5, <1>1, <1>2, <1>3, ForgetKeeps
    <2>3. CASE m # l /\ m # other
      <3>1. nodes'[m] = nodes[m] /\ nodes[m] \cap nodes[l] = {} /\ nodes[m] \in SUBSET Node
        BY <2>3, <1>1, <1>2 DEF Disjoint
      <3>2. Spelled(nodes[m], links, m)
        BY <1>2 DEF AllSpelled
      <3>3. PICK len \in Nat :
              \E s \in [1 .. len -> Node] : Spells(nodes[m], links, m, s, len)
        BY <3>2, SpellsApart
      <3>4. PICK s \in [1 .. len -> Node] : Spells(nodes[m], links, m, s, len)
        BY <3>3
      <3>5. Spells(nodes[m], k1, m, s, len)
        BY <3>4, <2>3, <1>3 DEF Spells
      <3>6. Spelled(nodes[m], k1, m)
        BY <3>5, SpellsTogether
      <3> QED
        BY <3>1, <3>6, <1>1, <1>2, <1>3, ForgetKeeps
    <2> QED
      BY <2>1, <2>2, <2>3
  <1> QED
    BY <1>4, <1>5, <1>6 DEF Lists, AllSpelled

LEMMA CopyNodeStep ==
  ASSUME Inv, NEW n \in Node, CopyNode(n)
  PROVE  Lists' /\ LoopStaysOnLists' /\ TypeOK'
  <1> DEFINE l == copying.to
             v == val[copying.from]
  <1>1. /\ Lists /\ copying # Idle /\ l \in List /\ copying.from \in Node
        /\ copying.at \in nodes[l] \cup {Null} /\ v \in Val \cup {Null}
        /\ copying.from \in UNION {nodes[m] : m \in List}
    BY DEF Inv, TypeOK, LoopStaysOnLists, CopyNode
  <1>2. Lists'
    <2>1. CASE copying.at = Null
      <3>1. Adopt(l, n, v, LinkBack(links, l, n))
        BY <2>1 DEF CopyNode
      <3> QED
        BY <1>1, <3>1, BackStep
    <2>2. CASE copying.at # Null
      <3>1. Adopt(l, n, v, LinkBefore(links, l, n, copying.at)) /\ copying.at \in nodes[l]
        BY <2>2, <1>1 DEF CopyNode
      <3> QED
        BY <1>1, <3>1, BeforeStep
    <2> QED
      BY <2>1, <2>2
  <1>3. nodes' = [nodes EXCEPT ![l] = @ \cup {n}] /\ val' = [val EXCEPT ![n] = v]
    BY DEF CopyNode, Adopt
  <1>4. \A m \in List : nodes[m] \subseteq nodes'[m]
    BY <1>1, <1>3 DEF Lists
  <1>5. links'.next[copying.from] \in (UNION {nodes'[m] : m \in List}) \cup {Null}
    <2>1. PICK m \in List : copying.from \in nodes'[m]
      BY <1>1, <1>4
    <2>2. Spelled(nodes'[m], links', m)
      BY <1>2 DEF Lists, AllSpelled
    <2>3. links'.next[copying.from] \in nodes'[m] \cup {Null}
      BY <2>1, <2>2, Ends
    <2> QED
      BY <2>1, <2>3
  <1>6. copying' = IF links'.next[copying.from] = Null THEN Idle
                   ELSE [copying EXCEPT !.from = links'.next[copying.from]]
    BY DEF CopyNode
  <1>7. links'.next[copying.from] \in Node \cup {Null}
    BY <1>2, <1>5 DEF Lists
  <1>8. TypeOK'
    <2>1. copying' \in {Idle} \cup [to : List, at : Node \cup {Null}, from : Node]
      BY <1>1, <1>6, <1>7 DEF Inv, TypeOK
    <2>2. val' \in [Node -> Val \cup {Null}]
      BY <1>1, <1>3 DEF Inv, TypeOK
    <2> QED
      BY <1>2, <2>1, <2>2 DEF TypeOK, Lists
  <1>9. LoopStaysOnLists'
    <2>1. copying' = Idle \/ /\ copying'.from \in UNION {nodes'[m] : m \in List}
                             /\ copying'.to = l /\ copying'.at = copying.at
      <3>1. CASE links'.next[copying.from] = Null
        BY <3>1, <1>6
      <3>2. CASE links'.next[copying.from] # Null
        <4>1. copying \in [to : List, at : Node \cup {Null}, from : Node]
          BY <1>1 DEF Inv, TypeOK
        <4>2. copying' = [copying EXCEPT !.from = links'.next[copying.from]]
          BY <3>2, <1>6
        <4> QED
          BY <4>1, <4>2, <3>2, <1>5
      <3> QED
        BY <3>1, <3>2
    <2> QED
      BY <1>1, <1>4, <2>1 DEF LoopStaysOnLists
  <1> QED
    BY <1>2, <1>8, <1>9

-----------------------------------------------------------------------------
(* The theorems *)

\* A step of a handler that is not the loop leaves the loop idle, or starts it
\* on nodes there are.
LEMMA ListsHoldInv ==
  ASSUME Inv, Lists', val' \in [Node -> Val \cup {Null}],
         \/ copying' = Idle
         \/ /\ copying' \in [to : List, at : Node \cup {Null}, from : Node]
            /\ copying'.from \in UNION {nodes'[m] : m \in List}
            /\ copying'.at # Null => copying'.at \in nodes'[copying'.to]
  PROVE  Inv'
  <1>1. TypeOK'
    BY DEF Lists, TypeOK
  <1>2. LoopStaysOnLists'
    BY DEF LoopStaysOnLists
  <1> QED
    BY <1>1, <1>2 DEF Inv

LEMMA InitInv == Init => Inv
  <1> SUFFICES ASSUME Init PROVE Inv
    OBVIOUS
  <1>1. TypeOK /\ LoopStaysOnLists
    BY DEF Init, TypeOK, Links, LoopStaysOnLists
  <1>2. Disjoint
    BY DEF Init, Disjoint
  <1>3. \A l \in List : nodes[l] = {} /\ links.first[l] = Null /\ links.last[l] = Null
    BY DEF Init
  <1>4. AllSpelled
    BY <1>3, EmptySpelled DEF AllSpelled
  <1> QED
    BY <1>1, <1>2, <1>4 DEF Inv, Lists, TypeOK

LEMMA NextInv == Inv /\ [Next]_vars => Inv'
  <1> SUFFICES ASSUME Inv, [Next]_vars PROVE Inv'
    OBVIOUS
  <1>0. /\ Lists /\ nodes \in [List -> SUBSET Node] /\ val \in [Node -> Val \cup {Null}]
        /\ links \in Links
    BY DEF Inv, Lists, TypeOK
  <1>v. /\ \A l, n, k2 : \A v \in Val : Adopt(l, n, v, k2) => val' \in [Node -> Val \cup {Null}]
        /\ \A l, D, k1 : Destroy(l, D, k1) => val' \in [Node -> Val \cup {Null}]
    BY <1>0 DEF Adopt, Destroy
  <1>1. ASSUME NEW l \in List, NEW n \in Node, NEW v \in Val, EmplaceBack(l, n, v)
        PROVE  Inv'
    BY <1>0, <1>1, <1>v, BackStep, ListsHoldInv DEF EmplaceBack
  <1>2. ASSUME NEW l \in List, NEW n \in Node, NEW v \in Val, EmplaceFront(l, n, v)
        PROVE  Inv'
    BY <1>0, <1>2, <1>v, FrontStep, ListsHoldInv DEF EmplaceFront
  <1>3. ASSUME NEW l \in List, NEW n \in Node, NEW v \in Val, NEW pos \in nodes[l],
               EmplaceBefore(l, n, v, pos)
        PROVE  Inv'
    BY <1>0, <1>3, <1>v, BeforeStep, ListsHoldInv DEF EmplaceBefore
  <1>4. ASSUME NEW l \in List, NEW n \in Node, NEW v \in Val, NEW pos \in nodes[l],
               EmplaceAfter(l, n, v, pos)
        PROVE  Inv'
    BY <1>0, <1>4, <1>v, AfterStep, ListsHoldInv DEF EmplaceAfter
  <1>5. ASSUME NEW l \in List, NEW n \in Node, NEW v \in Val, NEW idx \in 0 .. Size(l),
               InsertIdx(l, n, v, idx)
        PROVE  Inv'
    <2>1. copying' = Idle
      BY <1>5 DEF InsertIdx
    <2>2. CASE Adopt(l, n, v, LinkBack(links, l, n))
      BY <1>0, <1>v, <2>1, <2>2, BackStep, ListsHoldInv
    <2>3. CASE Adopt(l, n, v, LinkFront(links, l, n))
      BY <1>0, <1>v, <2>1, <2>3, FrontStep, ListsHoldInv
    <2>4. ASSUME NEW pos \in nodes[l], Adopt(l, n, v, LinkBefore(links, l, n, pos))
          PROVE  Inv'
      BY <1>0, <1>v, <2>1, <2>4, BeforeStep, ListsHoldInv
    <2> QED
      BY <1>5, <2>2, <2>3, <2>4 DEF InsertIdx
  <1>6. ASSUME NEW l \in List, NEW n \in nodes[l], Remove(l, n)
        PROVE  Inv'
    <2>1. copying' = Idle /\ val' \in [Node -> Val \cup {Null}]
      BY <1>6, <1>v DEF Remove
    <2> QED
      BY <1>0, <1>6, <2>1, RemoveStep, ListsHoldInv
  <1>7. ASSUME NEW l \in List, NEW idx \in 0 .. Size(l), RemoveIdx(l, idx)
        PROVE  Inv'
    BY <1>6, <1>7 DEF RemoveIdx
  <1>8. ASSUME NEW l \in List, PopBack(l) \/ PopFront(l)
        PROVE  Inv'
    <2>1. links.last[l] \in nodes[l] \cup {Null} /\ links.first[l] \in nodes[l] \cup {Null}
      BY <1>0, ListFacts, Ends
    <2> QED
      BY <1>6, <1>8, <2>1 DEF PopBack, PopFront
  <1>9. ASSUME NEW l \in List, NEW a \in nodes[l], NEW b \in nodes[l], Swap(l, a, b)
        PROVE  Inv'
    <2>1. copying' = Idle /\ val' = val
      BY <1>9 DEF Swap
    <2> QED
      BY <1>0, <1>9, <2>1, SwapStep, ListsHoldInv
  <1>10. ASSUME NEW l \in List, NEW a \in nodes[l], NEW b \in nodes[l], MoveBefore(l, a, b)
         PROVE  Inv'
    <2>1. copying' = Idle /\ val' = val
      BY <1>10 DEF MoveBefore
    <2> QED
      BY <1>0, <1>10, <2>1, MoveBeforeStep, ListsHoldInv
  <1>11. ASSUME NEW l \in List, NEW a \in nodes[l], NEW b \in nodes[l], MoveAfter(l, a, b)
         PROVE  Inv'
    <2>1. copying' = Idle /\ val' = val
      BY <1>11 DEF MoveAfter
    <2> QED
      BY <1>0, <1>11, <2>1, MoveAfterStep, ListsHoldInv
  <1>12. ASSUME NEW l \in List, NEW other \in List, NEW start \in nodes[other],
                Prepend(l, start) \/ Extend(l, start)
         PROVE  Inv'
    <2>1. nodes' = nodes /\ links' = links /\ val' = val
      BY <1>12 DEF Prepend, Extend
    <2>2. Lists'
      BY <1>0, <2>1 DEF Lists, Disjoint, AllSpelled
    <2>3. links.first[l] \in nodes[l] \cup {Null}
      BY <1>0, ListFacts, Ends
    <2>4. copying' = [to |-> l, at |-> links.first[l], from |-> start]
          \/ copying' = [to |-> l, at |-> Null, from |-> start]
      BY <1>12 DEF Prepend, Extend
    <2>5. /\ copying' \in [to : List, at : Node \cup {Null}, from : Node]
          /\ copying'.from \in UNION {nodes'[m] : m \in List}
          /\ copying'.at # Null => copying'.at \in nodes'[copying'.to]
      BY <1>0, <2>1, <2>3, <2>4
    <2> QED
      BY <1>0, <2>1, <2>2, <2>5, ListsHoldInv
  <1>13. ASSUME NEW l \in List, NEW other \in List, CopyAssign(l, other)
         PROVE  Inv'
    <2>1. Lists' /\ val' \in [Node -> Val \cup {Null}]
      BY <1>0, <1>13, <1>v, CopyAssignStep DEF CopyAssign
    <2>2. links.first[other] \in nodes[other] \cup {Null}
      BY <1>0, ListFacts, Ends
    <2>3. l # other /\ nodes'[other] = nodes[other]
      BY <1>0, <1>13 DEF CopyAssign, Destroy
    <2>4. \/ copying' = Idle
          \/ /\ links.first[other] # Null
             /\ copying' = [to |-> l, at |-> Null, from |-> links.first[other]]
      BY <1>13 DEF CopyAssign
    <2>5. CASE copying' = Idle
      BY <2>1, <2>5, ListsHoldInv
    <2>6. CASE /\ links.first[other] # Null
               /\ copying' = [to |-> l, at |-> Null, from |-> links.first[other]]
      <3>1. /\ copying' \in [to : List, at : Node \cup {Null}, from : Node]
            /\ copying'.from \in UNION {nodes'[m] : m \in List}
            /\ copying'.at = Null
        BY <1>0, <2>2, <2>3, <2>6
      <3> QED
        BY <2>1, <3>1, ListsHoldInv
    <2> QED
      BY <2>4, <2>5, <2>6
  <1>14. ASSUME NEW l \in List, NEW other \in List, MoveAssign(l, other)
         PROVE  Inv'
    <2>1. copying' = Idle /\ val' \in [Node -> Val \cup {Null}]
      BY <1>0, <1>14 DEF MoveAssign
    <2> QED
      BY <1>0, <1>14, <2>1, MoveAssignStep, ListsHoldInv
  <1>15. ASSUME NEW n \in Node, CopyNode(n)
         PROVE  Inv'
    BY <1>15, CopyNodeStep DEF Inv
  <1>16. CASE OutOfMemory
    <2>1. nodes' = nodes /\ links' = links /\ val' = val /\ copying' = Idle
      BY <1>16 DEF OutOfMemory
    <2>2. Lists'
      BY <1>0, <2>1 DEF Lists, Disjoint, AllSpelled
    <2> QED
      BY <1>0, <2>1, <2>2, ListsHoldInv
  <1>17. CASE UNCHANGED vars
    BY <1>17 DEF vars, Inv, TypeOK, Lists, Disjoint, AllSpelled, LoopStaysOnLists
  <1> QED
    BY <1>1, <1>2, <1>3, <1>4, <1>5, <1>6, <1>7, <1>8, <1>9, <1>10, <1>11, <1>12, <1>13,
       <1>14, <1>15, <1>16, <1>17 DEF Next

\* Inv is inductive: every operation of LinkedList keeps it.
THEOREM Invariance == Spec => []Inv
  BY InitInv, NextInv, PTL DEF Spec

\* The lists' variables keep their types: an ownership map owns nodes, and a
\* link or an end is a node or null.
THEOREM TypeCorrect == Spec => []TypeOK
  BY Invariance, PTL DEF Inv

\* A loop that copies nodes, of another list or of the same, never stands on a
\* node that has been destroyed and never loses the place it adds to.
THEOREM LoopsSafe == Spec => []LoopStaysOnLists
  BY Invariance, PTL DEF Inv

\* After any operations, on any number of lists, the ends of each list and the
\* links of its nodes spell out one sequence, the same both ways, of just the
\* nodes its ownership map holds, each of them once; and no node is in two lists.
THEOREM WellLinked == Spec => [](AllSpelled /\ Disjoint)
  BY Invariance, PTL DEF Inv, Lists
-----------------------------------------------------------------------------
(* The loops over a list *)

\* Induction up to n, with a set for the predicate.
LEMMA Least ==
  ASSUME NEW T, T \subseteq Nat, T # {}
  PROVE  \E x \in T : \A y \in T : x <= y
  <1>1. PICK x \in T : \A y \in T : ~ (<< y, x >> \in OpToRel(<, Nat))
    BY WFMin, NatLessThanWellFounded
  <1>2. ASSUME NEW y \in T PROVE x <= y
    <2>1. x \in Nat /\ y \in Nat
      OBVIOUS
    <2>2. ~ (<< y, x >> \in OpToRel(<, Nat))
      BY <1>1
    <2>3. ~ (y < x)
      BY <2>1, <2>2 DEF OpToRel
    <2> QED
      BY <2>1, <2>3
  <1> QED
    BY <1>2

LEMMA Induction ==
  ASSUME NEW n \in Nat, NEW S, 0 \in S,
         \A k \in 0 .. n : k < n /\ k \in S => k + 1 \in S
  PROVE  \A k \in 0 .. n : k \in S
  <1> DEFINE T == {k \in 0 .. n : k \notin S}
  <1> SUFFICES ASSUME T # {} PROVE FALSE
    OBVIOUS
  <1>1. PICK x \in T : \A y \in T : x <= y
    <2>1. T \subseteq Nat
      OBVIOUS
    <2> HIDE DEF T
    <2> QED
      BY <2>1, Least
  <1>2. x - 1 \in 0 .. n /\ x - 1 < n /\ x - 1 \notin T
    BY <1>1
  <1>3. x - 1 \in S /\ (x - 1) + 1 = x
    BY <1>2
  <1> QED
    BY <1>2, <1>3

\* What Follow takes its sequence from, and one step of its definition.
Chains(link) ==
  LET from[fuel \in 0 .. Cardinality(Node) + 1] ==
        [m \in Node \cup {Null} |->
           IF m = Null \/ fuel = 0 THEN << >> ELSE << m >> \o from[fuel - 1][link[m]]]
  IN  from

Longer(link, g, f) ==
  [m \in Node \cup {Null} |->
     IF m = Null \/ f = 0 THEN << >> ELSE << m >> \o g[link[m]]]

\* The recursive definition has a solution.
LEMMA ChainsAre ==
  ASSUME NEW link
  PROVE  \A f \in 0 .. Cardinality(Node) + 1 :
           Chains(link)[f] = Longer(link, Chains(link)[f - 1], f)
  <1> DEFINE W == Cardinality(Node) + 1
             Solves(g, n) == g = [f \in 0 .. n |-> Longer(link, g[f - 1], f)]
             S == {n \in 0 .. W : \E g : Solves(g, n)}
  <1>1. W \in Nat
    BY NodeAssumption, FS_CardinalityType
  <1> HIDE DEF W
  <1>2. 0 \in S
    <2>1. ASSUME NEW f \in 0 .. 0, NEW g, NEW h PROVE Longer(link, g, f) = Longer(link, h, f)
      BY DEF Longer
    <2> DEFINE g == [f \in 0 .. 0 |-> Longer(link, << >>, f)]
    <2>2. \A f \in 0 .. 0 : g[f] = Longer(link, g[f - 1], f)
      <3> TAKE f \in 0 .. 0
      <3>1. g[f] = Longer(link, << >>, f)
        OBVIOUS
      <3> HIDE DEF g
      <3> QED
        BY <2>1, <3>1
    <2>3. Solves(g, 0)
      <3>1. g = [f \in 0 .. 0 |-> g[f]]
        OBVIOUS
      <3> HIDE DEF g
      <3> QED
        BY <2>2, <3>1
    <2>4. \E x : Solves(x, 0)
      <3> HIDE DEF Solves, g
      <3> QED
        BY <2>3
    <2> HIDE DEF Solves
    <2> QED
      BY <1>1, <2>4
  <1>3. ASSUME NEW n \in 0 .. W, n < W, n \in S PROVE n + 1 \in S
    <2>1. PICK g : Solves(g, n)
      BY <1>3
    <2> DEFINE h == [f \in 0 .. n + 1 |->
                       IF f = n + 1 THEN Longer(link, g[f - 1], f) ELSE g[f]]
    <2>2. \A f \in 0 .. n : h[f] = g[f]
      BY <1>1
    <2>3. ASSUME NEW f \in 0 .. n + 1 PROVE h[f] = Longer(link, h[f - 1], f)
      <3>1. CASE f = n + 1
        <4>1. f - 1 \in 0 .. n /\ h[f] = Longer(link, g[f - 1], f)
          BY <1>1, <3>1
        <4> QED
          BY <2>2, <4>1
      <3>2. CASE f # n + 1 /\ f # 0
        <4>1. f \in 0 .. n /\ f - 1 \in 0 .. n
          BY <1>1, <3>2
        <4>2. g[f] = Longer(link, g[f - 1], f)
          BY <2>1, <4>1
        <4> QED
          BY <2>2, <4>1, <4>2
      <3>3. CASE f = 0
        <4>1. f \in 0 .. n
          BY <1>1, <3>3
        <4>2. g[f] = Longer(link, g[f - 1], f)
          BY <2>1, <4>1
        <4>3. \A x, y : Longer(link, x, f) = Longer(link, y, f)
          BY <3>3 DEF Longer
        <4> QED
          BY <2>2, <4>1, <4>2, <4>3
      <3> QED
        BY <3>1, <3>2, <3>3
    <2>4. Solves(h, n + 1)
      <3>1. h = [f \in 0 .. n + 1 |-> h[f]]
        OBVIOUS
      <3> HIDE DEF h
      <3> QED
        BY <2>3, <3>1
    <2>5. \E x : Solves(x, n + 1)
      <3> HIDE DEF Solves, h
      <3> QED
        BY <2>4
    <2>6. n + 1 \in 0 .. W
      BY <1>1, <1>3
    <2> HIDE DEF Solves
    <2> QED
      BY <2>5, <2>6
  <1>4. W \in S
    <2> HIDE DEF S
    <2>1. \A n \in 0 .. W : n \in S
      BY <1>1, <1>2, <1>3, Induction
    <2> QED
      BY <1>1, <2>1
  <1>5. \E g : Solves(g, W)
    BY <1>4
  <1>6. Chains(link) = CHOOSE g : Solves(g, W)
    BY DEF Chains, Longer, W
  <1>7. Solves(Chains(link), W)
    <2> HIDE DEF Solves
    <2> QED
      BY <1>5, <1>6
  <1> QED
    BY <1>7 DEF W

\* From n on, link leads through s[1] .. s[len] and no further.
Leads(link, n, s, len) ==
  /\ n = IF len = 0 THEN Null ELSE s[1]
  /\ \A i \in 1 .. len : link[s[i]] = IF i = len THEN Null ELSE s[i + 1]

\* A chain of at most as many nodes as there are is followed to its end.
LEMMA FollowIs ==
  ASSUME NEW link, NEW len \in Nat, NEW s \in [1 .. len -> Node], len <= Cardinality(Node),
         NEW n, Leads(link, n, s, len)
  PROVE  /\ Follow(link, n) \in Seq(Node)
         /\ Len(Follow(link, n)) = len
         /\ \A i \in 1 .. len : Follow(link, n)[i] = s[i]
  <1> DEFINE W == Cardinality(Node) + 1
             C == Chains(link)
             At(d) == IF d = 0 THEN Null ELSE s[len - d + 1]
             \* t holds the last d of the nodes.
             Rest(t, d) == /\ t \in Seq(Node) /\ Len(t) = d
                           /\ \A i \in 1 .. d : t[i] = s[len - d + i]
             S == {d \in 0 .. len : \A f \in d .. W : Rest(C[f][At(d)], d)}
  <1>1. W \in Nat /\ len < W
    BY NodeAssumption, FS_CardinalityType
  <1>2. ASSUME NEW f \in 0 .. W
        PROVE  /\ C[f][Null] = << >>
               /\ f # 0 => \A m \in Node : C[f][m] = << m >> \o C[f - 1][link[m]]
    <2>1. C[f] = Longer(link, C[f - 1], f)
      BY ChainsAre
    <2> HIDE DEF C
    <2> QED
      BY <2>1, NullAssumption DEF Longer
  <1> HIDE DEF W, C
  <1>3. 0 \in S
    <2>1. ASSUME NEW f \in 0 .. W PROVE Rest(C[f][At(0)], 0)
      <3>1. C[f][At(0)] = << >>
        BY <1>2
      <3> QED
        BY <3>1
    <2> HIDE DEF Rest, At
    <2> QED
      BY <2>1
  <1>4. ASSUME NEW d \in 0 .. len, d < len, d \in S PROVE d + 1 \in S
    <2>1. ASSUME NEW f \in d + 1 .. W PROVE Rest(C[f][At(d + 1)], d + 1)
      <3> DEFINE t == C[f - 1][At(d)]
                 m == s[len - d]
      <3>1. f \in 0 .. W /\ f # 0 /\ f - 1 \in d .. W /\ len - d \in 1 .. len
        BY <1>1, <1>4
      <3>2. Rest(t, d)
        <4> HIDE DEF Rest, At
        <4> QED
          BY <3>1, <1>4
      <3>3. m \in Node /\ At(d + 1) = m
        BY <3>1
      <3>4. link[m] = At(d)
        <4>1. link[m] = IF len - d = len THEN Null ELSE s[len - d + 1]
          BY <3>1 DEF Leads
        <4> QED
          BY <4>1, <3>1
      <3>5. C[f][m] = << m >> \o t
        BY <3>1, <3>3, <3>4, <1>2
      <3> HIDE DEF t
      <3>6. << m >> \o t \in Seq(Node) /\ Len(<< m >> \o t) = d + 1
        BY <3>2, <3>3
      <3>7. ASSUME NEW i \in 1 .. d + 1 PROVE (<< m >> \o t)[i] = s[len - (d + 1) + i]
        <4>1. CASE i = 1
          <5>1. (<< m >> \o t)[1] = m
            BY <3>2, <3>3
          <5>2. len - (d + 1) + 1 = len - d
            BY <3>1
          <5> QED
            BY <4>1, <5>1, <5>2
        <4>2. CASE i # 1
          <5>1. i - 1 \in 1 .. d
            BY <4>2
          <5>2. (<< m >> \o t)[i] = t[i - 1]
            BY <3>2, <3>3, <4>2, <5>1
          <5>3. t[i - 1] = s[len - d + (i - 1)]
            BY <3>2, <5>1
          <5>4. len - d + (i - 1) = len - (d + 1) + i
            BY <3>1
          <5> QED
            BY <5>2, <5>3, <5>4
        <4> QED
          BY <4>1, <4>2
      <3> QED
        BY <3>3, <3>5, <3>6, <3>7
    <2> HIDE DEF Rest, At
    <2> QED
      BY <1>4, <2>1
  <1>5. len \in S
    <2> HIDE DEF S
    <2>1. \A d \in 0 .. len : d \in S
      BY <1>3, <1>4, Induction
    <2> QED
      BY <2>1
  <1>6. W \in len .. W /\ At(len) = n
    BY <1>1 DEF Leads
  <1>7. Rest(C[W][n], len)
    <2>1. \A f \in len .. W : Rest(C[f][At(len)], len)
      <3> HIDE DEF Rest, At
      <3> QED
        BY <1>5
    <2> HIDE DEF Rest, At
    <2> QED
      BY <2>1, <1>6
  <1>8. Follow(link, n) = C[W][n]
    BY DEF Follow, Chains, C, W
  <1> QED
    BY <1>7, <1>8

\* There are at most as many nodes on a list as there are nodes.
LEMMA Few ==
  ASSUME NEW len \in Nat, NEW s \in [1 .. len -> Node],
         \A i, j \in 1 .. len : s[i] = s[j] => i = j
  PROVE  len <= Cardinality(Node)
  <1>1. IsFiniteSet(1 .. len) /\ Cardinality(1 .. len) = len
    <2>1. 1 \in Int /\ len \in Int
      OBVIOUS
    <2>2. IsFiniteSet(1 .. len) /\ Cardinality(1 .. len) = IF 1 > len THEN 0 ELSE len - 1 + 1
      BY <2>1, FS_Interval
    <2> QED
      BY <2>2
  <1>2. Cardinality(Node) \in Nat /\ IsFiniteSet(Node)
    BY NodeAssumption, FS_CardinalityType
  <1>3. ~ (Cardinality(Node) < Cardinality(1 .. len))
    <2>1. ASSUME Cardinality(Node) < Cardinality(1 .. len)
          PROVE  \E i, j \in 1 .. len : i # j /\ s[i] = s[j]
      BY <2>1, <1>1, <1>2, FS_PigeonHole
    <2> QED
      BY <2>1
  <1> QED
    BY <1>1, <1>2, <1>3

\* What a list spells out is what the loop from begin() meets.
LEMMA ForwardIs ==
  ASSUME NEW l \in List, Spelled(nodes[l], links, l)
  PROVE  \E len \in Nat : \E s \in [1 .. len -> Node] :
           /\ Spells(nodes[l], links, l, s, len)
           /\ len <= Cardinality(Node)
           /\ Len(Forward(l)) = len
           /\ \A i \in 1 .. len : Forward(l)[i] = s[i]
  <1>1. PICK len \in Nat : \E s \in [1 .. len -> Node] : Spells(nodes[l], links, l, s, len)
    BY SpellsApart
  <1>2. PICK s \in [1 .. len -> Node] : Spells(nodes[l], links, l, s, len)
    BY <1>1
  <1>3. len <= Cardinality(Node)
    <2>1. \A i, j \in 1 .. len : s[i] = s[j] => i = j
      BY <1>2 DEF Spells, Each
    <2> QED
      BY <2>1, Few
  <1>4. Leads(links.next, links.first[l], s, len)
    BY <1>2 DEF Spells, Leads
  <1>5. Len(Forward(l)) = len /\ \A i \in 1 .. len : Forward(l)[i] = s[i]
    BY <1>3, <1>4, FollowIs DEF Forward
  <1> QED
    BY <1>2, <1>3, <1>5

LEMMA IndexIs ==
  ASSUME NEW k, NEW l, NEW N, NEW len \in Nat, NEW s \in [1 .. len -> Node],
         Spells(N, links, l, s, len), len <= Cardinality(Node), NEW p \in 1 .. len
  PROVE  Index(s[p]) = p - 1
  <1> DEFINE r == [j \in 1 .. p - 1 |-> s[p - j]]
             n == links.prev[s[p]]
  <1>1. p - 1 \in Nat /\ r \in [1 .. p - 1 -> Node] /\ p - 1 <= Cardinality(Node)
    BY NodeAssumption, FS_CardinalityType
  <1>2. n = IF p - 1 = 0 THEN Null ELSE r[1]
    BY DEF Spells
  <1>3. ASSUME NEW j \in 1 .. p - 1
        PROVE  links.prev[r[j]] = IF j = p - 1 THEN Null ELSE r[j + 1]
    <2>1. p - j \in 1 .. len /\ r[j] = s[p - j]
      OBVIOUS
    <2>2. links.prev[s[p - j]] = IF p - j = 1 THEN Null ELSE s[p - j - 1]
      BY <2>1 DEF Spells
    <2>3. j # p - 1 => r[j + 1] = s[p - j - 1]
      OBVIOUS
    <2> QED
      BY <2>1, <2>2, <2>3
  <1>4. Leads(links.prev, n, r, p - 1)
    <2> HIDE DEF r, n
    <2> QED
      BY <1>2, <1>3 DEF Leads
  <1> HIDE DEF r
  <1>5. Len(Follow(links.prev, n)) = p - 1
    <2>1. PICK q \in Nat : q = p - 1
      BY <1>1
    <2>2. r \in [1 .. q -> Node] /\ q <= Cardinality(Node) /\ Leads(links.prev, n, r, q)
      BY <2>1, <1>1, <1>4
    <2> HIDE DEF n
    <2>3. Len(Follow(links.prev, n)) = q
      BY <2>2, FollowIs
    <2> QED
      BY <2>1, <2>3
  <1> QED
    BY <1>5 DEF Index

LEMMA SpelledAgree ==
  ASSUME Inv
  PROVE  ListsAgree
  <1>1. TypeOK
    BY DEF Inv
  <1>2. ASSUME NEW l \in List
        PROVE  /\ Represents(nodes[l], links, l, Forward(l), Len(Forward(l)))
               /\ \A n \in nodes[l] : IsAt(l, Index(n), n)
    <2> DEFINE F == Forward(l)
    <2>1. Spelled(nodes[l], links, l)
      BY DEF Inv, Lists, AllSpelled
    <2>2. PICK len \in Nat : \E s \in [1 .. len -> Node] :
            /\ Spells(nodes[l], links, l, s, len)
            /\ len <= Cardinality(Node)
            /\ Len(F) = len
            /\ \A i \in 1 .. len : F[i] = s[i]
      BY <2>1, ForwardIs
    <2>3. PICK s \in [1 .. len -> Node] :
            /\ Spells(nodes[l], links, l, s, len)
            /\ len <= Cardinality(Node)
            /\ Len(F) = len
            /\ \A i \in 1 .. len : F[i] = s[i]
      BY <2>2
    <2> HIDE DEF F
    <2>4. nodes[l] = {F[i] : i \in 1 .. len}
      <3>1. \A x : x \in nodes[l] <=> x \in {F[i] : i \in 1 .. len}
        BY <2>3 DEF Spells, Each
      <3> QED
        BY <3>1
    <2>5. /\ \A i, j \in 1 .. len : F[i] = F[j] => i = j
          /\ links.first[l] = IF len = 0 THEN Null ELSE F[1]
          /\ links.last[l] = IF len = 0 THEN Null ELSE F[len]
          /\ \A i \in 1 .. len :
               /\ links.next[F[i]] = IF i = len THEN Null ELSE F[i + 1]
               /\ links.prev[F[i]] = IF i = 1 THEN Null ELSE F[i - 1]
      BY <2>3 DEF Spells, Each
    <2>6. Represents(nodes[l], links, l, F, Len(F))
      BY <2>3, <2>4, <2>5 DEF Represents
    <2>7. ASSUME NEW n \in nodes[l] PROVE IsAt(l, Index(n), n)
      <3>1. PICK p \in 1 .. len : s[p] = n
        BY <2>3 DEF Spells, Each
      <3>2. Index(n) = p - 1
        BY <2>3, <3>1, IndexIs
      <3>3. p - 1 < Len(F) /\ F[(p - 1) + 1] = n
        BY <2>3, <3>1
      <3> QED
        BY <3>2, <3>3 DEF IsAt, F
    <2> QED
      BY <2>6, <2>7 DEF F
  <1> QED
    BY <1>1, <1>2 DEF ListsAgree, LinksAgree, IndexFindsNode

\* After any operations, on any number of lists, a loop from begin() visits just
\* what the ownership map holds, each node once, the way back from the last node
\* is the same way, and at() finds each node where its index() says it is.
THEOREM Agreement == Spec => []ListsAgree
  <1>1. Inv => ListsAgree
    BY SpelledAgree
  <1> QED
    BY <1>1, Invariance, PTL

-----------------------------------------------------------------------------
(* The sequences of ListOrder *)

\* A sequence, as a function on the numbers up to its length.
LEMMA SequenceIs ==
  ASSUME NEW S, NEW len \in Nat, NEW s \in [1 .. len -> S]
  PROVE  s \in Seq(S) /\ Len(s) = len /\ DOMAIN s = 1 .. len
  OBVIOUS

LEMMA SameSequence ==
  ASSUME NEW S, NEW len \in Nat, NEW s \in [1 .. len -> S], NEW t \in Seq(S), Len(t) = len,
         \A i \in 1 .. len : t[i] = s[i]
  PROVE  t = s
  OBVIOUS

LEMMA Joined ==
  ASSUME NEW S, NEW a \in Seq(S), NEW b \in Seq(S)
  PROVE  /\ a \o b \in Seq(S) /\ Len(a \o b) = Len(a) + Len(b)
         /\ \A i \in 1 .. Len(a) + Len(b) :
              (a \o b)[i] = IF i <= Len(a) THEN a[i] ELSE b[i - Len(a)]
  BY ConcatProperties

LEMMA PutIs ==
  ASSUME NEW S, NEW len \in Nat, NEW s \in [1 .. len -> S], NEW n \in S, NEW q \in 1 .. len + 1,
         NEW t \in [1 .. len + 1 -> S], Put(s, t, len, q, n)
  PROVE  Order!InsertAt(s, q, n) = t
  <1>1. s \in Seq(S) /\ Len(s) = len
    BY SequenceIs
  <1> DEFINE a == SubSeq(s, 1, q - 1)
             b == SubSeq(s, q, len)
  <1>2. /\ a \in Seq(S) /\ Len(a) = q - 1
        /\ b \in Seq(S) /\ Len(b) = len + 1 - q
        /\ \A i \in 1 .. q - 1 : a[i] = s[i]
        /\ \A i \in 1 .. len + 1 - q : b[i] = s[q + i - 1]
    BY <1>1
  <1> HIDE DEF a, b
  <1> DEFINE c == a \o << n >>
  <1>3. c \in Seq(S) /\ Len(c) = q /\ \A i \in 1 .. q : c[i] = IF i < q THEN s[i] ELSE n
    BY <1>2
  <1>4. Order!InsertAt(s, q, n) = c \o b
    BY <1>1 DEF Order!InsertAt, a, b
  <1> HIDE DEF c
  <1>5. PICK w \in Nat : w = len + 1
    OBVIOUS
  <1>6. /\ c \o b \in Seq(S) /\ Len(c \o b) = w
        /\ \A i \in 1 .. w : (c \o b)[i] = IF i <= q THEN c[i] ELSE b[i - q]
    <2>1. PICK y \in Nat : y = len + 1 - q
      OBVIOUS
    <2>0. c \in Seq(S) /\ b \in Seq(S) /\ Len(c) = q /\ Len(b) = y /\ q \in Nat
      BY <1>2, <1>3, <2>1
    <2>2. /\ c \o b \in Seq(S) /\ Len(c \o b) = q + y
          /\ \A i \in 1 .. q + y : (c \o b)[i] = IF i <= q THEN c[i] ELSE b[i - q]
      <3>1. /\ c \o b \in Seq(S) /\ Len(c \o b) = Len(c) + Len(b)
            /\ \A i \in 1 .. Len(c) + Len(b) :
                 (c \o b)[i] = IF i <= Len(c) THEN c[i] ELSE b[i - Len(c)]
        BY <2>0, Joined
      <3> QED
        BY ONLY <2>0, <3>1
    <2>3. q + y = w
      BY <1>5, <2>1
    <2> QED
      BY <2>2, <2>3
  <1>7. \A i \in 1 .. w : (c \o b)[i] = t[i]
    <2> TAKE i \in 1 .. w
    <2>1. (c \o b)[i] = IF i <= q THEN c[i] ELSE b[i - q]
      BY <1>6
    <2>2. t[i] = IF i < q THEN s[i] ELSE IF i = q THEN n ELSE s[i - 1]
      BY <1>5 DEF Put
    <2>3. CASE i <= q
      BY <1>3, <2>1, <2>2, <2>3
    <2>4. CASE ~(i <= q)
      <3>1. i - q \in 1 .. len + 1 - q
        BY <1>5, <2>4
      <3>2. b[i - q] = s[q + (i - q) - 1]
        BY <1>2, <3>1
      <3>3. q + (i - q) - 1 = i - 1
        OBVIOUS
      <3> QED
        BY <2>1, <2>2, <2>4, <3>2, <3>3
    <2> QED
      BY <2>3, <2>4
  <1>8. t \in [1 .. w -> S]
    BY <1>5
  <1> QED
    BY <1>4, <1>6, <1>7, <1>8, SameSequence

LEMMA TakenIs ==
  ASSUME NEW S, NEW len \in Nat, NEW s \in [1 .. len -> S], NEW p \in 1 .. len,
         NEW t \in [1 .. len - 1 -> S], Taken(s, t, len, p)
  PROVE  Order!RemoveAt(s, p) = t
  <1>1. s \in Seq(S) /\ Len(s) = len /\ len - 1 \in Nat
    BY SequenceIs
  <1> DEFINE a == SubSeq(s, 1, p - 1)
             b == SubSeq(s, p + 1, len)
  <1>2. /\ a \in Seq(S) /\ Len(a) = p - 1
        /\ b \in Seq(S) /\ Len(b) = len - p
        /\ \A i \in 1 .. p - 1 : a[i] = s[i]
        /\ \A i \in 1 .. len - p : b[i] = s[p + i]
    BY <1>1
  <1> HIDE DEF a, b
  <1>3. Order!RemoveAt(s, p) = a \o b
    BY <1>1 DEF Order!RemoveAt, a, b
  <1>4. PICK w \in Nat : w = len - 1
    BY <1>1
  <1>5. /\ a \o b \in Seq(S) /\ Len(a \o b) = w
        /\ \A i \in 1 .. w : (a \o b)[i] = IF i <= p - 1 THEN a[i] ELSE b[i - (p - 1)]
    <2>1. PICK x \in Nat, y \in Nat : x = p - 1 /\ y = len - p
      OBVIOUS
    <2>0. a \in Seq(S) /\ b \in Seq(S) /\ Len(a) = x /\ Len(b) = y
      BY <1>2, <2>1
    <2>2. /\ a \o b \in Seq(S) /\ Len(a \o b) = x + y
          /\ \A i \in 1 .. x + y : (a \o b)[i] = IF i <= x THEN a[i] ELSE b[i - x]
      <3>1. /\ a \o b \in Seq(S) /\ Len(a \o b) = Len(a) + Len(b)
            /\ \A i \in 1 .. Len(a) + Len(b) :
                 (a \o b)[i] = IF i <= Len(a) THEN a[i] ELSE b[i - Len(a)]
        BY <2>0, Joined
      <3> QED
        BY ONLY <2>0, <3>1
    <2>3. x + y = w
      BY <1>4, <2>1
    <2> QED
      BY <2>1, <2>2, <2>3
  <1>6. \A i \in 1 .. w : (a \o b)[i] = t[i]
    <2> TAKE i \in 1 .. w
    <2>1. (a \o b)[i] = IF i <= p - 1 THEN a[i] ELSE b[i - (p - 1)]
      BY <1>5
    <2>2. t[i] = IF i < p THEN s[i] ELSE s[i + 1]
      BY <1>4 DEF Taken
    <2>3. CASE i < p
      BY <1>2, <2>1, <2>2, <2>3
    <2>4. CASE ~(i < p)
      <3>1. i - (p - 1) \in 1 .. len - p
        BY <1>4, <2>4
      <3>2. b[i - (p - 1)] = s[p + (i - (p - 1))]
        BY <1>2, <3>1
      <3>3. p + (i - (p - 1)) = i + 1
        OBVIOUS
      <3> QED
        BY <2>1, <2>2, <2>4, <3>2, <3>3
    <2> QED
      BY <2>3, <2>4
  <1>7. t \in [1 .. w -> S]
    BY <1>4
  <1> QED
    BY <1>3, <1>5, <1>6, <1>7, SameSequence

-----------------------------------------------------------------------------
(* LinkedList implements ListOrder *)

\* What a loop from begin() meets, and the order of all the lists.
Walk(k, l) == Follow(k.next, k.first[l])
Orders(k) == [l \in List |-> Walk(k, l)]

\* The values a loop that copies has still to copy.
Left(k, v, c) == LET s == Follow(k.next, c.from) IN [i \in DOMAIN s |-> v[s[i]]]

\* The sequence of nodes from "from" on.
LEMMA FollowExactly ==
  ASSUME NEW link, NEW len \in Nat, NEW s \in [1 .. len -> Node], len <= Cardinality(Node),
         NEW n, Leads(link, n, s, len)
  PROVE  Follow(link, n) = s
  <1>1. /\ Follow(link, n) \in Seq(Node)
        /\ Len(Follow(link, n)) = len
        /\ \A i \in 1 .. len : Follow(link, n)[i] = s[i]
    BY FollowIs
  <1> QED
    BY <1>1, SameSequence

LEMMA FollowNull ==
  ASSUME NEW link
  PROVE  Follow(link, Null) = << >>
  <1>1. Cardinality(Node) \in Nat
    BY NodeAssumption, FS_CardinalityType
  <1>2. PICK len \in Nat : len = 0
    OBVIOUS
  <1>3. PICK s \in [1 .. len -> Node] : TRUE
    <2>1. << >> \in [1 .. len -> Node]
      BY <1>2
    <2> QED
      BY <2>1
  <1>4. Leads(link, Null, s, len)
    BY <1>2 DEF Leads
  <1>5. len <= Cardinality(Node)
    BY <1>1, <1>2
  <1>6. Follow(link, Null) = s
    BY <1>4, <1>5, FollowExactly
  <1> QED
    BY <1>2, <1>6

LEMMA WalkIs ==
  ASSUME NEW k, NEW l, NEW N, NEW len \in Nat, NEW s \in [1 .. len -> Node],
         Spells(N, k, l, s, len)
  PROVE  Walk(k, l) = s /\ len <= Cardinality(Node)
  <1>1. \A i, j \in 1 .. len : s[i] = s[j] => i = j
    BY DEF Spells, Each
  <1>2. len <= Cardinality(Node)
    BY <1>1, Few
  <1>3. Leads(k.next, k.first[l], s, len)
    BY DEF Spells, Leads
  <1> QED
    BY <1>2, <1>3, FollowExactly DEF Walk

\* From its p-th node on, a list is followed through what comes after it.
LEMMA RestIs ==
  ASSUME NEW k, NEW l, NEW N, NEW len \in Nat, NEW s \in [1 .. len -> Node],
         Spells(N, k, l, s, len), NEW p \in 1 .. len,
         NEW w \in Nat, w = len - p + 1, NEW r \in [1 .. w -> Node],
         \A i \in 1 .. w : r[i] = s[p + i - 1]
  PROVE  Follow(k.next, s[p]) = r
  <1>1. w <= Cardinality(Node)
    BY WalkIs, NodeAssumption, FS_CardinalityType
  <1>2. ASSUME NEW i \in 1 .. w
        PROVE  k.next[r[i]] = IF i = w THEN Null ELSE r[i + 1]
    <2>1. p + i - 1 \in 1 .. len /\ r[i] = s[p + i - 1] /\ (p + i - 1 = len <=> i = w)
      OBVIOUS
    <2>2. k.next[s[p + i - 1]] = IF p + i - 1 = len THEN Null ELSE s[(p + i - 1) + 1]
      BY <2>1 DEF Spells
    <2>3. i # w => r[i + 1] = s[(p + i - 1) + 1]
      OBVIOUS
    <2> QED
      BY <2>1, <2>2, <2>3
  <1>3. Leads(k.next, s[p], r, w)
    <2>1. w # 0 /\ r[1] = s[p]
      OBVIOUS
    <2> QED
      BY <1>2, <2>1 DEF Leads
  <1> QED
    BY <1>1, <1>3, FollowExactly

\* Each list has its sequence.
LEMMA ListSpells ==
  ASSUME Lists, NEW l \in List
  PROVE  \E len \in Nat : \E s \in [1 .. len -> Node] :
           Spells(nodes[l], links, l, s, len) /\ Walk(links, l) = s
  <1>1. PICK len \in Nat : \E s \in [1 .. len -> Node] : Spells(nodes[l], links, l, s, len)
    BY ListFacts, SpellsApart
  <1>2. PICK s \in [1 .. len -> Node] : Spells(nodes[l], links, l, s, len)
    BY <1>1
  <1> QED
    BY <1>2, WalkIs

\* The variables of ListOrder, as the links and the loop give them.
Pending(k, v, c) == [to |-> c.to, at |-> c.at, rest |-> Left(k, v, c)]

LEMMA OrdersAre ==
  /\ [l \in List |-> Forward(l)] = Orders(links)
  /\ [l \in List |-> Forward(l)]' = Orders(links')
  BY DEF Orders, Walk, Forward

LEMMA PendingIs ==
  /\ [ to |-> copying.to, at |-> copying.at,
       rest |-> LET s == Follow(links.next, copying.from)
                IN  [i \in DOMAIN s |-> val[s[i]]] ] = Pending(links, val, copying)
  /\ [ to |-> copying.to, at |-> copying.at,
       rest |-> LET s == Follow(links.next, copying.from)
                IN  [i \in DOMAIN s |-> val[s[i]]] ]' = Pending(links', val', copying')
  BY DEF Pending, Left

LEMMA IdlePending ==
  ASSUME NEW k, NEW v
  PROVE  Pending(k, v, Idle) = Order!Idle
  <1>1. Follow(k.next, Idle.from) = << >>
    BY FollowNull DEF Idle
  <1>2. Left(k, v, Idle) = << >>
    BY <1>1 DEF Left
  <1> QED
    BY <1>2 DEF Pending, Idle, Order!Idle

\* While no loop copies, and after a step that starts none, nothing is pending.
LEMMA StaysIdle ==
  ASSUME copying = Idle, copying' = Idle
  PROVE  /\ Pending(links, val, copying) = Order!Idle
         /\ Pending(links', val', copying') = Order!Idle
  BY IdlePending

LEMMA NothingPending ==
  ASSUME copying = Idle, copying' = Idle
  PROVE  LET pending == [ to |-> copying.to, at |-> copying.at,
                          rest |-> LET s == Follow(links.next, copying.from)
                                   IN  [i \in DOMAIN s |-> val[s[i]]] ]
         IN  pending = Order!Idle /\ pending' = pending
  BY StaysIdle, PendingIs

LEMMA MembersAre ==
  ASSUME Lists, NEW l \in List
  PROVE  Order!Members(l) = nodes[l]
  <1>1. PICK len \in Nat : \E s \in [1 .. len -> Node] :
          Spells(nodes[l], links, l, s, len) /\ Walk(links, l) = s
    BY ListSpells
  <1>2. PICK s \in [1 .. len -> Node] : Spells(nodes[l], links, l, s, len) /\ Walk(links, l) = s
    BY <1>1
  <1>3. Orders(links)[l] = s /\ DOMAIN s = 1 .. len
    BY <1>2 DEF Orders
  <1>4. Order!Members(l) = {s[i] : i \in 1 .. len}
    BY <1>3, OrdersAre DEF Order!Members, Order!Range0
  <1> QED
    BY <1>2, <1>4 DEF Spells, Each

LEMMA FreeIs ==
  ASSUME Lists
  PROVE  Order!Free = Free
  BY MembersAre DEF Order!Free, Free

\* A step that changes one list changes one sequence.
LEMMA OneOrder ==
  ASSUME Lists, NEW l \in List, NEW N \in SUBSET Node, N \subseteq nodes[l] \cup Free,
         Frame(links, links', l, nodes[l] \cup N),
         NEW len \in Nat, NEW t \in [1 .. len -> Node], Spells(N, links', l, t, len)
  PROVE  Orders(links') = [Orders(links) EXCEPT ![l] = t]
  <1>1. \A m \in List \ {l} : nodes[m] \cap (nodes[l] \cup N) = {} /\ nodes[m] \in SUBSET Node
    BY DEF Lists, Disjoint, Free
  <1>2. ASSUME NEW m \in List \ {l} PROVE Walk(links', m) = Walk(links, m)
    <2>1. PICK d \in Nat : \E s \in [1 .. d -> Node] :
            Spells(nodes[m], links, m, s, d) /\ Walk(links, m) = s
      BY ListSpells
    <2>2. PICK s \in [1 .. d -> Node] : Spells(nodes[m], links, m, s, d) /\ Walk(links, m) = s
      BY <2>1
    <2>3. links \in Links
      BY DEF Lists
    <2>4. Spells(nodes[m], links', m, s, d)
      BY <1>1, <2>2, <2>3, FrameSpells
    <2> QED
      BY <2>2, <2>4, WalkIs
  <1>3. Walk(links', l) = t
    BY WalkIs
  <1> QED
    BY <1>2, <1>3 DEF Orders

-----------------------------------------------------------------------------
(* The steps of ListOrder *)

LEMMA PlaceMaps ==
  ASSUME Lists, NEW l \in List, NEW n \in Free, NEW v, NEW q,
         Orders(links') = [Orders(links) EXCEPT ![l] = Order!InsertAt(@, q, n)],
         val' = [val EXCEPT ![n] = v]
  PROVE  Order!Place(l, q, n, v)
  BY OrdersAre, FreeIs DEF Order!Place

LEMMA AdoptMaps ==
  ASSUME Lists, NEW l \in List, NEW n \in Node, NEW v, NEW k2, Adopt(l, n, v, k2),
         Frame(links, k2, l, nodes[l] \cup {n}),
         NEW len \in Nat, NEW s \in [1 .. len -> Node], Spells(nodes[l], links, l, s, len),
         NEW q \in 1 .. len + 1, Gets(nodes[l], k2, l, s, len, n, q)
  PROVE  Order!Place(l, q, n, v)
  <1>0. PICK t \in [1 .. len + 1 -> Node] :
          Spells(nodes[l] \cup {n}, k2, l, t, len + 1) /\ Put(s, t, len, q, n)
    BY DEF Gets
  <1> DEFINE N == nodes[l] \cup {n}
  <1>1. /\ N \in SUBSET Node /\ N \subseteq nodes[l] \cup Free /\ nodes[l] \cup N = N
        /\ n \in Free /\ links' = k2 /\ val' = [val EXCEPT ![n] = v]
    BY DEF Adopt, Lists
  <1>2. PICK w \in Nat : w = len + 1
    OBVIOUS
  <1>3. t \in [1 .. w -> Node] /\ Spells(N, links', l, t, w)
    BY <1>0, <1>1, <1>2
  <1> HIDE DEF N
  <1>4. Frame(links, links', l, nodes[l] \cup N)
    BY <1>1 DEF N
  <1>5. Orders(links') = [Orders(links) EXCEPT ![l] = t]
    BY <1>1, <1>3, <1>4, OneOrder
  <1>6. Orders(links)[l] = s
    BY WalkIs DEF Orders
  <1>7. Order!InsertAt(s, q, n) = t
    BY <1>0, PutIs
  <1>8. Orders(links') = [Orders(links) EXCEPT ![l] = Order!InsertAt(@, q, n)]
    BY <1>5, <1>6, <1>7
  <1> QED
    BY <1>1, <1>8, PlaceMaps

LEMMA BackMaps ==
  ASSUME Lists, NEW l \in List, NEW n \in Node, NEW v, Adopt(l, n, v, LinkBack(links, l, n))
  PROVE  Order!Place(l, Len(Walk(links, l)) + 1, n, v)
  <1>1. nodes[l] \in SUBSET Node /\ links \in Links /\ n \in Node \ nodes[l]
    BY ListFacts, AdoptIsNew
  <1>2. PICK len \in Nat : \E s \in [1 .. len -> Node] :
          Spells(nodes[l], links, l, s, len) /\ Walk(links, l) = s
    BY ListSpells
  <1>3. PICK s \in [1 .. len -> Node] : Spells(nodes[l], links, l, s, len) /\ Walk(links, l) = s
    BY <1>2
  <1>4. /\ Frame(links, LinkBack(links, l, n), l, nodes[l] \cup {n})
        /\ Gets(nodes[l], LinkBack(links, l, n), l, s, len, n, len + 1)
    BY <1>1, <1>3, LinkBackSpells
  <1>6. PICK q \in 1 .. len + 1 : q = len + 1 /\ Gets(nodes[l], LinkBack(links, l, n), l, s, len, n, q)
    BY <1>4
  <1>7. Order!Place(l, q, n, v)
    BY <1>3, <1>4, <1>6, AdoptMaps
  <1>8. Len(Walk(links, l)) + 1 = q
    BY <1>3, <1>6
  <1> QED
    BY <1>7, <1>8

LEMMA FrontMaps ==
  ASSUME Lists, NEW l \in List, NEW n \in Node, NEW v, Adopt(l, n, v, LinkFront(links, l, n))
  PROVE  Order!Place(l, 1, n, v) /\ 1 \in 1 .. Len(Walk(links, l)) + 1
  <1>1. nodes[l] \in SUBSET Node /\ links \in Links /\ n \in Node \ nodes[l]
    BY ListFacts, AdoptIsNew
  <1>2. PICK len \in Nat : \E s \in [1 .. len -> Node] :
          Spells(nodes[l], links, l, s, len) /\ Walk(links, l) = s
    BY ListSpells
  <1>3. PICK s \in [1 .. len -> Node] : Spells(nodes[l], links, l, s, len) /\ Walk(links, l) = s
    BY <1>2
  <1>4. /\ Frame(links, LinkFront(links, l, n), l, nodes[l] \cup {n})
        /\ Gets(nodes[l], LinkFront(links, l, n), l, s, len, n, 1)
    BY <1>1, <1>3, LinkFrontSpells
  <1>6. PICK q \in 1 .. len + 1 : q = 1 /\ Gets(nodes[l], LinkFront(links, l, n), l, s, len, n, q)
    BY <1>4
  <1>7. Order!Place(l, q, n, v)
    BY <1>3, <1>4, <1>6, AdoptMaps
  <1> QED
    BY <1>3, <1>6, <1>7

LEMMA BeforeMaps ==
  ASSUME Lists, NEW l \in List, NEW n \in Node, NEW v, NEW pos \in nodes[l],
         Adopt(l, n, v, LinkBefore(links, l, n, pos))
  PROVE  \E p \in 1 .. Len(Walk(links, l)) : Walk(links, l)[p] = pos /\ Order!Place(l, p, n, v)
  <1>1. nodes[l] \in SUBSET Node /\ links \in Links /\ n \in Node \ nodes[l]
    BY ListFacts, AdoptIsNew
  <1>2. PICK len \in Nat : \E s \in [1 .. len -> Node] :
          Spells(nodes[l], links, l, s, len) /\ Walk(links, l) = s
    BY ListSpells
  <1>3. PICK s \in [1 .. len -> Node] : Spells(nodes[l], links, l, s, len) /\ Walk(links, l) = s
    BY <1>2
  <1>4. /\ Frame(links, LinkBefore(links, l, n, pos), l, nodes[l] \cup {n})
        /\ \E p \in 1 .. len :
             s[p] = pos /\ Gets(nodes[l], LinkBefore(links, l, n, pos), l, s, len, n, p)
    BY <1>1, <1>3, LinkBeforeSpells
  <1>5. PICK p \in 1 .. len :
          s[p] = pos /\ Gets(nodes[l], LinkBefore(links, l, n, pos), l, s, len, n, p)
    BY <1>4
  <1>6. PICK q \in 1 .. len + 1 : q = p /\ Gets(nodes[l], LinkBefore(links, l, n, pos), l, s, len, n, q)
    BY <1>5
  <1>7. Order!Place(l, q, n, v)
    BY <1>3, <1>4, <1>6, AdoptMaps
  <1> QED
    BY <1>3, <1>5, <1>6, <1>7

LEMMA AfterMaps ==
  ASSUME Lists, NEW l \in List, NEW n \in Node, NEW v, NEW pos \in nodes[l],
         Adopt(l, n, v, LinkAfter(links, l, n, pos))
  PROVE  \E p \in 1 .. Len(Walk(links, l)) :
           Walk(links, l)[p] = pos /\ Order!Place(l, p + 1, n, v)
  <1>1. nodes[l] \in SUBSET Node /\ links \in Links /\ n \in Node \ nodes[l]
    BY ListFacts, AdoptIsNew
  <1>2. PICK len \in Nat : \E s \in [1 .. len -> Node] :
          Spells(nodes[l], links, l, s, len) /\ Walk(links, l) = s
    BY ListSpells
  <1>3. PICK s \in [1 .. len -> Node] : Spells(nodes[l], links, l, s, len) /\ Walk(links, l) = s
    BY <1>2
  <1>4. /\ Frame(links, LinkAfter(links, l, n, pos), l, nodes[l] \cup {n})
        /\ \E p \in 1 .. len :
             s[p] = pos /\ Gets(nodes[l], LinkAfter(links, l, n, pos), l, s, len, n, p + 1)
    BY <1>1, <1>3, LinkAfterSpells
  <1>5. PICK p \in 1 .. len :
          s[p] = pos /\ Gets(nodes[l], LinkAfter(links, l, n, pos), l, s, len, n, p + 1)
    BY <1>4
  <1>6. PICK q \in 1 .. len + 1 : q = p + 1 /\ Gets(nodes[l], LinkAfter(links, l, n, pos), l, s, len, n, q)
    BY <1>5
  <1>7. Order!Place(l, q, n, v)
    BY <1>3, <1>4, <1>6, AdoptMaps
  <1> QED
    BY <1>3, <1>5, <1>6, <1>7

\* Where no loop copies, pending is idle before the step and after it.
LEMMA InsertMaps ==
  ASSUME copying = Idle, copying' = Idle, NEW l \in List, NEW n \in Node, NEW v \in Val,
         NEW q \in 1 .. Len(Walk(links, l)) + 1, Order!Place(l, q, n, v)
  PROVE  Order!Next
  <1>1. Order!Insert(l, q, n, v)
    BY StaysIdle, PendingIs DEF Order!Insert
  <1>2. Orders(links)[l] = Walk(links, l)
    BY DEF Orders
  <1> QED
    BY <1>1, <1>2, OrdersAre DEF Order!Next

LEMMA RemoveMaps ==
  ASSUME Lists, val \in [Node -> Val \cup {Null}],
         NEW l \in List, NEW n \in nodes[l], Remove(l, n)
  PROVE  Order!Next
  <1> DEFINE k1 == Unlink(links, l, n)
             N == nodes[l] \ {n}
  <1>1. /\ copying = Idle /\ copying' = Idle /\ links' = Forget(k1, {n})
        /\ val' = [x \in Node |-> IF x \in {n} THEN Null ELSE val[x]]
    BY DEF Remove, Destroy
  <1>2. nodes[l] \in SUBSET Node /\ links \in Links
    BY ListFacts
  <1>3. PICK len \in Nat : \E s \in [1 .. len -> Node] :
          Spells(nodes[l], links, l, s, len) /\ Walk(links, l) = s
    BY ListSpells
  <1>4. PICK s \in [1 .. len -> Node] : Spells(nodes[l], links, l, s, len) /\ Walk(links, l) = s
    BY <1>3
  <1>5. /\ Frame(links, k1, l, nodes[l])
        /\ \E p \in 1 .. len : s[p] = n /\ Loses(nodes[l], k1, l, s, len, n, p)
    BY <1>2, <1>4, UnlinkSpells
  <1>6. PICK p \in 1 .. len : s[p] = n /\ Loses(nodes[l], k1, l, s, len, n, p)
    BY <1>5
  <1>7. PICK w \in Nat : w = len - 1
    BY <1>6
  <1>8. PICK t \in [1 .. w -> Node] : Spells(N, k1, l, t, w) /\ Taken(s, t, len, p)
    BY <1>6, <1>7 DEF Loses
  <1> HIDE DEF k1
  <1>9. k1 \in Links /\ {n} \in SUBSET Node /\ N \cap {n} = {} /\ N \in SUBSET Node
    BY <1>2, <1>5 DEF Frame
  <1>10. Spells(N, links', l, t, w)
    BY <1>1, <1>8, <1>9, ForgetSpells
  <1>11. Frame(links, links', l, nodes[l])
    <2>1. Frame(k1, links', l, {n})
      BY <1>1, <1>9, ForgetKeeps
    <2>2. Frame(k1, links', l, nodes[l])
      BY <2>1, FrameGrows
    <2> QED
      BY <1>5, <2>2, FrameTwice
  <1>12. nodes[l] \cup N = nodes[l] /\ N \subseteq nodes[l] \cup Free
    OBVIOUS
  <1> HIDE DEF N
  <1>13. Orders(links') = [Orders(links) EXCEPT ![l] = t]
    BY <1>9, <1>10, <1>11, <1>12, OneOrder
  <1>14. Order!RemoveAt(s, p) = t
    BY <1>7, <1>8, TakenIs
  <1>15. Orders(links)[l] = s
    BY <1>4 DEF Orders
  <1>16. Orders(links') = [Orders(links) EXCEPT ![l] = Order!RemoveAt(@, p)]
    BY <1>13, <1>14, <1>15
  <1>17. val' = [val EXCEPT ![Orders(links)[l][p]] = Null]
    BY <1>1, <1>2, <1>6, <1>15
  <1>18. Order!Delete(l, p)
    BY <1>1, <1>16, <1>17, OrdersAre, NothingPending DEF Order!Delete
  <1>19. p \in DOMAIN Orders(links)[l]
    BY <1>15
  <1> QED
    BY <1>18, <1>19, OrdersAre DEF Order!Next

LEMMA TurnsMaps ==
  ASSUME Lists, copying = Idle, copying' = Idle, val' = val, NEW l \in List,
         Frame(links, links', l, nodes[l]),
         NEW len \in Nat, NEW s \in [1 .. len -> Node], Spells(nodes[l], links, l, s, len),
         NEW p \in 1 .. len, NEW q \in 1 .. len, Turns(nodes[l], links', l, s, len, p, q)
  PROVE  Order!Next
  <1>1. PICK t \in [1 .. len -> Node] :
          Spells(nodes[l], links', l, t, len) /\ Exchange(s, t, len, p, q)
    BY DEF Turns
  <1>2. PICK N \in SUBSET Node : N = nodes[l]
    BY ListFacts
  <1>3. Frame(links, links', l, nodes[l] \cup N) /\ N \subseteq nodes[l] \cup Free
    <2>1. nodes[l] \cup N = nodes[l]
      BY <1>2
    <2> QED
      BY <1>2, <2>1
  <1>4. Orders(links') = [Orders(links) EXCEPT ![l] = t]
    BY <1>1, <1>2, <1>3, OneOrder
  <1>5. Orders(links)[l] = s
    BY WalkIs DEF Orders
  <1>6. t = [s EXCEPT ![p] = s[q], ![q] = s[p]]
    BY <1>1 DEF Exchange
  <1> DEFINE O == Orders(links)
  <1>7. Orders(links') = [O EXCEPT ![l] = [[O[l] EXCEPT ![p] = O[l][q]] EXCEPT ![q] = O[l][p]]]
    BY <1>4, <1>5, <1>6
  <1>8. O = [m \in List |-> O[m]] /\ p \in DOMAIN O[l] /\ q \in DOMAIN O[l]
    BY <1>5 DEF Orders
  <1> HIDE DEF O
  <1>9. [O EXCEPT ![l][p] = O[l][q], ![l][q] = O[l][p]]
          = [O EXCEPT ![l] = [[O[l] EXCEPT ![p] = O[l][q]] EXCEPT ![q] = O[l][p]]]
    BY <1>8
  <1>10. Order!Swap(l, p, q)
    BY <1>7, <1>9, OrdersAre, NothingPending DEF Order!Swap, O
  <1> QED
    BY <1>8, <1>10, OrdersAre DEF Order!Next, O

LEMMA SwapMaps ==
  ASSUME Lists, NEW l \in List, NEW a \in nodes[l], NEW b \in nodes[l], Swap(l, a, b)
  PROVE  Order!Next \/ UNCHANGED Order!vars
  <1>1. /\ links' = SwapNodes(links, l, a, b) /\ val' = val
        /\ copying = Idle /\ copying' = Idle
    BY DEF Swap
  <1>2. nodes[l] \in SUBSET Node /\ links \in Links
    BY ListFacts
  <1>3. PICK len \in Nat : \E s \in [1 .. len -> Node] : Spells(nodes[l], links, l, s, len)
    BY ListSpells
  <1>4. PICK s \in [1 .. len -> Node] : Spells(nodes[l], links, l, s, len)
    BY <1>3
  <1>5. CASE a = b
    <2>1. links' = links
      BY <1>1, <1>5 DEF SwapNodes
    <2> QED
      BY <1>1, <2>1, OrdersAre, NothingPending DEF Order!vars
  <1>6. ASSUME NEW x \in nodes[l], NEW y \in nodes[l], x # y, links.next[x] = y,
               links' = SwapAdjacent(links, l, x, y)
        PROVE  Order!Next
    <2>1. /\ Frame(links, links', l, nodes[l])
          /\ \E p, q \in 1 .. len :
               s[p] = x /\ s[q] = y /\ Turns(nodes[l], links', l, s, len, p, q)
      BY <1>2, <1>4, <1>6, SwapAdjacentSpells
    <2> QED
      BY <1>1, <1>4, <2>1, TurnsMaps
  <1>7. CASE a # b /\ links.next[a] # b /\ links.next[b] # a
    <2>1. links' = SwapApart(links, l, a, b)
      BY <1>1, <1>7 DEF SwapNodes
    <2>2. /\ Frame(links, links', l, nodes[l])
          /\ \E p, q \in 1 .. len :
               s[p] = a /\ s[q] = b /\ Turns(nodes[l], links', l, s, len, p, q)
      BY <1>2, <1>4, <1>7, <2>1, SwapApartSpells
    <2> QED
      BY <1>1, <1>4, <2>2, TurnsMaps
  <1>8. CASE a # b /\ links.next[a] = b
    <2>1. links' = SwapAdjacent(links, l, a, b)
      BY <1>1, <1>8 DEF SwapNodes
    <2> QED
      BY <1>6, <1>8, <2>1
  <1>9. CASE a # b /\ links.next[a] # b /\ links.next[b] = a
    <2>1. links' = SwapAdjacent(links, l, b, a)
      BY <1>1, <1>9 DEF SwapNodes
    <2> QED
      BY <1>6, <1>9, <2>1
  <1> QED
    BY <1>5, <1>7, <1>8, <1>9

\* A node that stands in a sequence, in which each stands once, is found in it.
LEMMA Found ==
  ASSUME NEW N, NEW len \in Nat, NEW s \in [1 .. len -> Node], Each(N, s, len),
         NEW q \in 1 .. len
  PROVE  (CHOOSE j \in DOMAIN s : s[j] = s[q]) = q
  BY DEF Each

\* A list loses a node and gets it back, in another place.
LEMMA MoveMaps ==
  ASSUME Lists, copying = Idle, copying' = Idle, val' = val, NEW l \in List,
         NEW n \in nodes[l], NEW pos \in nodes[l], n # pos, NEW k1, NEW N,
         N = nodes[l] \ {n}, Frame(links, links', l, nodes[l]), NEW d \in {0, 1},
         NEW len \in Nat, NEW s \in [1 .. len -> Node], Spells(nodes[l], links, l, s, len),
         NEW p \in 1 .. len, s[p] = n,
         NEW w \in Nat, w = len - 1, NEW u \in [1 .. w -> Node], Taken(s, u, len, p),
         Spells(N, k1, l, u, w), NEW q \in 1 .. w, u[q] = pos,
         NEW i \in 1 .. w + 1, i = q + d, Gets(N, links', l, u, w, n, i)
  PROVE  Order!Next
  <1>1. PICK t \in [1 .. w + 1 -> Node] :
          Spells(N \cup {n}, links', l, t, w + 1) /\ Put(u, t, w, i, n)
    BY DEF Gets
  <1>2. /\ nodes[l] \in SUBSET Node /\ n \in Node /\ N \cup {n} = nodes[l] /\ w + 1 = len
        /\ nodes[l] \cup nodes[l] = nodes[l] /\ nodes[l] \subseteq nodes[l] \cup Free
    BY ListFacts
  <1>3. t \in [1 .. len -> Node] /\ Spells(nodes[l], links', l, t, len)
    BY <1>1, <1>2
  <1>4. PICK M \in SUBSET Node : M = nodes[l]
    BY <1>2
  <1>5. Orders(links') = [Orders(links) EXCEPT ![l] = t]
    <2>1. /\ M \subseteq nodes[l] \cup Free /\ Frame(links, links', l, nodes[l] \cup M)
          /\ Spells(M, links', l, t, len) /\ t \in [1 .. len -> Node]
      BY <1>2, <1>3, <1>4
    <2> QED
      BY ONLY Lists, l \in List, M \in SUBSET Node, len \in Nat, <2>1, OneOrder
  <1>6. Orders(links)[l] = s /\ DOMAIN s = 1 .. len
    BY WalkIs DEF Orders
  <1>7. Order!RemoveAt(s, p) = u
    BY TakenIs
  <1>8. Order!InsertAt(u, i, n) = t
    BY <1>1, <1>2, PutIs
  <1>9. (CHOOSE j \in DOMAIN u : u[j] = pos) = q
    <2>1. Each(N, u, w)
      BY DEF Spells
    <2> QED
      BY <2>1, Found
  <1>10. Order!Move(l, p, pos, d)
    <2> DEFINE O == Orders(links)
               others == Order!RemoveAt(O[l], p)
    <2>1. O[l][p] # pos
      BY <1>6
    <2>2. others = u /\ O[l][p] = n
      BY <1>6, <1>7
    <2>3. Orders(links') = [O EXCEPT ![l] = Order!InsertAt(u, q + d, n)]
      BY <1>5, <1>8
    <2> HIDE DEF O
    <2>4. Orders(links') =
            [O EXCEPT ![l] = Order!InsertAt(Order!RemoveAt(O[l], p),
                               (CHOOSE j \in DOMAIN Order!RemoveAt(O[l], p) :
                                  Order!RemoveAt(O[l], p)[j] = pos) + d, O[l][p])]
      BY <2>2, <2>3, <1>9
    <2>5. [m \in List |-> Forward(m)] = O /\ [m \in List |-> Forward(m)]' = Orders(links')
      BY OrdersAre DEF O
    <2> QED
      BY ZenonT(60), <2>1, <2>4, <2>5, NothingPending DEF Order!Move
  <1>11. pos \in Order!Members(l)
    BY MembersAre
  <1> QED
    BY <1>6, <1>10, <1>11, OrdersAre DEF Order!Next

LEMMA MoveBeforeMaps ==
  ASSUME Lists, NEW l \in List, NEW n \in nodes[l], NEW pos \in nodes[l], MoveBefore(l, n, pos)
  PROVE  Order!Next
  <1>1. PICK k1 \in {Unlink(links, l, n)} : k1 = Unlink(links, l, n)
    OBVIOUS
  <1>2. PICK N \in SUBSET nodes[l] : N = nodes[l] \ {n}
    OBVIOUS
  <1>3. /\ links' = LinkBefore(k1, l, n, pos) /\ val' = val /\ n # pos
        /\ copying = Idle /\ copying' = Idle
    BY <1>1 DEF MoveBefore
  <1>4. nodes[l] \in SUBSET Node /\ links \in Links
    BY ListFacts
  <1>5. PICK len \in Nat : \E s \in [1 .. len -> Node] : Spells(nodes[l], links, l, s, len)
    BY ListSpells
  <1>6. PICK s \in [1 .. len -> Node] : Spells(nodes[l], links, l, s, len)
    BY <1>5
  <1>7. /\ Frame(links, k1, l, nodes[l])
        /\ \E p \in 1 .. len : s[p] = n /\ Loses(nodes[l], k1, l, s, len, n, p)
    BY <1>1, <1>4, <1>6, UnlinkSpells
  <1>8. PICK p \in 1 .. len : s[p] = n /\ Loses(nodes[l], k1, l, s, len, n, p)
    BY <1>7
  <1>9. PICK w \in Nat : w = len - 1
    BY <1>8
  <1>10. PICK u \in [1 .. w -> Node] : Spells(N, k1, l, u, w) /\ Taken(s, u, len, p)
    BY <1>2, <1>8, <1>9 DEF Loses
  <1>11. /\ k1 \in Links /\ N \in SUBSET Node /\ n \in Node \ N /\ pos \in N
         /\ N \cup {n} = nodes[l]
    BY <1>2, <1>3, <1>4, <1>7 DEF Frame
  <1>12. /\ Frame(k1, LinkBefore(k1, l, n, pos), l, N \cup {n})
         /\ \E q \in 1 .. w :
              u[q] = pos /\ Gets(N, LinkBefore(k1, l, n, pos), l, u, w, n, q)
    BY <1>10, <1>11, LinkBeforeSpells
  <1>13. PICK q \in 1 .. w : u[q] = pos /\ Gets(N, links', l, u, w, n, q)
    BY <1>3, <1>12
  <1>14. PICK i \in 1 .. w + 1, d \in {0, 1} : i = q + d /\ d = 0
    OBVIOUS
  <1>15. Gets(N, links', l, u, w, n, i)
    BY <1>13, <1>14
  <1>16. Frame(links, links', l, nodes[l])
    BY <1>3, <1>7, <1>11, <1>12, FrameTwice
  <1> QED
    BY <1>2, <1>3, <1>6, <1>8, <1>9, <1>10, <1>13, <1>14, <1>15, <1>16, MoveMaps

LEMMA MoveAfterMaps ==
  ASSUME Lists, NEW l \in List, NEW n \in nodes[l], NEW pos \in nodes[l], MoveAfter(l, n, pos)
  PROVE  Order!Next
  <1>1. PICK k1 \in {Unlink(links, l, n)} : k1 = Unlink(links, l, n)
    OBVIOUS
  <1>2. PICK N \in SUBSET nodes[l] : N = nodes[l] \ {n}
    OBVIOUS
  <1>3. /\ links' = LinkAfter(k1, l, n, pos) /\ val' = val /\ n # pos
        /\ copying = Idle /\ copying' = Idle
    BY <1>1 DEF MoveAfter
  <1>4. nodes[l] \in SUBSET Node /\ links \in Links
    BY ListFacts
  <1>5. PICK len \in Nat : \E s \in [1 .. len -> Node] : Spells(nodes[l], links, l, s, len)
    BY ListSpells
  <1>6. PICK s \in [1 .. len -> Node] : Spells(nodes[l], links, l, s, len)
    BY <1>5
  <1>7. /\ Frame(links, k1, l, nodes[l])
        /\ \E p \in 1 .. len : s[p] = n /\ Loses(nodes[l], k1, l, s, len, n, p)
    BY <1>1, <1>4, <1>6, UnlinkSpells
  <1>8. PICK p \in 1 .. len : s[p] = n /\ Loses(nodes[l], k1, l, s, len, n, p)
    BY <1>7
  <1>9. PICK w \in Nat : w = len - 1
    BY <1>8
  <1>10. PICK u \in [1 .. w -> Node] : Spells(N, k1, l, u, w) /\ Taken(s, u, len, p)
    BY <1>2, <1>8, <1>9 DEF Loses
  <1>11. /\ k1 \in Links /\ N \in SUBSET Node /\ n \in Node \ N /\ pos \in N
         /\ N \cup {n} = nodes[l]
    BY <1>2, <1>3, <1>4, <1>7 DEF Frame
  <1>12. /\ Frame(k1, LinkAfter(k1, l, n, pos), l, N \cup {n})
         /\ \E q \in 1 .. w :
              u[q] = pos /\ Gets(N, LinkAfter(k1, l, n, pos), l, u, w, n, q + 1)
    BY <1>10, <1>11, LinkAfterSpells
  <1>13. PICK q \in 1 .. w : u[q] = pos /\ Gets(N, links', l, u, w, n, q + 1)
    BY <1>3, <1>12
  <1>14. PICK i \in 1 .. w + 1, d \in {0, 1} : i = q + d /\ d = 1
    OBVIOUS
  <1>15. Gets(N, links', l, u, w, n, i)
    BY <1>13, <1>14
  <1>16. Frame(links, links', l, nodes[l])
    BY <1>3, <1>7, <1>11, <1>12, FrameTwice
  <1> QED
    BY <1>2, <1>3, <1>6, <1>8, <1>9, <1>10, <1>13, <1>14, <1>15, <1>16, MoveMaps

\* From a node of a list on, what is followed is the rest of its sequence.
LEMMA RestOfList ==
  ASSUME Lists, NEW l \in List, NEW n \in nodes[l]
  PROVE  LET s == Walk(links, l)
         IN  \E p \in DOMAIN s : s[p] = n /\ Follow(links.next, n) = SubSeq(s, p, Len(s))
  <1>1. PICK len \in Nat : \E s \in [1 .. len -> Node] :
          Spells(nodes[l], links, l, s, len) /\ Walk(links, l) = s
    BY ListSpells
  <1>2. PICK s \in [1 .. len -> Node] : Spells(nodes[l], links, l, s, len) /\ Walk(links, l) = s
    BY <1>1
  <1>3. PICK p \in 1 .. len : s[p] = n
    BY <1>2 DEF Spells, Each
  <1>4. PICK w \in Nat : w = len - p + 1
    BY <1>3
  <1> DEFINE r == SubSeq(s, p, len)
  <1>5. s \in Seq(Node) /\ Len(s) = len /\ DOMAIN s = 1 .. len
    BY SequenceIs
  <1>6. r \in [1 .. w -> Node] /\ \A i \in 1 .. w : r[i] = s[p + i - 1]
    <2>1. r \in Seq(Node) /\ Len(r) = w
      BY <1>4, <1>5
    <2>2. \A i \in 1 .. w : r[i] = s[p + i - 1]
      BY <1>4, <1>5
    <2> HIDE DEF r
    <2> QED
      BY <2>1, <2>2
  <1> HIDE DEF r
  <1>7. Follow(links.next, s[p]) = r
    BY <1>2, <1>4, <1>6, RestIs
  <1> QED
    BY <1>2, <1>3, <1>5, <1>7 DEF r

LEMMA FirstIs ==
  ASSUME Lists, NEW l \in List
  PROVE  /\ links.first[l] = IF Walk(links, l) = << >> THEN Null ELSE Walk(links, l)[1]
         /\ links.first[l] = Null <=> Walk(links, l) = << >>
  <1>1. PICK len \in Nat : \E s \in [1 .. len -> Node] :
          Spells(nodes[l], links, l, s, len) /\ Walk(links, l) = s
    BY ListSpells
  <1>2. PICK s \in [1 .. len -> Node] : Spells(nodes[l], links, l, s, len) /\ Walk(links, l) = s
    BY <1>1
  <1>3. CASE len = 0
    <2>1. s = << >> /\ links.first[l] = Null
      BY <1>2, <1>3 DEF Spells
    <2> QED
      BY <1>2, <2>1
  <1>4. CASE len # 0
    <2>1. s # << >> /\ links.first[l] = s[1] /\ s[1] # Null
      BY <1>2, <1>4, NullAssumption DEF Spells
    <2> QED
      BY <1>2, <2>1
  <1> QED
    BY <1>3, <1>4

LEMMA StartMaps ==
  ASSUME Lists, NEW l \in List, NEW other \in List, NEW start \in nodes[other]
  PROVE  /\ Prepend(l, start) => Order!Next
         /\ Extend(l, start) => Order!Next
  <1>1. PICK s : s = Walk(links, other)
    OBVIOUS
  <1>2. PICK p \in DOMAIN s : s[p] = start /\ Follow(links.next, start) = SubSeq(s, p, Len(s))
    BY <1>1, RestOfList
  <1> DEFINE O == Orders(links)
             from(c) == c.to = l /\ c.from = start
  <1>3. O[other] = s /\ O[l] = Walk(links, l)
    BY <1>1 DEF Orders
  <1>4. ASSUME NEW c, c.from = start
        PROVE  Left(links, val, c) = Order!Values(SubSeq(s, p, Len(s)))
    BY <1>2, <1>4 DEF Left, Order!Values
  <1>5. ASSUME Prepend(l, start) PROVE Order!Next
    <2>1. /\ copying = Idle /\ links' = links /\ val' = val
          /\ copying' = [to |-> l, at |-> links.first[l], from |-> start]
      BY <1>5 DEF Prepend
    <2>2. Pending(links, val, copying) = Order!Idle
      BY <2>1, IdlePending
    <2>3. Pending(links', val', copying') =
            [ to |-> l, at |-> IF O[l] = << >> THEN Null ELSE O[l][1],
              rest |-> Order!Values(SubSeq(O[other], p, Len(O[other]))) ]
      BY <2>1, <1>3, <1>4, FirstIs DEF Pending
    <2>4. [m \in List |-> Forward(m)] = O /\ [m \in List |-> Forward(m)]' = O
      BY <2>1, OrdersAre
    <2> HIDE DEF O
    <2>5. Order!Prepend(l, other, p)
      BY <2>1, <2>2, <2>3, <2>4, PendingIs DEF Order!Prepend
    <2>6. p \in DOMAIN O[other]
      BY <1>3
    <2> QED
      BY <2>4, <2>5, <2>6 DEF Order!Next
  <1>6. ASSUME Extend(l, start) PROVE Order!Next
    <2>1. /\ copying = Idle /\ links' = links /\ val' = val /\ l # other
          /\ copying' = [to |-> l, at |-> Null, from |-> start]
      BY <1>6 DEF Extend
    <2>2. Pending(links, val, copying) = Order!Idle
      BY <2>1, IdlePending
    <2>3. Pending(links', val', copying') =
            [ to |-> l, at |-> Null,
              rest |-> Order!Values(SubSeq(O[other], p, Len(O[other]))) ]
      BY <2>1, <1>3, <1>4 DEF Pending
    <2>4. [m \in List |-> Forward(m)] = O /\ [m \in List |-> Forward(m)]' = O
      BY <2>1, OrdersAre
    <2> HIDE DEF O
    <2>5. Order!Extend(l, other, p)
      BY <2>1, <2>2, <2>3, <2>4, PendingIs DEF Order!Extend
    <2>6. p \in DOMAIN O[other]
      BY <1>3
    <2> QED
      BY <2>4, <2>5, <2>6 DEF Order!Next
  <1> QED
    BY <1>5, <1>6

\* A list that spells out nothing.
LEMMA EmptyIs ==
  ASSUME NEW k, NEW l
  PROVE  \E s \in [1 .. 0 -> Node] :
           s = << >> /\ (k.first[l] = Null /\ k.last[l] = Null => Spells({}, k, l, s, 0))
  <1>1. << >> \in [1 .. 0 -> Node]
    OBVIOUS
  <1>2. k.first[l] = Null /\ k.last[l] = Null => Spells({}, k, l, << >>, 0)
    BY DEF Spells, Each
  <1> QED
    BY <1>1, <1>2

LEMMA AssignMaps ==
  ASSUME Lists, NEW l \in List, NEW other \in List, CopyAssign(l, other)
  PROVE  Order!Next
  <1> DEFINE k1 == [links EXCEPT !.first[l] = Null, !.last[l] = Null]
             O == Orders(links)
             first == links.first[other]
  <1>1. /\ l # other /\ copying = Idle
        /\ val' = [n \in Node |-> IF n \in nodes[l] THEN Null ELSE val[n]]
        /\ links' = Forget(k1, nodes[l])
        /\ copying' = IF first = Null THEN Idle ELSE [to |-> l, at |-> Null, from |-> first]
    BY DEF CopyAssign, Destroy
  <1>2. nodes[l] \in SUBSET Node /\ nodes[other] \in SUBSET Node /\ links \in Links
    BY ListFacts
  <1>3. /\ k1 \in Links /\ k1.first[l] = Null /\ k1.last[l] = Null
        /\ Frame(links, k1, l, nodes[l])
    BY <1>2 DEF Links, Frame
  <1> HIDE DEF k1
  <1>4. Frame(links, links', l, nodes[l])
    BY <1>1, <1>2, <1>3, ForgetKeeps, FrameTwice
  <1>5. PICK e \in [1 .. 0 -> Node] : e = << >> /\ Spells({}, links', l, e, 0)
    <2>1. PICK e \in [1 .. 0 -> Node] : e = << >> /\ Spells({}, k1, l, e, 0)
      BY <1>3, EmptyIs
    <2>2. {} \in SUBSET Node /\ {} \cap nodes[l] = {} /\ 0 \in Nat
      OBVIOUS
    <2>3. Spells({}, Forget(k1, nodes[l]), l, e, 0)
      BY <1>2, <1>3, <2>1, <2>2, ForgetSpells
    <2> QED
      BY <1>1, <2>1, <2>3
  <1>6. Orders(links') = [O EXCEPT ![l] = << >>]
    <2>1. /\ {} \in SUBSET Node /\ {} \subseteq nodes[l] \cup Free /\ 0 \in Nat
          /\ Frame(links, links', l, nodes[l] \cup {})
      <3>1. nodes[l] \cup {} = nodes[l]
        OBVIOUS
      <3> QED
        BY <1>4, <3>1
    <2> QED
      BY <1>5, <2>1, OneOrder
  <1>7. O[other] = Walk(links, other) /\ (first = Null <=> O[other] = << >>)
    BY FirstIs DEF Orders
  <1>8. first # Null => Left(links', val', copying') = Order!Values(O[other])
    <2> SUFFICES ASSUME first # Null PROVE Left(links', val', copying') = Order!Values(O[other])
      OBVIOUS
    <2>1. Follow(links'.next, first) = O[other]
      <3>1. Walk(links', other) = O[other]
        BY <1>1, <1>6 DEF Orders
      <3>2. links'.first[other] = first
        BY <1>1, <1>4 DEF Frame
      <3> QED
        BY <3>1, <3>2 DEF Walk
    <2>2. \A i \in DOMAIN O[other] : val'[O[other][i]] = val[O[other][i]]
      <3>1. PICK len \in Nat : \E s \in [1 .. len -> Node] :
              Spells(nodes[other], links, other, s, len) /\ Walk(links, other) = s
        BY ListSpells
      <3>2. PICK s \in [1 .. len -> Node] :
              Spells(nodes[other], links, other, s, len) /\ Walk(links, other) = s
        BY <3>1
      <3>3. \A i \in 1 .. len : s[i] \in Node /\ s[i] \notin nodes[l]
        BY <1>1, <3>2 DEF Spells, Each, Lists, Disjoint
      <3> QED
        BY <1>1, <1>7, <3>2, <3>3
    <2>3. copying'.from = first
      BY <1>1
    <2> QED
      BY <2>1, <2>2, <2>3 DEF Left, Order!Values
  <1>9. Pending(links', val', copying') =
          IF O[other] = << >> THEN Order!Idle
          ELSE [to |-> l, at |-> Null, rest |-> Order!Values(O[other])]
    <2>1. CASE first = Null
      BY <1>1, <1>7, <2>1, IdlePending
    <2>2. CASE first # Null
      BY <1>1, <1>7, <1>8, <2>2 DEF Pending
    <2> QED
      BY <2>1, <2>2
  <1>10. Pending(links, val, copying) = Order!Idle
    BY <1>1, IdlePending
  <1>11. [m \in List |-> Forward(m)] = O /\ [m \in List |-> Forward(m)]' = Orders(links')
    BY OrdersAre
  <1>12. val' = [n \in Node |-> IF n \in Order!Members(l) THEN Null ELSE val[n]]
    BY <1>1, MembersAre
  <1> HIDE DEF O
  <1>13. Order!Assign(l, other)
    BY <1>1, <1>6, <1>9, <1>10, <1>11, <1>12, PendingIs DEF Order!Assign
  <1> QED
    BY <1>13 DEF Order!Next

LEMMA MoveAssignMaps ==
  ASSUME Lists, NEW l \in List, NEW other \in List, MoveAssign(l, other)
  PROVE  Order!Next
  <1> DEFINE k1 == [links EXCEPT !.first = [@ EXCEPT ![l] = links.first[other], ![other] = Null],
                                 !.last  = [@ EXCEPT ![l] = links.last[other], ![other] = Null]]
             O == Orders(links)
  <1>1. /\ l # other /\ copying = Idle /\ copying' = Idle
        /\ val' = [n \in Node |-> IF n \in nodes[l] THEN Null ELSE val[n]]
        /\ links' = Forget(k1, nodes[l])
    BY DEF MoveAssign
  <1>2. /\ links \in Links /\ Disjoint
        /\ \A m \in List : nodes[m] \in SUBSET Node
    BY ListFacts DEF Lists
  <1>3. /\ k1 \in Links
        /\ k1.next = links.next /\ k1.prev = links.prev
        /\ \A m \in List :
             /\ k1.first[m] = IF m = other THEN Null
                              ELSE IF m = l THEN links.first[other] ELSE links.first[m]
             /\ k1.last[m] = IF m = other THEN Null
                             ELSE IF m = l THEN links.last[other] ELSE links.last[m]
    BY <1>1, <1>2 DEF Links
  <1> HIDE DEF k1
  <1>4. ASSUME NEW m \in List, NEW x \in List, x # l, m # other,
               k1.first[m] = links.first[x], k1.last[m] = links.last[x]
        PROVE  Walk(links', m) = O[x]
    <2>1. PICK len \in Nat : \E s \in [1 .. len -> Node] :
            Spells(nodes[x], links, x, s, len) /\ Walk(links, x) = s
      BY ListSpells
    <2>2. PICK s \in [1 .. len -> Node] : Spells(nodes[x], links, x, s, len) /\ Walk(links, x) = s
      BY <2>1
    <2>3. Spells(nodes[x], k1, m, s, len)
      BY <1>3, <1>4, <2>2 DEF Spells
    <2>4. nodes[x] \cap nodes[l] = {}
      BY <1>2, <1>4 DEF Disjoint
    <2>5. Spells(nodes[x], links', m, s, len)
      BY <1>1, <1>2, <1>3, <2>3, <2>4, ForgetSpells
    <2> QED
      BY <2>2, <2>5, WalkIs DEF Orders
  <1>5. Walk(links', l) = O[other]
    BY <1>1, <1>3, <1>4
  <1>6. \A m \in List \ {l, other} : Walk(links', m) = O[m]
    BY <1>3, <1>4
  <1>7. Walk(links', other) = << >>
    <2>1. PICK e \in [1 .. 0 -> Node] : e = << >> /\ Spells({}, k1, other, e, 0)
      BY <1>3, EmptyIs
    <2>2. {} \in SUBSET Node /\ {} \cap nodes[l] = {} /\ 0 \in Nat
      OBVIOUS
    <2>3. Spells({}, links', other, e, 0)
      BY <1>1, <1>2, <1>3, <2>1, <2>2, ForgetSpells
    <2> QED
      BY <2>1, <2>2, <2>3, WalkIs
  <1>8. Orders(links') = [O EXCEPT ![l] = O[other], ![other] = << >>]
    BY <1>1, <1>5, <1>6, <1>7 DEF Orders
  <1>9. [m \in List |-> Forward(m)] = O /\ [m \in List |-> Forward(m)]' = Orders(links')
    BY OrdersAre
  <1>10. val' = [n \in Node |-> IF n \in Order!Members(l) THEN Null ELSE val[n]]
    BY <1>1, MembersAre
  <1> HIDE DEF O
  <1>11. Order!MoveAssign(l, other)
    BY <1>1, <1>8, <1>9, <1>10, NothingPending DEF Order!MoveAssign
  <1> QED
    BY <1>11 DEF Order!Next

-----------------------------------------------------------------------------
(* The loop that copies *)

\* A loop that copies nodes of the list it adds to adds before the nodes that
\* it has still to copy, so it never meets its own copies.
CopiesAhead ==
  copying # Idle /\ copying.from \in nodes[copying.to] =>
    LET s == Walk(links, copying.to)
    IN  \E i, j \in DOMAIN s : i <= j /\ s[i] = copying.at /\ s[j] = copying.from

\* From x on, the links k lead to R, nodes of N; what comes after x is the rest
\* of it.
Onward(k, x, N, R) ==
  /\ R = Follow(k.next, x)
  /\ R \in Seq(Node) /\ R # << >> /\ R[1] = x
  /\ \A i \in 1 .. Len(R) : R[i] \in N
  /\ Len(R) = 1 <=> k.next[x] = Null
  /\ Follow(k.next, k.next[x]) = Tail(R)

\* t from its p2-th on is s from its p-th on.
SameTail(s, len, p, t, len2, p2) ==
  len2 - p2 = len - p /\ \A i \in 0 .. len - p : t[p2 + i] = s[p + i]

LEMMA TailNext ==
  ASSUME NEW k, NEW l, NEW N, NEW len \in Nat, NEW s \in [1 .. len -> Node],
         Spells(N, k, l, s, len), NEW p \in 1 .. len
  PROVE  Onward(k, s[p], N, Follow(k.next, s[p]))
  <1>1. PICK w \in Nat : w = len - p + 1
    OBVIOUS
  <1>2. PICK r \in [1 .. w -> Node] : \A i \in 1 .. w : r[i] = s[p + i - 1]
    <2> DEFINE r == [i \in 1 .. w |-> s[p + i - 1]]
    <2>1. r \in [1 .. w -> Node] /\ \A i \in 1 .. w : r[i] = s[p + i - 1]
      BY <1>1
    <2> QED
      BY <2>1
  <1>3. Follow(k.next, s[p]) = r
    BY <1>1, <1>2, RestIs
  <1>4. r \in Seq(Node) /\ Len(r) = w /\ w # 0 /\ r[1] = s[p]
    BY <1>1, <1>2
  <1>5. \A i \in 1 .. w : r[i] \in N
    BY <1>1, <1>2 DEF Spells, Each
  <1>6. k.next[s[p]] = (IF p = len THEN Null ELSE s[p + 1]) /\ \A i \in 1 .. len : s[i] # Null
    BY NullAssumption DEF Spells
  <1>7. w = 1 <=> k.next[s[p]] = Null
    BY <1>1, <1>6
  <1>8. Follow(k.next, k.next[s[p]]) = Tail(r)
    <2>1. CASE p = len
      <3>1. w = 1
        BY <1>1, <2>1
      <3>2. Tail(r) \in Seq(Node) /\ Len(Tail(r)) = Len(r) - 1
        BY <1>4, HeadTailProperties, EmptySeq
      <3>3. Tail(r) # << >> => Len(Tail(r)) \in Nat \ {0}
        BY <3>2, EmptySeq
      <3>5. Tail(r) = << >>
        BY <1>4, <3>1, <3>2, <3>3
      <3>4. k.next[s[p]] = Null
        BY <1>6, <2>1
      <3> QED
        BY <3>5, <3>4, FollowNull
    <2>2. CASE p # len
      <3>1. PICK p2 \in 1 .. len, w2 \in Nat : p2 = p + 1 /\ w2 = w - 1 /\ w2 = len - p2 + 1
        BY <1>1, <2>2
      <3>2. PICK r2 \in [1 .. w2 -> Node] : \A i \in 1 .. w2 : r2[i] = s[p2 + i - 1]
        <4> DEFINE r2 == [i \in 1 .. w2 |-> s[p2 + i - 1]]
        <4>1. r2 \in [1 .. w2 -> Node] /\ \A i \in 1 .. w2 : r2[i] = s[p2 + i - 1]
          BY <3>1
        <4> QED
          BY <4>1
      <3>3. Follow(k.next, s[p2]) = r2
        BY <3>1, <3>2, RestIs
      <3>4. Tail(r) \in Seq(Node) /\ Len(Tail(r)) = w2 /\ \A i \in 1 .. w2 : Tail(r)[i] = r[i + 1]
        BY <1>4, <3>1
      <3>5. \A i \in 1 .. w2 : Tail(r)[i] = r2[i]
        <4> TAKE i \in 1 .. w2
        <4>1. r[i + 1] = s[p + (i + 1) - 1] /\ p + (i + 1) - 1 = p2 + i - 1
          BY <1>2, <3>1
        <4> QED
          BY <3>2, <3>4, <4>1
      <3>6. Tail(r) = r2
        BY <3>4, <3>5, SameSequence
      <3> QED
        BY <1>6, <2>2, <3>1, <3>3, <3>6
    <2> QED
      BY <2>1, <2>2
  <1>9. r # << >>
    BY <1>4
  <1> QED
    BY <1>3, <1>4, <1>5, <1>7, <1>8, <1>9 DEF Onward

\* Links that spell out the same nodes from some node on lead to the same.
LEMMA TailKept ==
  ASSUME NEW k, NEW k2, NEW l, NEW N, NEW N2,
         NEW len \in Nat, NEW s \in [1 .. len -> Node], Spells(N, k, l, s, len),
         NEW len2 \in Nat, NEW t \in [1 .. len2 -> Node], Spells(N2, k2, l, t, len2),
         NEW p \in 1 .. len, NEW p2 \in 1 .. len2, SameTail(s, len, p, t, len2, p2)
  PROVE  Follow(k2.next, s[p]) = Follow(k.next, s[p]) /\ t[p2] = s[p]
  <1>0. len2 - p2 = len - p /\ \A i \in 0 .. len - p : t[p2 + i] = s[p + i]
    BY DEF SameTail
  <1>1. PICK w \in Nat : w = len - p + 1 /\ w = len2 - p2 + 1
    BY <1>0
  <1>2. PICK r \in [1 .. w -> Node] : \A i \in 1 .. w : r[i] = s[p + i - 1]
    <2> DEFINE r == [i \in 1 .. w |-> s[p + i - 1]]
    <2>1. r \in [1 .. w -> Node] /\ \A i \in 1 .. w : r[i] = s[p + i - 1]
      BY <1>1
    <2> QED
      BY <2>1
  <1>3. Follow(k.next, s[p]) = r
    BY <1>1, <1>2, RestIs
  <1>4. \A i \in 1 .. w : r[i] = t[p2 + i - 1]
    <2> TAKE i \in 1 .. w
    <2>1. i - 1 \in 0 .. len - p
      BY <1>1
    <2>2. t[p2 + (i - 1)] = s[p + (i - 1)]
      BY <1>0, <2>1
    <2> QED
      BY <1>2, <2>2
  <1>5. Follow(k2.next, t[p2]) = r
    <2>1. w \in Nat /\ w = len2 - p2 + 1 /\ r \in [1 .. w -> Node] /\ len2 \in Nat
          /\ t \in [1 .. len2 -> Node] /\ p2 \in 1 .. len2 /\ Spells(N2, k2, l, t, len2)
      BY <1>1
    <2> QED
      BY ONLY <2>1, <1>4, RestIs
  <1>6. t[p2] = s[p]
    <2>1. 0 \in 0 .. len - p /\ p2 + 0 = p2 /\ p + 0 = p
      OBVIOUS
    <2> QED
      BY <1>0, <2>1
  <1> QED
    BY <1>3, <1>5, <1>6


\* The copy made next is put in before the node the loop adds before.
CopyPuts(n, len, s, q) ==
  LET l == copying.to
  IN  /\ Spells(nodes[l], links, l, s, len) /\ Walk(links, l) = s
      /\ Frame(links, links', l, nodes[l] \cup {n})
      /\ Gets(nodes[l], links', l, s, len, n, q)
      /\ copying.at = Null => q = len + 1
      /\ copying.at # Null => q \in 1 .. len /\ s[q] = copying.at

LEMMA CopyFacts ==
  ASSUME Inv, NEW n \in Node, CopyNode(n)
  PROVE  /\ copying # Idle /\ copying.to \in List /\ copying.from \in Node
         /\ copying.at \in nodes[copying.to] \cup {Null}
         /\ \E m \in List : copying.from \in nodes[m]
         /\ n \in Free /\ nodes' = [nodes EXCEPT ![copying.to] = @ \cup {n}]
         /\ val' = [val EXCEPT ![n] = val[copying.from]]
         /\ Lists /\ Lists' /\ TypeOK /\ n # Null
  <1>1. Lists' /\ TypeOK /\ Lists
    BY CopyNodeStep DEF Inv
  <1> QED
    BY <1>1, NullAssumption DEF Inv, TypeOK, LoopStaysOnLists, CopyNode, Adopt

LEMMA CopyIsPut ==
  ASSUME Inv, NEW n \in Node, CopyNode(n)
  PROVE  \E len \in Nat : \E s \in [1 .. len -> Node], q \in 1 .. len + 1 : CopyPuts(n, len, s, q)
  <1> DEFINE l == copying.to
             v == val[copying.from]
  <1>1. /\ l \in List /\ copying.at \in nodes[l] \cup {Null} /\ Lists
        /\ nodes[l] \in SUBSET Node /\ links \in Links /\ n \in Node \ nodes[l]
    BY CopyFacts, ListFacts DEF Free
  <1>2. PICK len \in Nat : \E s \in [1 .. len -> Node] :
          Spells(nodes[l], links, l, s, len) /\ Walk(links, l) = s
    BY <1>1, ListSpells
  <1>3. PICK s \in [1 .. len -> Node] : Spells(nodes[l], links, l, s, len) /\ Walk(links, l) = s
    BY <1>2
  <1>4. CASE copying.at = Null
    <2>1. links' = LinkBack(links, l, n)
      BY <1>4 DEF CopyNode, Adopt
    <2>2. Frame(links, links', l, nodes[l] \cup {n}) /\ Gets(nodes[l], links', l, s, len, n, len + 1)
      BY <1>1, <1>3, <2>1, LinkBackSpells
    <2>3. PICK q \in 1 .. len + 1 : q = len + 1 /\ Gets(nodes[l], links', l, s, len, n, q)
      BY <2>2
    <2>4. CopyPuts(n, len, s, q)
      BY <1>3, <1>4, <2>2, <2>3 DEF CopyPuts
    <2> QED
      BY <2>4
  <1>5. CASE copying.at # Null
    <2> DEFINE pos == copying.at
    <2>1. links' = LinkBefore(links, l, n, pos) /\ pos \in nodes[l]
      BY <1>1, <1>5 DEF CopyNode, Adopt
    <2>2. /\ Frame(links, links', l, nodes[l] \cup {n})
          /\ \E p \in 1 .. len : s[p] = pos /\ Gets(nodes[l], links', l, s, len, n, p)
      BY <1>1, <1>3, <2>1, LinkBeforeSpells
    <2>3. PICK p \in 1 .. len : s[p] = pos /\ Gets(nodes[l], links', l, s, len, n, p)
      BY <2>2
    <2>4. p \in 1 .. len + 1 /\ CopyPuts(n, len, s, p)
      BY <1>3, <1>5, <2>2, <2>3 DEF CopyPuts
    <2> QED
      BY <2>4
  <1> QED
    BY <1>4, <1>5

\* The copy becomes, in its list, what ListOrder says.
LEMMA CopyPlaced ==
  ASSUME Inv, NEW n \in Node, CopyNode(n)
  PROVE  Order!Place(copying.to,
                     IF copying.at = Null THEN Len(Orders(links)[copying.to]) + 1
                     ELSE Order!Position(copying.to, copying.at),
                     n, val[copying.from])
  <1> DEFINE l == copying.to
             v == val[copying.from]
  <1>1. Lists /\ l \in List
    BY CopyFacts
  <1>2. PICK len \in Nat : \E s \in [1 .. len -> Node], q \in 1 .. len + 1 : CopyPuts(n, len, s, q)
    BY CopyIsPut
  <1>3. PICK s \in [1 .. len -> Node], q \in 1 .. len + 1 : CopyPuts(n, len, s, q)
    BY <1>2
  <1>4. /\ Spells(nodes[l], links, l, s, len) /\ Walk(links, l) = s
        /\ Frame(links, links', l, nodes[l] \cup {n})
        /\ Gets(nodes[l], links', l, s, len, n, q)
    BY <1>3 DEF CopyPuts
  <1>5. Adopt(l, n, v, links')
    BY DEF CopyNode, Adopt
  <1> HIDE DEF v
  <1>6. Order!Place(l, q, n, v)
    BY <1>1, <1>4, <1>5, AdoptMaps
  <1>7. Orders(links)[l] = s
    BY <1>1, <1>4 DEF Orders
  <1>8. CASE copying.at = Null
    <2>1. q = Len(Orders(links)[l]) + 1
      BY <1>3, <1>7, <1>8 DEF CopyPuts
    <2> QED
      BY <1>6, <1>8, <2>1 DEF v
  <1>9. CASE copying.at # Null
    <2>1. q \in 1 .. len /\ s[q] = copying.at /\ Each(nodes[l], s, len)
      BY <1>3, <1>9 DEF CopyPuts, Spells
    <2>2. (CHOOSE j \in DOMAIN s : s[j] = s[q]) = q
      BY <2>1, Found
    <2>3. Order!Position(l, copying.at) = q
      BY <1>7, <2>1, <2>2, OrdersAre DEF Order!Position
    <2> QED
      BY <1>6, <1>9, <2>3 DEF v
  <1> QED
    BY <1>8, <1>9



LEMMA TailOnward ==
  ASSUME NEW k, NEW k2, NEW l, NEW N, NEW N2,
         NEW len \in Nat, NEW s \in [1 .. len -> Node], Spells(N, k, l, s, len),
         NEW len2 \in Nat, NEW t \in [1 .. len2 -> Node], Spells(N2, k2, l, t, len2),
         NEW p \in 1 .. len, NEW p2 \in 1 .. len2, SameTail(s, len, p, t, len2, p2)
  PROVE  Onward(k2, s[p], N, Follow(k.next, s[p]))
  <1>1. Follow(k2.next, s[p]) = Follow(k.next, s[p]) /\ t[p2] = s[p]
    BY TailKept
  <1>2. Onward(k2, t[p2], N2, Follow(k2.next, t[p2]))
    BY TailNext
  <1>3. Onward(k, s[p], N, Follow(k.next, s[p]))
    BY TailNext
  <1> QED
    BY <1>1, <1>2, <1>3 DEF Onward

\* The node to copy next is not before the place where its copy goes.
LEMMA CopyBehind ==
  ASSUME Inv, CopiesAhead, NEW n \in Node, CopyNode(n), copying.from \in nodes[copying.to],
         NEW len \in Nat, NEW s \in [1 .. len -> Node], NEW q \in 1 .. len + 1,
         CopyPuts(n, len, s, q)
  PROVE  copying.at # Null /\ \E p \in 1 .. len : q <= p /\ s[p] = copying.from
  <1>1. copying # Idle
    BY CopyFacts
  <1>2. /\ Spells(nodes[copying.to], links, copying.to, s, len) /\ Walk(links, copying.to) = s
        /\ copying.at # Null => q \in 1 .. len /\ s[q] = copying.at
    BY DEF CopyPuts
  <1>3. DOMAIN s = 1 .. len
    OBVIOUS
  <1>4. \E i, j \in 1 .. len : i <= j /\ s[i] = copying.at /\ s[j] = copying.from
    BY <1>1, <1>2, <1>3 DEF CopiesAhead
  <1>5. PICK i \in 1 .. len, p \in 1 .. len : i <= p /\ s[i] = copying.at /\ s[p] = copying.from
    BY <1>4
  <1>6. copying.at # Null
    BY <1>5, NullAssumption
  <1>7. q = i
    BY <1>2, <1>5, <1>6 DEF Spells, Each
  <1> QED
    BY <1>5, <1>6, <1>7

\* The copy made next changes nothing of what is still to be copied.
LEMMA CopyOnward ==
  ASSUME Inv, CopiesAhead, NEW n \in Node, CopyNode(n)
  PROVE  \E N \in SUBSET Node :
           n \notin N /\ Onward(links', copying.from, N, Follow(links.next, copying.from))
  <1> DEFINE l == copying.to
  <1>1. /\ Lists /\ l \in List /\ n \in Free /\ links \in Links
        /\ \E m \in List : copying.from \in nodes[m]
    BY CopyFacts, ListFacts
  <1>2. PICK len \in Nat : \E s \in [1 .. len -> Node], q \in 1 .. len + 1 : CopyPuts(n, len, s, q)
    BY CopyIsPut
  <1>3. PICK s \in [1 .. len -> Node], q \in 1 .. len + 1 : CopyPuts(n, len, s, q)
    BY <1>2
  <1>4. PICK m \in List : copying.from \in nodes[m]
    BY <1>1
  <1>5. nodes[m] \in SUBSET Node /\ n \notin nodes[m]
    BY <1>1, ListFacts DEF Free
  <1>6. CASE m # l
    <2>1. PICK d \in Nat : \E u \in [1 .. d -> Node] :
            Spells(nodes[m], links, m, u, d) /\ Walk(links, m) = u
      BY <1>1, ListSpells
    <2>2. PICK u \in [1 .. d -> Node] : Spells(nodes[m], links, m, u, d) /\ Walk(links, m) = u
      BY <2>1
    <2>3. nodes[m] \cap (nodes[l] \cup {n}) = {}
      BY <1>1, <1>5, <1>6 DEF Lists, Disjoint
    <2>4. Frame(links, links', l, nodes[l] \cup {n})
      BY <1>3 DEF CopyPuts
    <2>5. Spells(nodes[m], links', m, u, d)
      BY <1>1, <1>5, <1>6, <2>2, <2>3, <2>4, FrameSpells
    <2>6. PICK p \in 1 .. d : u[p] = copying.from
      BY <1>4, <2>2 DEF Spells, Each
    <2>7. SameTail(u, d, p, u, d, p)
      BY DEF SameTail
    <2>8. Onward(links', u[p], nodes[m], Follow(links.next, u[p]))
      BY <2>2, <2>5, <2>7, TailOnward
    <2> QED
      BY <1>5, <2>6, <2>8
  <1>7. CASE m = l
    <2>1. Gets(nodes[l], links', l, s, len, n, q) /\ Spells(nodes[l], links, l, s, len)
      BY <1>3 DEF CopyPuts
    <2>2. PICK t \in [1 .. len + 1 -> Node] :
            Spells(nodes[l] \cup {n}, links', l, t, len + 1) /\ Put(s, t, len, q, n)
      BY <2>1 DEF Gets
    <2>3. PICK p \in 1 .. len : q <= p /\ s[p] = copying.from
      BY <1>3, <1>4, <1>7, CopyBehind
    <2>4. PICK len2 \in Nat, p2 \in Nat : len2 = len + 1 /\ p2 = p + 1 /\ p2 \in 1 .. len2
      OBVIOUS
    <2>5. SameTail(s, len, p, t, len2, p2)
      <3>1. len2 - p2 = len - p
        BY <2>4
      <3>2. ASSUME NEW i \in 0 .. len - p PROVE t[p2 + i] = s[p + i]
        <4>1. p2 + i \in 1 .. len + 1 /\ ~(p2 + i < q) /\ p2 + i # q /\ (p2 + i) - 1 = p + i
          BY <2>3, <2>4
        <4> QED
          BY <2>2, <4>1 DEF Put
      <3> QED
        BY <3>1, <3>2 DEF SameTail
    <2>6. t \in [1 .. len2 -> Node] /\ Spells(nodes[l] \cup {n}, links', l, t, len2)
      BY <2>2, <2>4
    <2>7. Onward(links', s[p], nodes[l], Follow(links.next, s[p]))
      BY <2>1, <2>4, <2>5, <2>6, TailOnward
    <2> QED
      BY <1>5, <1>7, <2>3, <2>7
  <1> QED
    BY <1>6, <1>7


Picked(v, R) == [i \in DOMAIN R |-> v[R[i]]]
Alike(v, v2, R) == \A i \in 1 .. Len(R) : v2[R[i]] = v[R[i]]

LEMMA ValuesOnward ==
  ASSUME NEW S, NEW R \in Seq(S), R # << >>, NEW v, NEW v2, Alike(v, v2, R)
  PROVE  /\ Len(Picked(v, R)) = Len(R) /\ Head(Picked(v, R)) = v[R[1]]
         /\ Tail(Picked(v, R)) = Picked(v2, Tail(R))
  <1> DEFINE rest == Picked(v, R)
             T == {v[x] : x \in S}
  <1>0. rest = [i \in DOMAIN R |-> v[R[i]]]
    BY DEF Picked
  <1> HIDE DEF rest
  <1>1. PICK len \in Nat : len = Len(R) /\ len # 0 /\ DOMAIN R = 1 .. len /\ R \in [1 .. len -> S]
    BY LenProperties, EmptySeq
  <1>2. rest \in [1 .. len -> T] /\ \A i \in 1 .. len : rest[i] = v[R[i]]
    BY <1>0, <1>1
  <1>3. rest \in Seq(T) /\ Len(rest) = len /\ rest[1] = v[R[1]]
    BY <1>1, <1>2
  <1>4. rest # << >>
    BY <1>1, <1>3
  <1>5. /\ Tail(R) \in Seq(S) /\ Len(Tail(R)) = len - 1
        /\ \A i \in 1 .. Len(Tail(R)) : Tail(R)[i] = R[i + 1]
    BY <1>1, HeadTailProperties
  <1>6. /\ Tail(rest) \in Seq(T) /\ Len(Tail(rest)) = len - 1
        /\ \A i \in 1 .. Len(Tail(rest)) : Tail(rest)[i] = rest[i + 1]
    BY <1>3, <1>4, HeadTailProperties
  <1>14. len # 0
    BY <1>1
  <1>7. PICK w \in Nat : w = len - 1
    BY ONLY <1>14, len \in Nat
  <1> DEFINE u == [i \in 1 .. w |-> v2[Tail(R)[i]]]
  <1>8. ASSUME NEW i \in 1 .. w PROVE u[i] = Tail(rest)[i] /\ u[i] \in T
    <2>1. i + 1 \in 1 .. len /\ Tail(R)[i] = R[i + 1] /\ Tail(rest)[i] = rest[i + 1]
      BY <1>5, <1>6, <1>7
    <2> QED
      BY <1>1, <1>2, <2>1 DEF Alike
  <1>9. DOMAIN Tail(R) = 1 .. w
    BY <1>5, <1>7
  <1>10. u \in [1 .. w -> T] /\ Len(Tail(rest)) = w
    BY <1>6, <1>7, <1>8
  <1>11. \A i \in 1 .. w : Tail(rest)[i] = u[i]
    BY <1>8
  <1> HIDE DEF u
  <1>12. Tail(rest) = u
    BY <1>6, <1>10, <1>11, SameSequence
  <1>13. Head(rest) = rest[1]
    BY <1>3
  <1> QED
    BY <1>1, <1>3, <1>9, <1>12, <1>13 DEF u, rest, Picked

\* A step of the loop is a step of ListOrder's.
LEMMA CopyMaps ==
  ASSUME Inv, CopiesAhead, NEW n \in Node, CopyNode(n)
  PROVE  Order!Next
  <1> DEFINE R    == Follow(links.next, copying.from)
             rest == Left(links, val, copying)
  <1>1. /\ copying # Idle /\ copying.to \in List /\ n \in Free
        /\ val' = [val EXCEPT ![n] = val[copying.from]] /\ val \in [Node -> Val \cup {Null}]
        /\ copying \in [to : List, at : Node \cup {Null}, from : Node]
    BY CopyFacts DEF TypeOK
  <1>2. PICK N \in SUBSET Node : n \notin N /\ Onward(links', copying.from, N, R)
    BY CopyOnward
  <1> HIDE DEF R
  <1>3. /\ R \in Seq(Node) /\ R # << >> /\ R[1] = copying.from
        /\ \A i \in 1 .. Len(R) : R[i] \in N
        /\ Len(R) = 1 <=> links'.next[copying.from] = Null
        /\ Follow(links'.next, links'.next[copying.from]) = Tail(R)
    BY <1>2 DEF Onward
  <1>4. Alike(val, val', R)
    BY <1>1, <1>2, <1>3 DEF Alike
  <1>5. rest = Picked(val, R)
    BY DEF Left, Picked, R
  <1> HIDE DEF rest
  <1>6. /\ Len(rest) = Len(R) /\ Head(rest) = val[copying.from]
        /\ Tail(rest) = Picked(val', Tail(R))
    <2>1. /\ Len(rest) = Len(R) /\ Head(rest) = val[R[1]]
          /\ Tail(rest) = Picked(val', Tail(R))
      <3>2. R \in Seq(Node) /\ R # << >>
        BY <1>3
      <3>3. /\ Len(Picked(val, R)) = Len(R) /\ Head(Picked(val, R)) = val[R[1]]
            /\ Tail(Picked(val, R)) = Picked(val', Tail(R))
        BY ONLY <1>4, <3>2, ValuesOnward
      <3> QED
        BY <1>5, <3>3
    <2> QED
      BY <1>3, <2>1
  <1> DEFINE P == Pending(links, val, copying)
             P2 == Pending(links', val', copying')
  <1>7. P = [to |-> copying.to, at |-> copying.at, rest |-> rest]
    BY DEF Pending, rest
  <1>8. P # Order!Idle
    BY <1>1, <1>7, NullAssumption DEF Order!Idle
  <1>13. P.rest = rest
    BY <1>7
  <1>9. P2 = IF Len(P.rest) = 1 THEN Order!Idle ELSE [P EXCEPT !.rest = Tail(@)]
    <2>1. CASE links'.next[copying.from] = Null
      <3>1. copying' = Idle /\ Len(rest) = 1
        BY <2>1, <1>3, <1>6 DEF CopyNode
      <3>2. P2 = Pending(links', val', Idle)
        BY <3>1
      <3> QED
        BY <1>13, <3>1, <3>2, IdlePending
    <2>2. CASE links'.next[copying.from] # Null
      <3>1. copying' = [copying EXCEPT !.from = links'.next[copying.from]] /\ Len(rest) # 1
        BY <2>2, <1>3, <1>6 DEF CopyNode
      <3>2. /\ copying'.to = copying.to /\ copying'.at = copying.at
            /\ copying'.from = links'.next[copying.from]
        BY <1>1, <3>1
      <3>3. Left(links', val', copying') = Tail(rest)
        BY <1>3, <1>6, <3>2 DEF Left, Picked
      <3> QED
        BY <1>7, <3>1, <3>2, <3>3 DEF Pending
    <2> QED
      BY <2>1, <2>2
  <1> HIDE DEF P, P2
  <1>10. Order!Place(P.to, IF P.at = Null THEN Len(Orders(links)[P.to]) + 1
                           ELSE Order!Position(P.to, P.at), n, Head(P.rest))
    BY <1>6, <1>7, CopyPlaced
  <1> DEFINE pending == [ to |-> copying.to, at |-> copying.at,
                          rest |-> LET s == Follow(links.next, copying.from)
                                   IN  [i \in DOMAIN s |-> val[s[i]]] ]
  <1>12. P = pending /\ P2 = pending'
    BY PendingIs DEF P, P2
  <1>11. Order!CopyNext(n)
    BY <1>8, <1>9, <1>10, <1>12, OrdersAre DEF Order!CopyNext
  <1> QED
    BY <1>11 DEF Order!Next


LEMMA CopyStaysAhead ==
  ASSUME Inv, CopiesAhead, NEW n \in Node, CopyNode(n)
  PROVE  CopiesAhead'
  <1> DEFINE l == copying.to
             next == links'.next[copying.from]
  <1>1. SUFFICES ASSUME copying' # Idle, copying'.from \in nodes'[copying'.to]
                 PROVE  \E i, j \in DOMAIN Walk(links', copying'.to) :
                          /\ i <= j /\ Walk(links', copying'.to)[i] = copying'.at
                          /\ Walk(links', copying'.to)[j] = copying'.from
    BY DEF CopiesAhead
  <1>2. /\ copying # Idle /\ l \in List /\ nodes' = [nodes EXCEPT ![l] = @ \cup {n}]
        /\ copying \in [to : List, at : Node \cup {Null}, from : Node]
        /\ \E m \in List : copying.from \in nodes[m]
        /\ nodes \in [List -> SUBSET Node] /\ Disjoint' /\ AllSpelled' /\ n \in Free
    BY CopyFacts DEF TypeOK, Lists
  <1>3. next # Null /\ copying' = [copying EXCEPT !.from = next]
    BY <1>1 DEF CopyNode
  <1>4. copying'.to = l /\ copying'.at = copying.at /\ copying'.from = next
    BY <1>2, <1>3
  <1>5. PICK m \in List : copying.from \in nodes[m] /\ copying.from \in nodes'[m]
    BY <1>2
  <1>6. next \in nodes'[m]
    <2>1. Spelled(nodes'[m], links', m)
      BY <1>2 DEF AllSpelled
    <2>2. next \in nodes'[m] \cup {Null}
      BY <1>5, <2>1, Ends
    <2> QED
      BY <1>3, <2>2
  <1>7. m = l
    BY <1>1, <1>2, <1>4, <1>6 DEF Disjoint
  <1>8. PICK len \in Nat : \E s \in [1 .. len -> Node], q \in 1 .. len + 1 : CopyPuts(n, len, s, q)
    BY CopyIsPut
  <1>9. PICK s \in [1 .. len -> Node], q \in 1 .. len + 1 : CopyPuts(n, len, s, q)
    BY <1>8
  <1>10. copying.at # Null /\ \E p \in 1 .. len : q <= p /\ s[p] = copying.from
    BY <1>5, <1>7, <1>9, CopyBehind
  <1>11. PICK p \in 1 .. len : q <= p /\ s[p] = copying.from
    BY <1>10
  <1>12. /\ Gets(nodes[l], links', l, s, len, n, q)
         /\ q \in 1 .. len /\ s[q] = copying.at
    BY <1>9, <1>10 DEF CopyPuts
  <1>13. PICK t \in [1 .. len + 1 -> Node] :
           Spells(nodes[l] \cup {n}, links', l, t, len + 1) /\ Put(s, t, len, q, n)
    BY <1>12 DEF Gets
  <1>14. t[q + 1] = copying.at /\ t[p + 1] = copying.from
    <2>1. /\ q + 1 \in 1 .. len + 1 /\ ~(q + 1 < q) /\ q + 1 # q /\ (q + 1) - 1 = q
          /\ p + 1 \in 1 .. len + 1 /\ ~(p + 1 < q) /\ p + 1 # q /\ (p + 1) - 1 = p
      BY <1>11
    <2> QED
      BY <1>11, <1>12, <1>13, <2>1 DEF Put
  <1>15. next = IF p + 1 = len + 1 THEN Null ELSE t[(p + 1) + 1]
    <2>1. p + 1 \in 1 .. len + 1
      OBVIOUS
    <2> QED
      BY <1>13, <1>14, <2>1 DEF Spells
  <1>16. t[p + 2] = next /\ q + 1 \in 1 .. len + 1 /\ p + 2 \in 1 .. len + 1 /\ q + 1 <= p + 2
    BY <1>3, <1>11, <1>12, <1>15
  <1>17. Walk(links', l) = t
    <2>1. PICK w \in Nat : w = len + 1
      OBVIOUS
    <2>2. t \in [1 .. w -> Node] /\ Spells(nodes[l] \cup {n}, links', l, t, w)
      BY <1>13, <2>1
    <2> QED
      BY <2>2, WalkIs
  <1>18. DOMAIN t = 1 .. len + 1
    OBVIOUS
  <1> QED
    BY <1>4, <1>14, <1>16, <1>17, <1>18

\* Where a loop starts in the list it adds to, it adds before the first node.
LEMMA StartsAhead ==
  ASSUME Lists, NEW l \in List, NEW other \in List, NEW start \in nodes[other],
         Prepend(l, start) \/ Extend(l, start)
  PROVE  CopiesAhead'
  <1>1. SUFFICES ASSUME copying' # Idle, copying'.from \in nodes'[copying'.to]
                 PROVE  \E i, j \in DOMAIN Walk(links', copying'.to) :
                          /\ i <= j /\ Walk(links', copying'.to)[i] = copying'.at
                          /\ Walk(links', copying'.to)[j] = copying'.from
    BY DEF CopiesAhead
  <1>2. nodes' = nodes /\ links' = links /\ copying'.to = l /\ copying'.from = start
    BY DEF Prepend, Extend
  <1>3. start \in nodes[l]
    BY <1>1, <1>2
  <1>4. copying'.at = links.first[l]
    BY <1>3 DEF Prepend, Extend
  <1>5. PICK len \in Nat : \E s \in [1 .. len -> Node] :
          Spells(nodes[l], links, l, s, len) /\ Walk(links, l) = s
    BY ListSpells
  <1>6. PICK s \in [1 .. len -> Node] : Spells(nodes[l], links, l, s, len) /\ Walk(links, l) = s
    BY <1>5
  <1>7. PICK p \in 1 .. len : s[p] = start
    BY <1>3, <1>6 DEF Spells, Each
  <1>8. links.first[l] = s[1] /\ 1 \in 1 .. len /\ 1 <= p /\ DOMAIN s = 1 .. len
    BY <1>6, <1>7 DEF Spells
  <1> QED
    BY <1>2, <1>4, <1>6, <1>7, <1>8

LEMMA AssignsAhead ==
  ASSUME Lists, NEW l \in List, NEW other \in List, CopyAssign(l, other)
  PROVE  CopiesAhead'
  <1>1. /\ l # other /\ nodes' = [nodes EXCEPT ![l] = @ \ nodes[l]]
        /\ nodes \in [List -> SUBSET Node]
        /\ \/ copying' = Idle
           \/ copying' = [to |-> l, at |-> Null, from |-> links.first[other]]
    BY DEF CopyAssign, Destroy, Lists
  <1>2. copying' # Idle => copying'.from \notin nodes'[copying'.to]
    BY <1>1
  <1> QED
    BY <1>2 DEF CopiesAhead

LEMMA IdleAhead ==
  ASSUME copying' = Idle PROVE CopiesAhead'
  BY DEF CopiesAhead


-----------------------------------------------------------------------------
(* The refinement of ListOrder *)

OInv == Inv /\ CopiesAhead

LEMMA OrderInit == Init => Order!Init /\ CopiesAhead
  <1> SUFFICES ASSUME Init PROVE Order!Init /\ CopiesAhead
    OBVIOUS
  <1>1. copying = Idle /\ val = [n \in Node |-> Null] /\ \A l \in List : links.first[l] = Null
    BY DEF Init
  <1>2. \A l \in List : Walk(links, l) = << >>
    BY <1>1, FollowNull DEF Walk
  <1>3. Orders(links) = [l \in List |-> << >>]
    BY <1>2 DEF Orders
  <1>4. Pending(links, val, copying) = Order!Idle
    BY <1>1, IdlePending
  <1>5. Order!Init
    BY <1>1, <1>3, <1>4, OrdersAre, PendingIs DEF Order!Init
  <1> QED
    BY <1>1, <1>5 DEF CopiesAhead

\* The loop ends early: what was still to be copied is given up.
LEMMA OutOfMemoryMaps ==
  ASSUME Inv, OutOfMemory
  PROVE  Order!Next
  <1>1. /\ copying # Idle /\ copying' = Idle /\ links' = links /\ val' = val
        /\ copying.to \in List
    BY NullAssumption DEF OutOfMemory, Inv, TypeOK
  <1>2. Pending(links, val, copying) # Order!Idle
    BY <1>1, NullAssumption DEF Pending, Order!Idle
  <1>3. Pending(links', val', copying') = Order!Idle
    <2>1. Pending(links', val', copying') = Pending(links', val', Idle)
      BY <1>1
    <2> QED
      BY <2>1, IdlePending
  <1>4. Order!GiveUp
    BY <1>1, <1>2, <1>3, OrdersAre, PendingIs DEF Order!GiveUp
  <1> QED
    BY <1>4 DEF Order!Next

LEMMA StutterMaps ==
  ASSUME CopiesAhead, UNCHANGED vars
  PROVE  UNCHANGED Order!vars /\ CopiesAhead'
  <1>1. nodes' = nodes /\ links' = links /\ val' = val /\ copying' = copying
    BY DEF vars
  <1>2. UNCHANGED Order!vars
    BY <1>1, OrdersAre, PendingIs DEF Order!vars
  <1> QED
    BY <1>1, <1>2 DEF CopiesAhead

\* Every operation has, on the sequences, the effect ListOrder states.
LEMMA OrderNext ==
  ASSUME OInv, [Next]_vars
  PROVE  (Order!Next \/ UNCHANGED Order!vars) /\ CopiesAhead'
  <1> DEFINE Step == (Order!Next \/ UNCHANGED Order!vars) /\ CopiesAhead'
  <1>0. /\ Inv /\ CopiesAhead /\ Lists /\ val \in [Node -> Val \cup {Null}]
    BY DEF OInv, Inv, TypeOK
  <1> HIDE DEF Step
  <1>i. ASSUME copying' = Idle, Order!Next \/ UNCHANGED Order!vars PROVE Step
    BY <1>i, IdleAhead DEF Step
  <1>b. ASSUME NEW l \in List, NEW n \in Node, NEW v \in Val, copying = Idle, copying' = Idle,
               \/ Adopt(l, n, v, LinkBack(links, l, n))
               \/ Adopt(l, n, v, LinkFront(links, l, n))
               \/ \E pos \in nodes[l] : \/ Adopt(l, n, v, LinkBefore(links, l, n, pos))
                                        \/ Adopt(l, n, v, LinkAfter(links, l, n, pos))
        PROVE  Step
    <2>1. PICK len \in Nat : Len(Walk(links, l)) = len
      BY <1>0, ListSpells
    <2>2. \E q \in 1 .. Len(Walk(links, l)) + 1 : Order!Place(l, q, n, v)
      <3>1. CASE Adopt(l, n, v, LinkBack(links, l, n))
        <4>1. Order!Place(l, Len(Walk(links, l)) + 1, n, v)
          BY <1>0, <3>1, BackMaps
        <4> QED
          BY <2>1, <4>1
      <3>2. CASE Adopt(l, n, v, LinkFront(links, l, n))
        BY <1>0, <3>2, FrontMaps
      <3>3. ASSUME NEW pos \in nodes[l], Adopt(l, n, v, LinkBefore(links, l, n, pos))
            PROVE  \E q \in 1 .. Len(Walk(links, l)) + 1 : Order!Place(l, q, n, v)
        <4>1. PICK p \in 1 .. Len(Walk(links, l)) : Order!Place(l, p, n, v)
          BY <1>0, <3>3, BeforeMaps
        <4> QED
          BY <2>1, <4>1
      <3>4. ASSUME NEW pos \in nodes[l], Adopt(l, n, v, LinkAfter(links, l, n, pos))
            PROVE  \E q \in 1 .. Len(Walk(links, l)) + 1 : Order!Place(l, q, n, v)
        <4>1. PICK p \in 1 .. Len(Walk(links, l)) : Order!Place(l, p + 1, n, v)
          BY <1>0, <3>4, AfterMaps
        <4> QED
          BY <2>1, <4>1
      <3> QED
        BY <1>b, <3>1, <3>2, <3>3, <3>4
    <2>3. Order!Next
      BY <1>b, <2>2, InsertMaps
    <2> QED
      BY <1>b, <1>i, <2>3
  <1>1. ASSUME NEW l \in List, NEW n \in Node, NEW v \in Val,
               \/ EmplaceBack(l, n, v)
               \/ EmplaceFront(l, n, v)
               \/ \E pos \in nodes[l] : EmplaceBefore(l, n, v, pos) \/ EmplaceAfter(l, n, v, pos)
               \/ \E idx \in 0 .. Size(l) : InsertIdx(l, n, v, idx)
        PROVE  Step
    <2>1. /\ copying = Idle /\ copying' = Idle
          /\ \/ Adopt(l, n, v, LinkBack(links, l, n))
             \/ Adopt(l, n, v, LinkFront(links, l, n))
             \/ \E pos \in nodes[l] : \/ Adopt(l, n, v, LinkBefore(links, l, n, pos))
                                      \/ Adopt(l, n, v, LinkAfter(links, l, n, pos))
      BY <1>1 DEF EmplaceBack, EmplaceFront, EmplaceBefore, EmplaceAfter, InsertIdx
    <2> QED
      BY <1>b, <2>1
  <1>2. ASSUME NEW l \in List, NEW n \in nodes[l], Remove(l, n)
        PROVE  Step
    <2>1. copying' = Idle
      BY <1>2 DEF Remove
    <2>2. Order!Next
      BY <1>0, <1>2, RemoveMaps
    <2> QED
      BY <1>i, <2>1, <2>2
  <1>3. ASSUME NEW l \in List, NEW idx \in 0 .. Size(l), RemoveIdx(l, idx)
        PROVE  Step
    BY <1>2, <1>3 DEF RemoveIdx
  <1>4. ASSUME NEW l \in List, PopBack(l) \/ PopFront(l)
        PROVE  Step
    <2>1. links.last[l] \in nodes[l] \cup {Null} /\ links.first[l] \in nodes[l] \cup {Null}
      BY <1>0, ListFacts, Ends
    <2> QED
      BY <1>2, <1>4, <2>1 DEF PopBack, PopFront
  <1>5. ASSUME NEW l \in List, NEW a \in nodes[l], NEW b \in nodes[l],
               Swap(l, a, b) \/ MoveBefore(l, a, b) \/ MoveAfter(l, a, b)
        PROVE  Step
    <2>1. copying' = Idle
      BY <1>5 DEF Swap, MoveBefore, MoveAfter
    <2>2. Order!Next \/ UNCHANGED Order!vars
      BY <1>0, <1>5, SwapMaps, MoveBeforeMaps, MoveAfterMaps
    <2> QED
      BY <1>i, <2>1, <2>2
  <1>6. ASSUME NEW l \in List, NEW other \in List, NEW start \in nodes[other],
               Prepend(l, start) \/ Extend(l, start)
        PROVE  Step
    <2>1. Order!Next
      BY <1>0, <1>6, StartMaps
    <2>2. CopiesAhead'
      BY <1>0, <1>6, StartsAhead
    <2> QED
      BY <2>1, <2>2 DEF Step
  <1>7. ASSUME NEW l \in List, NEW other \in List, CopyAssign(l, other)
        PROVE  Step
    <2>1. Order!Next
      BY <1>0, <1>7, AssignMaps
    <2>2. CopiesAhead'
      BY <1>0, <1>7, AssignsAhead
    <2> QED
      BY <2>1, <2>2 DEF Step
  <1>8. ASSUME NEW l \in List, NEW other \in List, MoveAssign(l, other)
        PROVE  Step
    <2>1. copying' = Idle
      BY <1>8 DEF MoveAssign
    <2>2. Order!Next
      BY <1>0, <1>8, MoveAssignMaps
    <2> QED
      BY <1>i, <2>1, <2>2
  <1>9. ASSUME NEW n \in Node, CopyNode(n)
        PROVE  Step
    <2>1. Order!Next
      BY <1>0, <1>9, CopyMaps
    <2>2. CopiesAhead'
      BY <1>0, <1>9, CopyStaysAhead
    <2> QED
      BY <2>1, <2>2 DEF Step
  <1>10. ASSUME OutOfMemory
         PROVE  Step
    <2>1. copying' = Idle
      BY <1>10 DEF OutOfMemory
    <2>2. Order!Next
      BY <1>0, <1>10, OutOfMemoryMaps
    <2> QED
      BY <1>i, <2>1, <2>2
  <1>11. ASSUME UNCHANGED vars
         PROVE  Step
    BY <1>0, <1>11, StutterMaps DEF Step
  <1>12. Step
    BY <1>1, <1>2, <1>3, <1>4, <1>5, <1>6, <1>7, <1>8, <1>9, <1>10, <1>11 DEF Next
  <1> QED
    BY <1>12 DEF Step

LEMMA OrderInvariant == Spec => []OInv
  <1>1. Init => OInv
    BY InitInv, OrderInit DEF OInv
  <1>2. OInv /\ [Next]_vars => OInv'
    BY NextInv, OrderNext DEF OInv
  <1> QED
    BY <1>1, <1>2, PTL DEF Spec

\* The linked lists implement ListOrder: read through their links, the lists
\* are sequences on which every operation, and every copy a loop makes, has the
\* effect its comment states.
THEOREM Sequences == Spec => KeepsOrder
  <1>1. OInv /\ [Next]_vars => [Order!Next]_Order!vars
    BY OrderNext
  <1> QED
    BY <1>1, OrderInit, OrderInvariant, PTL DEF Spec, KeepsOrder, Order!Spec

=============================================================================
