---------------------------- MODULE DriverProofs ----------------------------
(***************************************************************************)
(* Proofs about Arena and Driver.  The first part is about the arena alone, *)
(* for every slab size, threshold and growth, and every sequence of         *)
(* requests, constructors, exceptions and resets.  The second shows, for    *)
(* any number of files, any size of the pipe and any output of cpp, that    *)
(* the compiler keeps to the arena's rules, so that the first holds of it,  *)
(* and that what one file leaves cannot be seen from the next.              *)
(***************************************************************************)
EXTENDS Driver, FiniteSetTheorems, SequenceTheorems, TLAPS

(***************************************************************************)
(* Arithmetic                                                              *)
(***************************************************************************)

LEMMA Division ==
  ASSUME NEW x \in Nat, NEW a \in Nat \ {0}
  PROVE  /\ x \div a \in Nat
         /\ (x \div a) * a <= x
         /\ x < (x \div a) * a + a
  OBVIOUS

\* The aligned offset is a multiple, and not before the one asked for.
LEMMA Aligned ==
  ASSUME NEW x \in Nat, NEW a \in Nat \ {0}
  PROVE  /\ AlignTo(x, a) \in Nat
         /\ x <= AlignTo(x, a)
         /\ \E q \in 0 .. AlignTo(x, a) : AlignTo(x, a) = q * a
<1> DEFINE q == (x + a - 1) \div a
<1>1. x + a - 1 \in Nat
  OBVIOUS
<1>2. q \in Nat /\ q * a <= x + a - 1 /\ x + a - 1 < q * a + a
  BY <1>1, Division
<1>3. AlignTo(x, a) = q * a
  BY DEF AlignTo
<1> HIDE DEF q
<1>4. q * a \in Nat /\ q <= q * a
  BY <1>2
<1>5. x <= q * a
  BY <1>2, <1>4
<1> QED
  BY <1>2, <1>3, <1>4, <1>5

LEMMA AtLeast ==
  ASSUME NEW a \in Nat \ {0}, NEW p \in Nat \ {0}
  PROVE  a * p \in Nat \ {0} /\ a <= a * p
  OBVIOUS

LEMMA SlabSizes ==
  ASSUME slabs \in Seq(Nat \ {0})
  PROVE  ComputeSlabSize \in Nat \ {0} /\ SizeThreshold <= ComputeSlabSize
<1>1. Len(slabs) \in Nat
  OBVIOUS
<1>2. Len(slabs) \div GrowthDelay \in Nat
  BY <1>1, Division, ArenaAssumption
<1>3. Doublings \in 0 .. SlabSaturate
  BY <1>2, ArenaAssumption DEF Doublings
<1>4. 2^Doublings \in Nat \ {0}
  BY <1>3, ArenaAssumption
<1>5. ComputeSlabSize \in Nat \ {0} /\ SlabSize <= ComputeSlabSize
  BY <1>4, AtLeast, ArenaAssumption DEF ComputeSlabSize
<1> QED
  BY <1>5, ArenaAssumption

LEMMA LargerOf ==
  ASSUME NEW a \in Nat \ {0}, NEW b \in Nat \ {0}
  PROVE  Larger(a, b) \in Nat \ {0}
  BY DEF Larger

LEMMA Appended ==
  ASSUME NEW S, NEW s \in Seq(S), NEW e \in S
  PROVE  /\ Append(s, e) \in Seq(S)
         /\ Len(Append(s, e)) = Len(s) + 1
         /\ DOMAIN Append(s, e) = 1 .. Len(s) + 1
         /\ Append(s, e)[Len(s) + 1] = e
         /\ \A i \in 1 .. Len(s) : Append(s, e)[i] = s[i]
  OBVIOUS

(***************************************************************************)
(* The memory                                                              *)
(***************************************************************************)

\* What BlocksApart says of one block, and of two.
Inside(b) ==
  /\ b.slab <= IF b.kind = "custom" THEN Len(custom) ELSE Len(slabs)
  /\ b.at + b.size <= SizeOf(b)
  /\ \E q \in 0 .. b.at : b.at = q * Larger(b.align, MinAlign)

Apart(b, c) ==
  b.kind = c.kind /\ b.slab = c.slab =>
    b.at + b.size <= c.at \/ c.at + c.size <= b.at

\* The blocks of the current slab end where its free space begins.
Before(b) == b.kind = "slab" /\ b.slab = Len(slabs) => b.at + b.size <= cur

MemoryType ==
  /\ slabs \in Seq(Nat \ {0}) /\ custom \in Seq(Nat \ {0}) /\ cur \in Nat
  /\ blocks \in Seq(BlockType)

MemoryInv ==
  /\ \A i \in DOMAIN blocks : Inside(blocks[i]) /\ Before(blocks[i])
  /\ \A i, j \in DOMAIN blocks : i # j => Apart(blocks[i], blocks[j])

MemoryOK == MemoryType /\ MemoryInv

LEMMA ApartFrom == ASSUME MemoryInv PROVE BlocksApart
  BY DEF MemoryInv, Inside, Apart, BlocksApart

\* Slabs are only added.
SlabsStay ==
  /\ custom' \in Seq(Nat \ {0}) /\ slabs' \in Seq(Nat \ {0})
  /\ Len(custom) <= Len(custom') /\ Len(slabs) <= Len(slabs')
  /\ \A k \in 1 .. Len(custom) : custom'[k] = custom[k]
  /\ \A k \in 1 .. Len(slabs) : slabs'[k] = slabs[k]

\* A block does not come to lie outside its slab when more slabs are appended.
LEMMA StaysInside ==
  ASSUME MemoryOK, SlabsStay, NEW i \in DOMAIN blocks, blocks'[i] = blocks[i]
  PROVE  Inside(blocks[i])'
<1>1. blocks \in Seq(BlockType) /\ blocks[i] \in BlockType /\ Inside(blocks[i])
  BY DEF MemoryOK, MemoryType, MemoryInv
<1>2. /\ Len(custom) \in Nat /\ Len(slabs) \in Nat
      /\ Len(custom') \in Nat /\ Len(slabs') \in Nat
  BY DEF MemoryOK, MemoryType, SlabsStay
<1>3. blocks[i].slab \in Nat \ {0} /\ blocks[i].kind \in {"slab", "custom"}
  BY <1>1 DEF BlockType
<1>4. SizeOf(blocks[i])' = SizeOf(blocks[i])
  BY SMTT(30), <1>1, <1>2, <1>3 DEF Inside, SizeOf, SlabsStay
<1> QED
  BY <1>1, <1>2, <1>3, <1>4 DEF Inside, SlabsStay

\* One more block keeps the invariant, when it is apart from the others.
LEMMA OneMore ==
  ASSUME MemoryOK, SlabsStay, NEW b \in BlockType, blocks' = Append(blocks, b),
         cur' \in Nat, Inside(b)', Before(b)',
         \A i \in DOMAIN blocks : blocks'[i] = blocks[i] =>
           Before(blocks[i])' /\ Apart(b, blocks[i]) /\ Apart(blocks[i], b)
  PROVE  MemoryOK'
<1> DEFINE n == Len(blocks)
<1>1. /\ n \in Nat /\ DOMAIN blocks = 1 .. n /\ DOMAIN blocks' = 1 .. n + 1
      /\ blocks' \in Seq(BlockType) /\ blocks'[n + 1] = b
      /\ \A i \in 1 .. n : blocks'[i] = blocks[i]
  <2>1. blocks \in Seq(BlockType)
    BY DEF MemoryOK, MemoryType
  <2> QED
    BY <2>1, Appended
<1> HIDE DEF n
<1>2. \A i \in DOMAIN blocks' : i \in 1 .. n \/ i = n + 1
  BY <1>1
<1>3. ASSUME NEW i \in DOMAIN blocks'
      PROVE  (Inside(blocks[i]) /\ Before(blocks[i]))'
  <2>1. CASE i \in 1 .. n
    BY <1>1, <2>1, StaysInside
  <2>2. CASE i = n + 1
    BY <1>1, <2>2 DEF Inside, Before
  <2> QED
    BY <1>2, <2>1, <2>2
<1>4. ASSUME NEW i \in DOMAIN blocks', NEW j \in DOMAIN blocks', i # j
      PROVE  Apart(blocks'[i], blocks'[j])
  <2>1. CASE i \in 1 .. n /\ j \in 1 .. n
    BY <1>1, <1>4, <2>1 DEF MemoryOK, MemoryInv
  <2>2. CASE i = n + 1 /\ j \in 1 .. n
    BY <1>1, <2>2
  <2>3. CASE i \in 1 .. n /\ j = n + 1
    BY <1>1, <2>3
  <2> QED
    BY <1>2, <1>4, <2>1, <2>2, <2>3
<1>5. \A i, j \in DOMAIN blocks' : i # j => Apart(blocks'[i], blocks'[j])
  BY <1>4
<1>6. MemoryType'
  BY <1>1 DEF MemoryType, SlabsStay
<1>7. MemoryInv'
  BY <1>3, <1>5 DEF MemoryInv, Apart
<1> QED
  BY <1>6, <1>7 DEF MemoryOK

LEMMA BlockFacts ==
  ASSUME MemoryOK, NEW i \in DOMAIN blocks
  PROVE  /\ blocks[i].kind \in {"slab", "custom"}
         /\ blocks[i].slab \in Nat \ {0} /\ blocks[i].at \in Nat
         /\ blocks[i].size \in Nat \ {0}
         /\ blocks[i].kind = "custom" => blocks[i].slab <= Len(custom)
         /\ blocks[i].kind = "slab" => blocks[i].slab <= Len(slabs)
         /\ Before(blocks[i])
<1>1. blocks[i] \in BlockType /\ Inside(blocks[i]) /\ Before(blocks[i])
  BY DEF MemoryOK, MemoryType, MemoryInv
<1> QED
  BY <1>1 DEF BlockType, Inside

LEMMA CustomOK ==
  ASSUME MemoryOK, NEW n \in Nat \ {0}, NEW align \in Nat \ {0},
         AllocateCustom(n, align)
  PROVE  MemoryOK'
<1>1. /\ custom \in Seq(Nat \ {0}) /\ slabs \in Seq(Nat \ {0}) /\ cur \in Nat
      /\ Len(custom) \in Nat /\ Len(slabs) \in Nat
  BY DEF MemoryOK, MemoryType
<1>2. /\ custom' = Append(custom, n) /\ slabs' = slabs /\ cur' = cur
      /\ blocks' = Append(blocks, Block("custom", Len(custom) + 1, 0, n, align))
  BY DEF AllocateCustom
<1>3. /\ custom' \in Seq(Nat \ {0}) /\ Len(custom') = Len(custom) + 1
      /\ custom'[Len(custom) + 1] = n
      /\ \A k \in 1 .. Len(custom) : custom'[k] = custom[k]
  BY <1>1, <1>2, Appended
<1>4. PICK b \in BlockType :
        /\ b = Block("custom", Len(custom) + 1, 0, n, align)
        /\ b.kind = "custom" /\ b.slab = Len(custom) + 1 /\ b.at = 0
        /\ b.size = n /\ b.align = align
  <2>1. Block("custom", Len(custom) + 1, 0, n, align) \in BlockType
    BY <1>1 DEF Block, BlockType
  <2> QED
    BY <2>1 DEF Block
<1>5. Larger(align, MinAlign) \in Nat \ {0}
  BY LargerOf, ArenaAssumption
<1>6. Inside(b)'
  <2>1. SizeOf(b)' = n
    BY <1>3, <1>4 DEF SizeOf
  <2>2. 0 \in 0 .. b.at /\ b.at = 0 * Larger(b.align, MinAlign)
    <3>1. \A k \in Nat \ {0} : 0 = 0 * k
      OBVIOUS
    <3> QED
      BY <1>4, <1>5, <3>1
  <2> QED
    BY <1>1, <1>3, <1>4, <2>1, <2>2 DEF Inside
<1>7. Before(b)'
  BY <1>4 DEF Before
<1>8. SlabsStay
  BY <1>1, <1>2, <1>3 DEF SlabsStay
<1>9. ASSUME NEW i \in DOMAIN blocks, blocks'[i] = blocks[i]
      PROVE  Before(blocks[i])' /\ Apart(b, blocks[i]) /\ Apart(blocks[i], b)
  <2>1. Before(blocks[i])'
    BY <1>2, <1>9, BlockFacts DEF Before
  <2>2. b.kind = blocks[i].kind => b.slab # blocks[i].slab
    BY <1>1, <1>4, BlockFacts
  <2> QED
    BY <2>1, <2>2 DEF Apart
<1> QED
  BY <1>1, <1>2, <1>4, <1>6, <1>7, <1>8, <1>9, OneMore

LEMMA BumpOK ==
  ASSUME MemoryOK, NEW n \in Nat \ {0}, NEW align \in Nat \ {0},
         Fits(n, align), Bump(n, align)
  PROVE  MemoryOK'
<1>1. /\ custom \in Seq(Nat \ {0}) /\ slabs \in Seq(Nat \ {0}) /\ cur \in Nat
      /\ Len(custom) \in Nat /\ Len(slabs) \in Nat \ {0}
  BY DEF MemoryOK, MemoryType, Fits
<1> DEFINE r == Result(align)
<1>2. /\ r \in Nat /\ cur <= r
      /\ \E q \in 0 .. r : r = q * Larger(align, MinAlign)
  <2>1. Larger(align, MinAlign) \in Nat \ {0}
    BY LargerOf, ArenaAssumption
  <2> QED
    BY <1>1, <2>1, Aligned DEF Result
<1>3. /\ custom' = custom /\ slabs' = slabs /\ cur' = r + n
      /\ blocks' = Append(blocks, Block("slab", Len(slabs), r, n, align))
      /\ r + n <= slabs[Len(slabs)]
  BY DEF Bump, Fits
<1> HIDE DEF r
<1>4. PICK b \in BlockType :
        /\ b = Block("slab", Len(slabs), r, n, align)
        /\ b.kind = "slab" /\ b.slab = Len(slabs) /\ b.at = r
        /\ b.size = n /\ b.align = align
  <2>1. Block("slab", Len(slabs), r, n, align) \in BlockType
    BY <1>1, <1>2 DEF Block, BlockType
  <2> QED
    BY <2>1 DEF Block
<1>5. Inside(b)'
  <2>1. SizeOf(b)' = slabs[Len(slabs)]
    BY <1>3, <1>4 DEF SizeOf
  <2> QED
    BY SMTT(30), <1>1, <1>2, <1>3, <1>4, <2>1 DEF Inside
<1>6. Before(b)'
  BY <1>3, <1>4 DEF Before
<1>7. SlabsStay
  BY <1>1, <1>3 DEF SlabsStay
<1>8. ASSUME NEW i \in DOMAIN blocks, blocks'[i] = blocks[i]
      PROVE  Before(blocks[i])' /\ Apart(b, blocks[i]) /\ Apart(blocks[i], b)
  <2>1. blocks[i].kind = "slab" /\ blocks[i].slab = Len(slabs)
          => blocks[i].at + blocks[i].size <= cur
    BY BlockFacts DEF Before
  <2>2. Before(blocks[i])'
    <3>1. blocks[i].at + blocks[i].size \in Nat
      BY BlockFacts
    <3>2. blocks[i].kind = "slab" /\ blocks[i].slab = Len(slabs)
            => blocks[i].at + blocks[i].size <= cur'
      BY <1>1, <1>2, <1>3, <2>1, <3>1
    <3> QED
      BY <1>3, <1>8, <3>2 DEF Before
  <2>3. b.kind = blocks[i].kind /\ b.slab = blocks[i].slab
          => blocks[i].at + blocks[i].size <= b.at
    BY <1>1, <1>2, <1>4, <2>1, BlockFacts
  <2> QED
    BY <2>2, <2>3 DEF Apart
<1> QED
  BY SMTT(30), <1>1, <1>2, <1>3, <1>4, <1>5, <1>6, <1>7, <1>8, OneMore

LEMMA GrowOK ==
  ASSUME MemoryOK, NEW n \in Nat \ {0}, NEW align \in Nat \ {0},
         n <= SizeThreshold, Grow(n, align)
  PROVE  MemoryOK'
<1>1. /\ custom \in Seq(Nat \ {0}) /\ slabs \in Seq(Nat \ {0}) /\ cur \in Nat
      /\ Len(custom) \in Nat /\ Len(slabs) \in Nat
  BY DEF MemoryOK, MemoryType
<1>2. ComputeSlabSize \in Nat \ {0} /\ n <= ComputeSlabSize
  BY <1>1, SlabSizes, ArenaAssumption
<1>3. /\ custom' = custom /\ slabs' = Append(slabs, ComputeSlabSize) /\ cur' = n
      /\ blocks' = Append(blocks, Block("slab", Len(slabs) + 1, 0, n, align))
  BY DEF Grow
<1>4. /\ slabs' \in Seq(Nat \ {0}) /\ Len(slabs') = Len(slabs) + 1
      /\ slabs'[Len(slabs) + 1] = ComputeSlabSize
      /\ \A k \in 1 .. Len(slabs) : slabs'[k] = slabs[k]
  BY <1>1, <1>2, <1>3, Appended
<1>5. PICK b \in BlockType :
        /\ b = Block("slab", Len(slabs) + 1, 0, n, align)
        /\ b.kind = "slab" /\ b.slab = Len(slabs) + 1 /\ b.at = 0
        /\ b.size = n /\ b.align = align
  <2>1. Block("slab", Len(slabs) + 1, 0, n, align) \in BlockType
    BY <1>1 DEF Block, BlockType
  <2> QED
    BY <2>1 DEF Block
<1>6. Inside(b)'
  <2>1. SizeOf(b)' = ComputeSlabSize
    BY <1>4, <1>5 DEF SizeOf
  <2>2. 0 \in 0 .. b.at /\ b.at = 0 * Larger(b.align, MinAlign)
    <3>1. \A k \in Nat \ {0} : 0 = 0 * k
      OBVIOUS
    <3>2. Larger(align, MinAlign) \in Nat \ {0}
      BY LargerOf, ArenaAssumption
    <3> QED
      BY <1>5, <3>1, <3>2
  <2> QED
    BY <1>1, <1>2, <1>4, <1>5, <2>1, <2>2 DEF Inside
<1>7. Before(b)'
  BY <1>3, <1>5 DEF Before
<1>8. SlabsStay
  BY <1>1, <1>3, <1>4 DEF SlabsStay
<1>9. ASSUME NEW i \in DOMAIN blocks, blocks'[i] = blocks[i]
      PROVE  Before(blocks[i])' /\ Apart(b, blocks[i]) /\ Apart(blocks[i], b)
  <2>1. blocks[i].kind = "slab" => blocks[i].slab # Len(slabs) + 1
    BY <1>1, BlockFacts
  <2>2. Before(blocks[i])'
    BY <1>4, <1>9, <2>1 DEF Before
  <2> QED
    BY <1>5, <2>1, <2>2 DEF Apart
<1> QED
  BY <1>3, <1>5, <1>6, <1>7, <1>8, <1>9, OneMore

LEMMA AllocateOK ==
  ASSUME MemoryOK, NEW n \in Nat \ {0}, NEW align \in Nat \ {0},
         Allocate(n, align)
  PROVE  MemoryOK'
  BY CustomOK, BumpOK, GrowOK DEF Allocate

LEMMA ReleaseOK == MemoryOK /\ Release => MemoryOK'
<1> SUFFICES ASSUME MemoryOK, Release PROVE MemoryOK'
  OBVIOUS
<1>1. slabs' \in Seq(Nat \ {0})
  <2>1. slabs \in Seq(Nat \ {0})
    BY DEF MemoryOK, MemoryType
  <2>2. slabs # << >> => slabs[1] \in Nat \ {0}
    BY <2>1
  <2>3. slabs # << >> => << slabs[1] >> \in Seq(Nat \ {0})
    BY <2>2
  <2>4. << >> \in Seq(Nat \ {0})
    OBVIOUS
  <2>5. Kept \in Seq(Nat \ {0})
    BY <2>3, <2>4 DEF Kept
  <2> QED
    BY <2>4, <2>5 DEF Release
<1>2. MemoryType'
  BY <1>1 DEF Release, MemoryType
<1>3. MemoryInv'
  BY DEF Release, MemoryInv
<1> QED
  BY <1>2, <1>3 DEF MemoryOK

LEMMA MemoryStays == MemoryOK /\ UNCHANGED memory => MemoryOK'
  BY DEF MemoryOK, MemoryType, MemoryInv, memory, Inside, Before, Apart, SizeOf

LEMMA MemoryInvariant == ASpec => []MemoryOK
<1>1. AInit => MemoryOK
  <2> SUFFICES ASSUME AInit PROVE MemoryOK
    OBVIOUS
  <2>1. << >> \in Seq(Nat \ {0}) /\ << >> \in Seq(BlockType)
    OBVIOUS
  <2>2. MemoryType /\ DOMAIN blocks = {}
    BY <2>1 DEF AInit, MemoryType
  <2> QED
    BY <2>2 DEF MemoryOK, MemoryInv
<1>2. MemoryOK /\ [ANext]_avars => MemoryOK'
  <2> SUFFICES ASSUME MemoryOK, [ANext]_avars PROVE MemoryOK'
    OBVIOUS
  <2>1. ASSUME NEW n \in Sizes, NEW align \in Aligns,
               AllocateBytes(n, align)
                 \/ \E d \in BOOLEAN : StartCreate(n, align, d)
        PROVE  MemoryOK'
    <3>1. Allocate(n, align)
      BY <2>1 DEF AllocateBytes, StartCreate
    <3>2. n \in Nat \ {0} /\ align \in Nat \ {0}
      BY ArenaAssumption
    <3> QED
      BY <3>1, <3>2, AllocateOK
  <2>2. CASE FinishCreate
    <3>1. CASE Innermost.dtor
      <4>1. Allocate(RecordSize, RecordAlign)
        BY <2>2, <3>1 DEF FinishCreate
      <4>2. RecordSize \in Nat \ {0} /\ RecordAlign \in Nat \ {0}
        BY ArenaAssumption
      <4> QED
        BY <4>1, <4>2, AllocateOK
    <3>2. CASE ~Innermost.dtor
      BY <2>2, <3>2, MemoryStays DEF FinishCreate
    <3> QED
      BY <3>1, <3>2
  <2>3. CASE \E n \in 0 .. Len(making) : Unwind(n)
    BY <2>3, MemoryStays DEF Unwind
  <2>4. CASE \E why \in {"reset", "exit"} : StartWalk(why)
    BY <2>4, MemoryStays DEF StartWalk
  <2>5. CASE Destroy
    BY <2>5, MemoryStays DEF Destroy
  <2>6. CASE Release
    BY <2>6, ReleaseOK
  <2>7. CASE UNCHANGED avars
    BY <2>7, MemoryStays DEF avars
  <2> QED
    BY <2>1, <2>2, <2>3, <2>4, <2>5, <2>6, <2>7 DEF ANext
<1> QED
  BY <1>1, <1>2, PTL DEF ASpec

\* However slabs fill and grow, and whatever is reset, memory handed out lies
\* in a slab, aligned, and apart from what else has been handed out.
THEOREM Apartness == ASpec => []BlocksApart
<1>1. MemoryOK => BlocksApart
  BY ApartFrom DEF MemoryOK
<1> QED
  BY <1>1, MemoryInvariant, PTL

(***************************************************************************)
(* The objects                                                             *)
(***************************************************************************)

LEMMA Consed ==
  ASSUME NEW S, NEW s \in Seq(S), NEW e \in S
  PROVE  /\ << e >> \o s \in Seq(S)
         /\ Len(<< e >> \o s) = Len(s) + 1
         /\ (<< e >> \o s)[1] = e
         /\ \A i \in 1 .. Len(s) : (<< e >> \o s)[i + 1] = s[i]
         /\ \A i \in 1 .. Len(s) + 1 : i = 1 \/ i - 1 \in 1 .. Len(s)
<1> DEFINE one == << e >>
<1>1. one \in Seq(S) /\ Len(one) = 1 /\ one[1] = e /\ Len(s) \in Nat
  OBVIOUS
<1> HIDE DEF one
<1>2. /\ one \o s \in Seq(S) /\ Len(one \o s) = Len(one) + Len(s)
      /\ \A i \in 1 .. Len(one) + Len(s) :
           (one \o s)[i] = IF i <= Len(one) THEN one[i] ELSE s[i - Len(one)]
  <2>1. one \in Seq(S)
    BY <1>1
  <2> QED
    BY <2>1, ConcatProperties
<1>3. (one \o s)[1] = e
  BY <1>1, <1>2
<1>4. \A i \in 1 .. Len(s) : (one \o s)[i + 1] = s[i]
  BY <1>1, <1>2
<1>5. \A i \in 1 .. Len(s) + 1 : i = 1 \/ i - 1 \in 1 .. Len(s)
  BY <1>1
<1> QED
  BY <1>1, <1>2, <1>3, <1>4, <1>5 DEF one

\* An element passed from one sequence to the next leaves the two together.
LEMMA Passed ==
  ASSUME NEW S, NEW s \in Seq(S), NEW t \in Seq(S), t # << >>
  PROVE  /\ Append(s, Head(t)) \in Seq(S) /\ Tail(t) \in Seq(S)
         /\ Append(s, Head(t)) \o Tail(t) = s \o t
<1> DEFINE a == Append(s, Head(t))
           b == Tail(t)
<1>1. /\ Head(t) \in S /\ Head(t) = t[1] /\ b \in Seq(S) /\ Len(b) = Len(t) - 1
      /\ \A i \in 1 .. Len(b) : b[i] = t[i + 1]
      /\ Len(s) \in Nat /\ Len(t) \in Nat \ {0}
  BY HeadTailProperties
<1>2. /\ a \in Seq(S) /\ Len(a) = Len(s) + 1 /\ a[Len(s) + 1] = t[1]
      /\ \A i \in 1 .. Len(s) : a[i] = s[i]
  BY <1>1, Appended
<1> HIDE DEF a, b
<1>3. /\ a \o b \in Seq(S) /\ Len(a \o b) = Len(a) + Len(b)
      /\ \A i \in 1 .. Len(a) + Len(b) :
           (a \o b)[i] = IF i <= Len(a) THEN a[i] ELSE b[i - Len(a)]
  <2>1. a \in Seq(S) /\ b \in Seq(S)
    BY <1>1, <1>2
  <2> QED
    BY <2>1, ConcatProperties
<1>4. /\ s \o t \in Seq(S) /\ Len(s \o t) = Len(s) + Len(t)
      /\ \A i \in 1 .. Len(s) + Len(t) :
           (s \o t)[i] = IF i <= Len(s) THEN s[i] ELSE t[i - Len(s)]
  BY ConcatProperties
<1>5. ASSUME NEW i \in 1 .. Len(s) + Len(t) PROVE (a \o b)[i] = (s \o t)[i]
  <2>1. CASE i <= Len(s)
    BY <1>1, <1>2, <1>3, <1>4, <2>1
  <2>2. CASE i = Len(s) + 1
    BY <1>1, <1>2, <1>3, <1>4, <2>2
  <2>3. CASE i > Len(s) + 1
    <3>1. i - Len(a) \in 1 .. Len(b) /\ i - Len(a) + 1 = i - Len(s)
      BY <1>1, <1>2, <2>3
    <3>2. (a \o b)[i] = b[i - Len(a)]
      BY <1>1, <1>2, <1>3, <2>3
    <3>3. (s \o t)[i] = t[i - Len(s)]
      BY <1>1, <1>4, <2>3
    <3> QED
      BY <1>1, <3>1, <3>2, <3>3
  <2>4. i <= Len(s) \/ i = Len(s) + 1 \/ i > Len(s) + 1
    BY <1>1
  <2> QED
    BY <2>1, <2>2, <2>3, <2>4
<1>6. a \o b = s \o t
  <2>1. Len(a \o b) = Len(s) + Len(t)
    BY <1>1, <1>2, <1>3
  <2>2. \A i \in 1 .. Len(a \o b) : (a \o b)[i] = (s \o t)[i]
    BY <1>5, <2>1
  <2>3. a \o b \in Seq(S) /\ s \o t \in Seq(S) /\ Len(a \o b) = Len(s \o t)
    BY <1>3, <1>4, <2>1
  <2> QED
    BY <2>2, <2>3, SeqEqual
<1> QED
  BY <1>1, <1>2, <1>6 DEF a, b

ObjectType == [id : Nat, dtor : BOOLEAN]

ObjectsType ==
  /\ cleanups \in Seq(Nat) /\ making \in Seq(ObjectType)
  /\ phase \in {"open", "reset", "exit", "gone"}
  /\ complete \in SUBSET Nat /\ destroyed \in Seq(Nat)
  /\ parts \in SUBSET (Nat \X Nat) /\ born \in Nat

Distinct(s) == \A i, j \in DOMAIN s : i # j => s[i] # s[j]

\* An object that is complete is linked ahead of its parts.
OwnersAhead(s) ==
  \A p \in parts : p[1] \in complete =>
    \A i, j \in DOMAIN s : s[i] = p[1] /\ s[j] = p[2] => i < j

\* Objects under construction are not complete, and all are of the past.
MakingApart ==
  /\ \A i \in DOMAIN making :
       making[i].id \in 1 .. born /\ making[i].id \notin complete
  /\ \A i, j \in DOMAIN making : i # j => making[i].id # making[j].id
  /\ complete \subseteq 1 .. born
  /\ \A p \in parts : p[1] \in 1 .. born /\ p[2] \in complete

ObjectsOK ==
  /\ ObjectsType
  /\ phase = "open" => destroyed = << >>
  /\ phase # "open" => making = << >>
  /\ Elements(All) = complete /\ Distinct(All) /\ OwnersAhead(All)
  /\ MakingApart

LEMMA ObjectsStay ==
  ASSUME ObjectsOK, UNCHANGED << objects, phase >> PROVE ObjectsOK'
<1>1. /\ cleanups' = cleanups /\ making' = making /\ complete' = complete
      /\ destroyed' = destroyed /\ parts' = parts /\ born' = born
      /\ phase' = phase
  BY DEF objects
<1>2. All' = All
  BY <1>1 DEF All
<1>3. ObjectsType'
  BY <1>1 DEF ObjectsOK, ObjectsType
<1>4. Elements(All') = complete' /\ Distinct(All') /\ OwnersAhead(All)'
  BY <1>1, <1>2 DEF ObjectsOK, OwnersAhead
<1>5. MakingApart'
  BY <1>1 DEF ObjectsOK, MakingApart
<1> QED
  BY <1>1, <1>3, <1>4, <1>5 DEF ObjectsOK

LEMMA StartCreateOK ==
  ASSUME ObjectsOK, NEW n, NEW align, NEW d \in BOOLEAN, StartCreate(n, align, d)
  PROVE  ObjectsOK'
<1> DEFINE o == [id |-> born + 1, dtor |-> d]
<1>1. /\ phase = "open" /\ phase' = phase /\ born' = born + 1 /\ born \in Nat
      /\ making' = Append(making, o) /\ cleanups' = cleanups
      /\ complete' = complete /\ destroyed' = destroyed /\ parts' = parts
  BY DEF StartCreate, ObjectsOK, ObjectsType
<1>2. o \in ObjectType /\ o.id = born + 1
  BY <1>1 DEF ObjectType
<1> HIDE DEF o
<1>3. /\ making \in Seq(ObjectType) /\ Len(making) \in Nat
      /\ DOMAIN making = 1 .. Len(making)
      /\ making' \in Seq(ObjectType) /\ DOMAIN making' = 1 .. Len(making) + 1
      /\ making'[Len(making) + 1] = o
      /\ \A i \in 1 .. Len(making) : making'[i] = making[i]
  <2>1. making \in Seq(ObjectType)
    BY DEF ObjectsOK, ObjectsType
  <2> QED
    BY <1>1, <1>2, <2>1, Appended
<1>4. ObjectsType'
  BY <1>1, <1>3 DEF ObjectsOK, ObjectsType
<1>5. All' = All
  BY <1>1 DEF All
<1>6. Elements(All') = complete' /\ Distinct(All') /\ OwnersAhead(All)'
  BY <1>1, <1>5 DEF ObjectsOK, OwnersAhead
<1>7. MakingApart'
  <2>1. MakingApart
    BY DEF ObjectsOK
  <2>2. ASSUME NEW i \in DOMAIN making'
        PROVE  making'[i].id \in 1 .. born' /\ making'[i].id \notin complete'
    <3>1. CASE i \in 1 .. Len(making)
      BY <1>1, <1>3, <2>1, <3>1 DEF MakingApart
    <3>2. CASE i = Len(making) + 1
      BY <1>1, <1>2, <1>3, <2>1, <3>2 DEF MakingApart
    <3> QED
      BY <1>3, <3>1, <3>2
  <2>3. ASSUME NEW i \in DOMAIN making', NEW j \in DOMAIN making', i # j
        PROVE  making'[i].id # making'[j].id
    <3>1. \A k \in 1 .. Len(making) : making'[k].id # born + 1
      BY <1>1, <1>3, <2>1 DEF MakingApart
    <3>2. CASE i \in 1 .. Len(making) /\ j \in 1 .. Len(making)
      BY <1>3, <2>1, <2>3, <3>2 DEF MakingApart
    <3> QED
      BY <1>2, <1>3, <2>3, <3>1, <3>2
  <2>4. complete' \subseteq 1 .. born'
    BY <1>1, <2>1 DEF MakingApart
  <2>5. \A p \in parts' : p[1] \in 1 .. born' /\ p[2] \in complete'
    BY <1>1, <2>1 DEF MakingApart
  <2> QED
    BY <2>2, <2>3, <2>4, <2>5 DEF MakingApart
<1> QED
  BY <1>1, <1>4, <1>6, <1>7 DEF ObjectsOK

LEMMA FinishCreateOK ==
  ASSUME ObjectsOK, FinishCreate PROVE ObjectsOK'
<1> DEFINE L == Len(making) - 1
           o == making[L + 1]
<1>1. /\ phase = "open" /\ phase' = phase /\ making # << >> /\ born' = born
      /\ making' = Others /\ destroyed' = destroyed /\ destroyed = << >>
  BY DEF FinishCreate, ObjectsOK
<1>2. /\ making \in Seq(ObjectType) /\ L \in Nat /\ Len(making) = L + 1
      /\ DOMAIN making = 1 .. L + 1
      /\ cleanups \in Seq(Nat) /\ destroyed \in Seq(Nat)
  <2>1. making \in Seq(ObjectType) /\ cleanups \in Seq(Nat) /\ destroyed \in Seq(Nat)
    BY DEF ObjectsOK, ObjectsType
  <2> QED
    BY <1>1, <2>1
<1>3. /\ Others \in Seq(ObjectType) /\ Len(Others) = L /\ DOMAIN Others = 1 .. L
      /\ \A i \in 1 .. L : Others[i] = making[i]
  BY <1>2 DEF Others
<1>4. Innermost = o /\ o \in ObjectType
  BY <1>2 DEF Innermost
<1> HIDE DEF L, o
<1>5. All = cleanups /\ All' = cleanups'
  <2>1. << >> \o cleanups = cleanups
    BY <1>2, ConcatEmptySeq
  <2>2. cleanups' \in Seq(Nat)
    <3>1. CASE Innermost.dtor
      <4>1. cleanups' = << o.id >> \o cleanups /\ o.id \in Nat
        BY <1>4, <3>1 DEF FinishCreate, ObjectType
      <4> QED
        BY <1>2, <4>1, Consed
    <3>2. CASE ~Innermost.dtor
      BY <1>2, <3>2 DEF FinishCreate
    <3> QED
      BY <3>1, <3>2
  <2>3. << >> \o cleanups' = cleanups'
    BY <2>2, ConcatEmptySeq
  <2> QED
    BY <1>1, <2>1, <2>3 DEF All
<1>6. /\ Elements(cleanups) = complete /\ Distinct(cleanups)
      /\ OwnersAhead(cleanups) /\ MakingApart
  BY <1>5 DEF ObjectsOK
<1>7. /\ o.id \in 1 .. born /\ o.id \notin complete /\ o.id \in Nat
      /\ \A i \in 1 .. L : making[i].id # o.id
  <2>1. L + 1 \in DOMAIN making /\ o = making[L + 1]
    BY <1>2 DEF o
  <2>2. \A i \in 1 .. L : i \in DOMAIN making /\ i # L + 1
    BY <1>2
  <2> QED
    BY <1>2, <1>4, <1>6, <2>1, <2>2 DEF MakingApart, ObjectType
<1>8. \A i, j \in DOMAIN making' : i # j => making'[i].id # making'[j].id
  BY SMTT(30), <1>1, <1>2, <1>3, <1>6 DEF MakingApart
<1>9. CASE Innermost.dtor
  <2>1. /\ cleanups' = << o.id >> \o cleanups
        /\ complete' = complete \cup {o.id}
        /\ parts' = parts \cup { << Others[i].id, o.id >> : i \in DOMAIN Others }
    BY <1>4, <1>9 DEF FinishCreate
  <2>2. /\ cleanups' \in Seq(Nat) /\ Len(cleanups') = Len(cleanups) + 1
        /\ cleanups'[1] = o.id /\ DOMAIN cleanups' = 1 .. Len(cleanups) + 1
        /\ \A i \in 1 .. Len(cleanups) : cleanups'[i + 1] = cleanups[i]
        /\ \A i \in 1 .. Len(cleanups) + 1 : i = 1 \/ i - 1 \in 1 .. Len(cleanups)
        /\ Len(cleanups) \in Nat /\ DOMAIN cleanups = 1 .. Len(cleanups)
    <3>1. cleanups' \in Seq(Nat)
      BY <1>2, <1>7, <2>1, Consed
    <3> QED
      BY <1>2, <1>7, <2>1, <3>1, Consed
  <2>3. \A i \in DOMAIN cleanups' :
          IF i = 1 THEN cleanups'[i] = o.id
                   ELSE i - 1 \in DOMAIN cleanups /\ cleanups'[i] = cleanups[i - 1]
    BY <2>2
  <2>4. \A i \in DOMAIN cleanups : cleanups[i] \in complete /\ cleanups[i] # o.id
    BY <1>6, <1>7 DEF Elements
  <2>5. ObjectsType'
    <3>1. parts' \in SUBSET (Nat \X Nat)
      <4>1. ASSUME NEW i \in DOMAIN Others PROVE Others[i].id \in Nat
        <5>1. Others[i] \in ObjectType
          BY <1>3
        <5> QED
          BY <5>1 DEF ObjectType
      <4> QED
        BY <1>7, <2>1, <4>1 DEF ObjectsOK, ObjectsType
    <3> QED
      BY <1>1, <1>3, <1>7, <2>1, <2>2, <3>1 DEF ObjectsOK, ObjectsType
  <2>6. Elements(cleanups') = complete'
    <3>1. ASSUME NEW x \in complete' PROVE x \in Elements(cleanups')
      <4>1. CASE x = o.id
        <5>1. 1 \in DOMAIN cleanups' /\ cleanups'[1] = x
          BY <2>2, <4>1
        <5> QED
          BY <5>1 DEF Elements
      <4>2. CASE x \in complete
        <5>1. PICK i \in DOMAIN cleanups : x = cleanups[i]
          BY <1>6, <4>2 DEF Elements
        <5>2. i + 1 \in DOMAIN cleanups' /\ cleanups'[i + 1] = x
          BY <2>2, <5>1
        <5> QED
          BY <5>2 DEF Elements
      <4> QED
        BY <2>1, <4>1, <4>2
    <3>2. ASSUME NEW x \in Elements(cleanups') PROVE x \in complete'
      BY <2>1, <2>3, <2>4 DEF Elements
    <3> QED
      BY <3>1, <3>2
  <2>7. Distinct(cleanups')
    <3>1. ASSUME NEW i \in DOMAIN cleanups', NEW j \in DOMAIN cleanups', i # j
          PROVE  cleanups'[i] # cleanups'[j]
      <4>1. CASE i = 1
        BY <2>3, <2>4, <3>1, <4>1
      <4>2. CASE j = 1
        BY <2>3, <2>4, <3>1, <4>2
      <4>3. CASE i # 1 /\ j # 1
        <5>1. i - 1 # j - 1
          BY <2>2, <3>1
        <5> QED
          BY <1>6, <2>3, <4>3, <5>1 DEF Distinct
      <4> QED
        BY <4>1, <4>2, <4>3
    <3> QED
      BY <3>1 DEF Distinct
  <2>8. OwnersAhead(cleanups)'
    <3> SUFFICES ASSUME NEW p \in parts', p[1] \in complete',
                        NEW i \in DOMAIN cleanups', NEW j \in DOMAIN cleanups',
                        cleanups'[i] = p[1], cleanups'[j] = p[2]
                 PROVE  i < j
      BY DEF OwnersAhead
    <3>1. CASE p \in parts
      <4>1. p[2] \in complete
        BY <1>6, <3>1 DEF MakingApart
      <4>2. j # 1
        BY <1>7, <2>2, <4>1
      <4>3. CASE i = 1
        BY <2>2, <4>2, <4>3
      <4>4. CASE i # 1
        <5>1. /\ i - 1 \in DOMAIN cleanups /\ cleanups[i - 1] = p[1]
              /\ j - 1 \in DOMAIN cleanups /\ cleanups[j - 1] = p[2]
          BY <2>3, <4>2, <4>4
        <5>2. p[1] \in complete
          BY <2>4, <5>1
        <5>3. i - 1 < j - 1
          BY <1>6, <3>1, <5>1, <5>2 DEF OwnersAhead
        <5> QED
          BY <2>2, <5>3
      <4> QED
        BY <4>3, <4>4
    <3>2. CASE p \notin parts
      <4>1. PICK k \in DOMAIN Others : p = << Others[k].id, o.id >>
        BY <2>1, <3>2
      <4>2. p[1] = making[k].id /\ k \in 1 .. L /\ k \in DOMAIN making
        BY <1>2, <1>3, <4>1
      <4>3. p[1] \notin complete /\ p[1] # o.id
        BY <1>6, <1>7, <4>2 DEF MakingApart
      <4> QED
        BY <2>1, <4>3
    <3> QED
      BY <3>1, <3>2
  <2>9. MakingApart'
    <3>1. ASSUME NEW i \in DOMAIN making'
          PROVE  making'[i].id \in 1 .. born' /\ making'[i].id \notin complete'
      <4>1. i \in 1 .. L /\ i \in DOMAIN making /\ making'[i] = making[i]
        BY <1>1, <1>2, <1>3
      <4> QED
        BY <1>1, <1>6, <1>7, <2>1, <4>1 DEF MakingApart
    <3>2. complete' \subseteq 1 .. born'
      BY <1>1, <1>6, <1>7, <2>1 DEF MakingApart
    <3>3. ASSUME NEW p \in parts'
          PROVE  p[1] \in 1 .. born' /\ p[2] \in complete'
      <4>1. CASE p \in parts
        BY <1>1, <1>6, <2>1, <4>1 DEF MakingApart
      <4>2. CASE p \notin parts
        <5>1. PICK k \in DOMAIN Others : p = << Others[k].id, o.id >>
          BY <2>1, <4>2
        <5>2. p[1] = making[k].id /\ p[2] = o.id /\ k \in DOMAIN making
          BY <1>2, <1>3, <5>1
        <5> QED
          BY <1>1, <1>6, <2>1, <5>2 DEF MakingApart
      <4> QED
        BY <4>1, <4>2
    <3> QED
      BY <1>8, <3>1, <3>2, <3>3 DEF MakingApart
  <2> QED
    BY <1>1, <1>5, <2>5, <2>6, <2>7, <2>8, <2>9 DEF ObjectsOK, OwnersAhead
<1>10. CASE ~Innermost.dtor
  <2>1. cleanups' = cleanups /\ complete' = complete /\ parts' = parts
    BY <1>10 DEF FinishCreate
  <2>2. ObjectsType'
    BY <1>1, <1>3, <2>1 DEF ObjectsOK, ObjectsType
  <2>3. MakingApart'
    <3>1. ASSUME NEW i \in DOMAIN making'
          PROVE  making'[i].id \in 1 .. born' /\ making'[i].id \notin complete'
      <4>1. i \in 1 .. L /\ i \in DOMAIN making /\ making'[i] = making[i]
        BY <1>1, <1>2, <1>3
      <4> QED
        BY <1>1, <1>6, <2>1, <4>1 DEF MakingApart
    <3> QED
      BY <1>1, <1>6, <1>8, <2>1, <3>1 DEF MakingApart
  <2>4. All' = All
    BY <1>5, <2>1
  <2> QED
    BY <1>1, <2>1, <2>2, <2>3, <2>4 DEF ObjectsOK, OwnersAhead
<1> QED
  BY <1>9, <1>10

LEMMA UnwindOK ==
  ASSUME ObjectsOK, NEW n \in 0 .. Len(making), Unwind(n) PROVE ObjectsOK'
<1>1. /\ phase = "open" /\ phase' = phase /\ born' = born
      /\ cleanups' = cleanups /\ complete' = complete
      /\ destroyed' = destroyed /\ parts' = parts
      /\ making' = SubSeq(making, 1, n)
  BY DEF Unwind
<1>2. /\ making \in Seq(ObjectType) /\ DOMAIN making = 1 .. Len(making)
      /\ Len(making) \in Nat
  BY DEF ObjectsOK, ObjectsType
<1>3. /\ making' \in Seq(ObjectType) /\ DOMAIN making' = 1 .. n
      /\ \A i \in 1 .. n : making'[i] = making[i] /\ i \in DOMAIN making
  BY <1>1, <1>2
<1>4. ObjectsType'
  BY <1>1, <1>3 DEF ObjectsOK, ObjectsType
<1>5. All' = All
  BY <1>1 DEF All
<1>6. MakingApart'
  <2>1. MakingApart
    BY DEF ObjectsOK
  <2>2. \A i \in DOMAIN making' :
          making'[i].id \in 1 .. born' /\ making'[i].id \notin complete'
    BY <1>1, <1>3, <2>1 DEF MakingApart
  <2>3. \A i, j \in DOMAIN making' : i # j => making'[i].id # making'[j].id
    BY <1>3, <2>1 DEF MakingApart
  <2>4. complete' \subseteq 1 .. born' /\ \A p \in parts' : p[1] \in 1 .. born' /\ p[2] \in complete'
    BY <1>1, <2>1 DEF MakingApart
  <2> QED
    BY <2>2, <2>3, <2>4 DEF MakingApart
<1> QED
  BY <1>1, <1>4, <1>5, <1>6 DEF ObjectsOK, OwnersAhead

LEMMA StartWalkOK ==
  ASSUME ObjectsOK, NEW why \in {"reset", "exit"}, StartWalk(why)
  PROVE  ObjectsOK'
<1>1. /\ phase' = why /\ making = << >> /\ making' = making /\ born' = born
      /\ cleanups' = cleanups /\ complete' = complete
      /\ destroyed' = destroyed /\ parts' = parts
  BY DEF StartWalk, objects
<1>2. ObjectsType'
  BY <1>1 DEF ObjectsOK, ObjectsType
<1>3. All' = All
  BY <1>1 DEF All
<1>4. MakingApart'
  BY <1>1 DEF ObjectsOK, MakingApart
<1> QED
  BY <1>1, <1>2, <1>3, <1>4 DEF ObjectsOK, OwnersAhead

LEMMA DestroyOK == ASSUME ObjectsOK, Destroy PROVE ObjectsOK'
<1>1. /\ phase # "open" /\ phase' = phase /\ making' = making /\ born' = born
      /\ cleanups' = Tail(cleanups) /\ complete' = complete
      /\ destroyed' = Append(destroyed, Head(cleanups)) /\ parts' = parts
      /\ cleanups # << >>
  BY DEF Destroy
<1>2. cleanups \in Seq(Nat) /\ destroyed \in Seq(Nat)
  BY DEF ObjectsOK, ObjectsType
<1>3. cleanups' \in Seq(Nat) /\ destroyed' \in Seq(Nat) /\ All' = All
  BY SMTT(30), <1>1, <1>2, Passed DEF All
<1>4. ObjectsType'
  BY <1>1, <1>3 DEF ObjectsOK, ObjectsType
<1>5. MakingApart'
  BY <1>1 DEF ObjectsOK, MakingApart
<1> QED
  BY <1>1, <1>3, <1>4, <1>5 DEF ObjectsOK, OwnersAhead

\* With nothing linked and nothing under construction every part holds.
NothingMade ==
  /\ cleanups = << >> /\ making = << >> /\ destroyed = << >>
  /\ complete = {} /\ parts = {} /\ born = 0
  /\ phase \in {"open", "reset", "exit", "gone"}

LEMMA NoObjects == NothingMade => ObjectsOK
<1> SUFFICES ASSUME NothingMade PROVE ObjectsOK
  OBVIOUS
<1> USE DEF NothingMade
<1>1. << >> \in Seq(Nat) /\ << >> \in Seq(ObjectType)
  OBVIOUS
<1>2. ObjectsType
  BY <1>1 DEF ObjectsType
<1>3. All = << >> /\ DOMAIN All = {}
  BY <1>1, ConcatEmptySeq DEF All
<1>4. Elements(All) = complete /\ Distinct(All) /\ OwnersAhead(All)
  BY <1>3 DEF Elements, Distinct, OwnersAhead
<1>5. MakingApart
  BY <1>1 DEF MakingApart
<1> QED
  BY <1>2, <1>4, <1>5 DEF ObjectsOK

LEMMA ObjectsReleased == ObjectsOK /\ Release => ObjectsOK'
<1>1. ObjectsOK /\ Release => NothingMade'
  BY DEF Release, ObjectsOK, NothingMade
<1> QED
  BY <1>1, NoObjects, PTL

LEMMA ObjectsStep == ObjectsOK /\ [ANext]_avars => ObjectsOK'
<1> SUFFICES ASSUME ObjectsOK, [ANext]_avars PROVE ObjectsOK'
  OBVIOUS
<1>1. ASSUME NEW n \in Sizes, NEW align \in Aligns, AllocateBytes(n, align)
      PROVE  ObjectsOK'
  BY <1>1, ObjectsStay DEF AllocateBytes
<1>2. ASSUME NEW n \in Sizes, NEW align \in Aligns, NEW d \in BOOLEAN,
             StartCreate(n, align, d)
      PROVE  ObjectsOK'
  BY <1>2, StartCreateOK
<1>3. CASE FinishCreate
  BY <1>3, FinishCreateOK
<1>4. CASE \E n \in 0 .. Len(making) : Unwind(n)
  BY <1>4, UnwindOK
<1>5. CASE \E why \in {"reset", "exit"} : StartWalk(why)
  BY <1>5, StartWalkOK
<1>6. CASE Destroy
  BY <1>6, DestroyOK
<1>7. CASE Release
  BY <1>7, ObjectsReleased
<1>8. CASE UNCHANGED avars
  BY <1>8, ObjectsStay DEF avars
<1> QED
  BY <1>1, <1>2, <1>3, <1>4, <1>5, <1>6, <1>7, <1>8 DEF ANext

LEMMA ObjectsInvariant == ASpec => []ObjectsOK
<1>1. AInit => ObjectsOK
  BY NoObjects DEF AInit, NothingMade
<1> QED
  BY <1>1, ObjectsStep, PTL DEF ASpec

\* An owner that is complete is destroyed when one of its parts is: it comes
\* first among all that is linked.
LEMMA SoundObjects == ObjectsOK => CleanupsSound
<1> SUFFICES ASSUME ObjectsOK PROVE CleanupsSound
  OBVIOUS
<1>1. /\ destroyed \in Seq(Nat) /\ cleanups \in Seq(Nat)
      /\ DOMAIN destroyed = 1 .. Len(destroyed) /\ Len(destroyed) \in Nat
  BY DEF ObjectsOK, ObjectsType
<1>2. /\ All \in Seq(Nat) /\ Len(All) = Len(destroyed) + Len(cleanups)
      /\ \A i \in 1 .. Len(destroyed) + Len(cleanups) :
           All[i] = IF i <= Len(destroyed) THEN destroyed[i]
                                           ELSE cleanups[i - Len(destroyed)]
  BY <1>1, ConcatProperties DEF All
<1>3. DOMAIN All = 1 .. Len(destroyed) + Len(cleanups) /\ Len(cleanups) \in Nat
  BY <1>1, <1>2
<1>4. ASSUME NEW p \in parts, p[1] \in complete, p[2] \in Elements(destroyed)
      PROVE  p[1] \in Elements(destroyed)
  <2>1. PICK j \in 1 .. Len(destroyed) : destroyed[j] = p[2]
    BY <1>1, <1>4 DEF Elements
  <2>2. j \in DOMAIN All /\ All[j] = p[2]
    BY <1>1, <1>2, <1>3, <2>1
  <2>3. PICK i \in DOMAIN All : All[i] = p[1]
    BY <1>4 DEF ObjectsOK, Elements
  <2>4. i < j
    BY <1>4, <2>2, <2>3 DEF ObjectsOK, OwnersAhead
  <2>5. i \in DOMAIN destroyed /\ destroyed[i] = p[1]
    BY <1>1, <1>2, <1>3, <2>1, <2>3, <2>4
  <2> QED
    BY <2>5 DEF Elements
<1> QED
  BY <1>4 DEF ObjectsOK, Distinct, CleanupsSound

\* However constructors nest and throw, what has been completed is destroyed
\* exactly once before its memory goes, owners before their parts.
THEOREM Cleanups == ASpec => []CleanupsSound
  BY ObjectsInvariant, SoundObjects, PTL

\* The arena's state keeps its types.
THEOREM TypeCorrect == ASpec => []ArenaTypeOK
<1>1. MemoryOK /\ ObjectsOK => ArenaTypeOK
  BY DEF MemoryOK, MemoryType, ObjectsOK, ObjectsType, ObjectType, ArenaTypeOK
<1> QED
  BY <1>1, MemoryInvariant, ObjectsInvariant, PTL

(***************************************************************************)
(* The compiler implements Arena                                           *)
(***************************************************************************)

LEMMA UnwindAll == ASSUME ObjectsOK PROVE 0 \in 0 .. Len(making)
  BY DEF ObjectsOK, ObjectsType

LEMMA CompilerStep == ObjectsOK /\ [Next]_vars => [ANext]_avars
<1> SUFFICES ASSUME ObjectsOK, [Next]_vars PROVE [ANext]_avars
  OBVIOUS
<1>1. CASE Uses
  <2>1. CASE FinishCreate
    BY <2>1 DEF ANext
  <2>2. ASSUME NEW n \in Sizes, Intern(n) PROVE ANext
    BY <2>2, DriverAssumption DEF Intern, ANext
  <2>3. ASSUME NEW n \in Sizes, NEW align \in Aligns,
               AllocateBytes(n, align)
                 \/ \E d \in BOOLEAN : StartCreate(n, align, d)
        PROVE  ANext
    BY <2>3 DEF ANext
  <2> QED
    BY <1>1, <2>1, <2>2, <2>3 DEF Uses
<1>2. ASSUME NEW what, NEW to, Throw(what, to) PROVE ANext
  BY <1>2, UnwindAll DEF Throw, ANext
<1>3. ASSUME NEW to, Goes(to) PROVE UNCHANGED avars
  BY <1>3 DEF Goes
<1>4. CASE Parsed
  BY <1>2, <1>3, <1>4 DEF Parsed
<1>5. CASE Backend
  BY <1>2, <1>3, <1>5 DEF Backend
<1>6. CASE Caught
  <2>1. CASE Catches
    BY <1>6, <2>1 DEF Caught
  <2>2. CASE ~Catches
    BY <1>6, <2>2 DEF Caught, Resets, ANext
  <2> QED
    BY <2>1, <2>2
<1>7. CASE Walk \/ ResetEnds \/ Exits
  BY <1>7 DEF Walk, ResetEnds, Exits, ANext
<1>8. CASE Leaves
  BY <1>8 DEF Leaves, ANext
<1>9. CASE StartFile \/ Reads \/ Closes \/ Reaps \/ AllFiles
  BY <1>9 DEF StartFile, Reads, Closes, Reaps, AllFiles
<1>10. CASE Cpp \/ (CppFails /\ Beside) \/ Finished \/ UNCHANGED vars
  BY <1>10 DEF Cpp, Beside, Finished, vars
<1> QED
  BY <1>1, <1>4, <1>5, <1>6, <1>7, <1>8, <1>9, <1>10 DEF Next, Compiler

\* Whatever is thrown and wherever, Ecc::run and what it calls use the arena
\* as its specification allows: Driver implements Arena.
THEOREM Refinement == Spec => ASpec
<1>1. Init => AInit
  BY DEF Init
<1>2. AInit => ObjectsOK
  BY NoObjects DEF AInit, NothingMade
<1>3. ObjectsOK /\ [Next]_vars => ObjectsOK' /\ [ANext]_avars
  BY CompilerStep, ObjectsStep
<1> QED
  BY <1>1, <1>2, <1>3, PTL DEF Spec, ASpec

\* In every run of the compiler memory is apart and cleanups are sound.
THEOREM ArenaKept == Spec => [](BlocksApart /\ CleanupsSound)
  BY Refinement, Apartness, Cleanups, PTL

(***************************************************************************)
(* One file and the next                                                   *)
(***************************************************************************)

NothingLeft ==
  /\ blocks = << >> /\ cleanups = << >> /\ making = << >>
  /\ pool = {} /\ custom = << >> /\ Len(slabs) <= 1

\* Where the compiler stands tells what the arena is in the middle of.
ArenaAt ==
  /\ at = "resetting" => phase = "reset" /\ pool = {}
  /\ at = "leaving" => phase = "exit"
  /\ at \notin {"resetting", "leaving", "done"} => phase = "open"
  /\ at = "next" => NothingLeft

FileInv == ArenaAt /\ pool \subseteq DOMAIN blocks

LEMMA Allocates ==
  ASSUME MemoryOK, NEW n, NEW align, Allocate(n, align)
  PROVE  /\ DOMAIN blocks \subseteq DOMAIN blocks'
         /\ Len(blocks) + 1 \in DOMAIN blocks'
<1>1. \E b : blocks' = Append(blocks, b)
  BY DEF Allocate, AllocateCustom, Bump, Grow
<1>2. blocks \in Seq(BlockType) /\ Len(blocks) \in Nat /\ DOMAIN blocks = 1 .. Len(blocks)
  BY DEF MemoryOK, MemoryType
<1>3. DOMAIN blocks' = 1 .. Len(blocks) + 1
  BY <1>1, <1>2
<1> QED
  BY <1>2, <1>3

LEMMA UsesKeeps == FileInv /\ MemoryOK /\ Uses => FileInv'
<1> SUFFICES ASSUME FileInv, MemoryOK, Uses PROVE FileInv'
  OBVIOUS
<1>1. at' = at /\ at \in {"parse", "mir", "validate", "lower"} /\ phase = "open"
  BY DEF Uses, Working, FileInv, ArenaAt
<1>2. CASE FinishCreate /\ UNCHANGED pool
  <2>1. DOMAIN blocks \subseteq DOMAIN blocks' /\ phase' = phase
    BY <1>2, Allocates DEF FinishCreate, memory
  <2> QED
    BY <1>1, <1>2, <2>1 DEF FileInv, ArenaAt
<1>3. ASSUME NEW n \in Sizes, Intern(n) PROVE FileInv'
  <2>1. Allocate(n, 1) /\ phase' = phase /\ pool' = pool \cup {Len(blocks) + 1}
    BY <1>3 DEF Intern, AllocateBytes
  <2>2. pool' \subseteq DOMAIN blocks'
    BY <2>1, Allocates DEF FileInv
  <2> QED
    BY <1>1, <2>1, <2>2 DEF FileInv, ArenaAt
<1>4. ASSUME NEW n \in Sizes, NEW align \in Aligns, UNCHANGED pool,
             AllocateBytes(n, align)
               \/ \E d \in BOOLEAN : StartCreate(n, align, d)
      PROVE  FileInv'
  <2>1. Allocate(n, align) /\ phase' = phase
    BY <1>4 DEF AllocateBytes, StartCreate
  <2>2. pool' \subseteq DOMAIN blocks'
    BY <1>4, <2>1, Allocates DEF FileInv
  <2> QED
    BY <1>1, <2>1, <2>2 DEF FileInv, ArenaAt
<1> QED
  BY <1>2, <1>3, <1>4 DEF Uses

LEMMA ThrowKeeps ==
  ASSUME FileInv, NEW what, NEW to \in {"close", "drop", "caught"},
         at \in {"parse", "mir", "validate", "lower"}, pool' = pool,
         Throw(what, to)
  PROVE  FileInv'
<1>1. at' = to /\ phase' = phase /\ blocks' = blocks
  BY DEF Throw, Unwind, memory
<1> QED
  BY <1>1 DEF FileInv, ArenaAt

LEMMA GoesKeeps ==
  ASSUME FileInv, NEW to \in {"close", "caught", "validate", "lower"},
         at \in {"parse", "mir", "validate", "lower"}, pool' = pool, Goes(to)
  PROVE  FileInv'
<1>1. at' = to /\ phase' = phase /\ blocks' = blocks
  BY DEF Goes, avars, memory
<1> QED
  BY <1>1 DEF FileInv, ArenaAt

LEMMA ResetKeeps == FileInv /\ ObjectsOK /\ MemoryOK /\ ResetEnds => FileInv'
<1> SUFFICES ASSUME FileInv, ObjectsOK, MemoryOK, ResetEnds PROVE FileInv'
  OBVIOUS
<1>1. /\ at = "resetting" /\ at' \in {"next", "exiting"} /\ phase = "reset"
      /\ pool = {} /\ pool' = pool
  BY DEF ResetEnds, FileInv, ArenaAt
<1>2. /\ phase' = "open" /\ slabs' = Kept /\ custom' = << >> /\ blocks' = << >>
      /\ cleanups' = cleanups /\ cleanups = << >> /\ making' = making
  BY <1>1 DEF ResetEnds, Release
<1>3. making = << >>
  BY <1>1 DEF ObjectsOK
<1>4. Len(slabs') <= 1
  BY <1>2 DEF Kept
<1> QED
  BY <1>1, <1>2, <1>3, <1>4 DEF FileInv, ArenaAt, NothingLeft

LEMMA FileStep ==
  FileInv /\ ObjectsOK /\ MemoryOK /\ [Next]_vars => FileInv'
<1> SUFFICES ASSUME FileInv, ObjectsOK, MemoryOK, [Next]_vars PROVE FileInv'
  OBVIOUS
<1>1. CASE UNCHANGED << avars, pool >> /\ at' = at
  BY <1>1 DEF avars, memory, objects, FileInv, ArenaAt, NothingLeft
<1>2. CASE Uses
  BY <1>2, UsesKeeps
<1>3. CASE Parsed
  BY <1>3, ThrowKeeps, GoesKeeps DEF Parsed
<1>4. CASE Backend
  <2>1. at \in {"mir", "validate", "lower"} /\ pool' = pool
    BY <1>4 DEF Backend, Gate
  <2>2. After[at] \in {"validate", "lower", "caught"}
    BY <2>1 DEF After
  <2> QED
    BY <1>4, <2>1, <2>2, ThrowKeeps, GoesKeeps DEF Backend
<1>5. CASE StartFile \/ Reaps \/ AllFiles
  <2>1. UNCHANGED << avars, pool >> /\ at' \notin {"resetting", "leaving", "done", "next"}
    BY <1>5 DEF StartFile, Reaps, AllFiles
  <2>2. at \notin {"resetting", "leaving", "done"}
    BY <1>5 DEF StartFile, Reaps, AllFiles
  <2> QED
    BY <2>1, <2>2 DEF avars, memory, FileInv, ArenaAt
<1>6. CASE Caught
  <2>1. CASE Catches
    BY <1>6, <2>1 DEF Caught, avars, memory, FileInv, ArenaAt
  <2>2. CASE ~Catches
    BY <1>6, <2>2 DEF Caught, Resets, StartWalk, FileInv, ArenaAt
  <2> QED
    BY <2>1, <2>2
<1>7. CASE Walk
  <2>1. at' = at /\ at # "next" /\ pool' = pool /\ phase' = phase /\ blocks' = blocks
    BY <1>7 DEF Walk, Destroy, memory
  <2> QED
    BY <2>1 DEF FileInv, ArenaAt
<1>8. CASE ResetEnds
  BY <1>8, ResetKeeps
<1>9. CASE Leaves
  BY <1>9 DEF Leaves, StartWalk, memory, FileInv, ArenaAt
<1>10. CASE Exits
  BY <1>10 DEF Exits, FileInv, ArenaAt
<1>11. Reads \/ Closes \/ Cpp \/ (CppFails /\ Beside) \/ Finished \/ UNCHANGED vars
         => UNCHANGED << avars, pool >> /\ at' = at
  BY DEF Reads, Closes, Cpp, Beside, Finished, vars
<1> QED
  BY <1>1, <1>2, <1>3, <1>4, <1>5, <1>6, <1>7, <1>8, <1>9, <1>10, <1>11
     DEF Next, Compiler

LEMMA FileInvariant == Spec => []FileInv
<1>1. Init => FileInv
  <2> SUFFICES ASSUME Init PROVE FileInv
    OBVIOUS
  <2>1. /\ phase = "open" /\ pool = {} /\ blocks = << >> /\ cleanups = << >>
        /\ making = << >> /\ custom = << >> /\ slabs = << >>
        /\ at \in {"next", "exiting"}
    BY DEF Init, AInit
  <2>2. Len(slabs) <= 1
    BY <2>1
  <2> QED
    BY <2>1, <2>2 DEF FileInv, ArenaAt, NothingLeft
<1> QED
  BY <1>1, FileStep, Refinement, ObjectsInvariant, MemoryInvariant, PTL DEF Spec

(***************************************************************************)
(* What is reported                                                        *)
(***************************************************************************)

States == {"none", "running", "ok", "bad", "killed"}
Result1 == [of : Results, cpp : States]

OutcomeType ==
  /\ cpp \in [st : States, left : Int, buf : Int]
  /\ results \in Seq(Result1) /\ throwing \in Results
  /\ files \in Nat /\ file \in Nat \ {0} /\ file <= files + 1
  /\ errors_found \in BOOLEAN

\* How far a file has come tells how its cpp has ended, and what is thrown.
CppAt ==
  /\ at \in {"next", "parse"} => throwing = "none"
  /\ at \in {"mir", "validate", "lower"} => throwing = "none" /\ cpp.st = "ok"
  /\ at = "close" => throwing \in {"none", "parse"}
  /\ at = "drop" => throwing = "std"
  /\ at = "caught" /\ throwing \in {"none", "parse", "unable"} => cpp.st = "ok"

\* Files gone through or given up, and nothing else, precede the present one.
Passing(n) == \A i \in 1 .. n : results[i].of \in {"none", "unable"}

ResultsAt ==
  /\ (errors_found <=> Saw("unable"))
  /\ (exit = "none" \/ at \in {"exiting", "leaving", "done"})
  /\ at \in {"next", "parse", "close", "drop", "mir", "validate", "lower", "caught"}
       => /\ exit = "none" /\ Len(results) = file - 1 /\ Passing(file - 1)
          /\ files > 0 /\ (at # "next" => file <= files)
  /\ at = "resetting"
       => /\ exit = "none" /\ Len(results) = file /\ file <= files
          /\ Passing(file - 1)
          /\ results[file].of = throwing /\ throwing \in {"none", "unable", "std"}
  /\ at \in {"exiting", "leaving", "done"} => ExitCodeTells

OutcomeInv == OutcomeType /\ CppAt /\ ResultsAt /\ CppSucceeded

\* A step that leaves results and exit alone, and where the compiler stands.
LEMMA OutcomeStays ==
  ASSUME OutcomeInv, UNCHANGED << results, errors_found, exit, files, file >>,
         OutcomeType', CppAt',
         \/ at' = at /\ throwing' = throwing
         \/ /\ at \in {"parse", "close", "drop", "mir", "validate", "lower"}
            /\ at' \in {"close", "drop", "mir", "validate", "lower", "caught"}
         \/ /\ at = "next" /\ file <= files /\ at' \in {"parse", "caught"}
         \/ /\ at \in {"exiting", "leaving"} /\ at' \in {"leaving", "done"}
  PROVE  OutcomeInv'
<1>1. ResultsAt'
  BY DEF OutcomeInv, OutcomeType, ResultsAt, Passing, Saw, ExitCodeTells
<1>2. CppSucceeded'
  BY DEF OutcomeInv, CppSucceeded
<1> QED
  BY <1>1, <1>2 DEF OutcomeInv

LEMMA CppOutcome ==
  OutcomeInv /\ (Cpp \/ (CppFails /\ Beside)) => OutcomeInv'
<1> SUFFICES ASSUME OutcomeInv, Cpp \/ (CppFails /\ Beside) PROVE OutcomeInv'
  OBVIOUS
<1>1. /\ UNCHANGED << results, errors_found, exit, files, file, at, throwing >>
      /\ cpp.st = "running"
  BY DEF Cpp, Beside, CppWrites, CppKilled, CppExits, CppFails, outcome, config
<1>2. cpp' \in [st : States, left : Int, buf : Int]
  <2>1. /\ cpp \in [st : States, left : Int, buf : Int]
        /\ cpp.left \in Int /\ cpp.buf \in Int
    BY DEF OutcomeInv, OutcomeType
  <2>2. CASE CppWrites
    <3>1. cpp.left - 1 \in Int /\ cpp.buf + 1 \in Int
      BY <2>1
    <3>2. cpp' = [cpp EXCEPT !.left = cpp.left - 1, !.buf = cpp.buf + 1]
      BY <2>2 DEF CppWrites
    <3>3. cpp' = [st |-> cpp.st, left |-> cpp.left - 1, buf |-> cpp.buf + 1]
      BY <2>1, <3>2
    <3> QED
      BY <2>1, <3>1, <3>3
  <2>3. CASE CppKilled
    BY <2>1, <2>3 DEF CppKilled, States
  <2>4. CASE CppExits
    BY <2>1, <2>4 DEF CppExits, States
  <2>5. CASE CppFails
    BY <2>1, <2>5 DEF CppFails, States
  <2> QED
    BY <2>2, <2>3, <2>4, <2>5 DEF Cpp
<1>3. OutcomeType'
  BY <1>1, <1>2 DEF OutcomeInv, OutcomeType
<1>4. CppAt'
  BY <1>1 DEF OutcomeInv, CppAt
<1> QED
  BY <1>1, <1>3, <1>4, OutcomeStays

LEMMA FileOutcome ==
  OutcomeInv /\ (StartFile \/ Uses \/ Reads \/ Parsed \/ Closes \/ Reaps \/ Backend)
    => OutcomeInv'
<1> SUFFICES ASSUME OutcomeInv,
                    StartFile \/ Uses \/ Reads \/ Parsed \/ Closes \/ Reaps \/ Backend
             PROVE  OutcomeInv'
  OBVIOUS
<1>1. UNCHANGED << results, errors_found, exit, files, file >>
  BY DEF StartFile, Uses, Reads, Parsed, Closes, Reaps, Backend, outcome, config
<1>2. CASE StartFile
  <2>1. cpp' \in [st : States, left : Int, buf : Int] /\ throwing' \in Results
    BY <1>2, DriverAssumption
       DEF StartFile, NoCpp, States, Results, OutcomeInv, OutcomeType
  <2>2. OutcomeType'
    BY <1>1, <2>1 DEF OutcomeInv, OutcomeType
  <2>3. CppAt'
    BY <1>2 DEF StartFile, OutcomeInv, CppAt
  <2> QED
    BY <1>1, <1>2, <2>2, <2>3, OutcomeStays DEF StartFile
<1>3. CASE Uses \/ Reads \/ Closes
  <2>1. /\ at' = at /\ throwing' = throwing
        /\ cpp' \in [st : States, left : Int, buf : Int] /\ cpp'.st = cpp.st
    BY <1>3 DEF Uses, Reads, Closes, child, OutcomeInv, OutcomeType
  <2>2. OutcomeType'
    BY <1>1, <2>1 DEF OutcomeInv, OutcomeType
  <2>3. CppAt'
    BY <2>1 DEF OutcomeInv, CppAt
  <2> QED
    BY <1>1, <2>1, <2>2, <2>3, OutcomeStays
<1>4. CASE Parsed
  <2>1. /\ at = "parse" /\ cpp' = cpp
        /\ \/ at' = "close" /\ throwing' \in {"none", "parse"}
           \/ at' = "drop" /\ throwing' = "std"
    BY <1>4 DEF Parsed, Throw, Goes, child, OutcomeInv, CppAt
  <2>2. OutcomeType'
    BY <1>1, <2>1 DEF OutcomeInv, OutcomeType, Results
  <2>3. CppAt'
    BY <2>1 DEF CppAt
  <2> QED
    BY <1>1, <2>1, <2>2, <2>3, OutcomeStays
<1>5. CASE Reaps
  <2>1. /\ at \in {"close", "drop"} /\ cpp' = cpp
        /\ throwing' = AfterClose
        /\ at' = IF AfterClose = "none" THEN "mir" ELSE "caught"
    BY <1>5 DEF Reaps
  <2>2. /\ at = "close" => throwing \in {"none", "parse"}
        /\ at = "drop" => throwing = "std"
    BY DEF OutcomeInv, CppAt
  <2>3. /\ AfterClose \in Results
        /\ AfterClose \in {"none", "parse", "unable"} => cpp.st = "ok"
    BY <2>1, <2>2 DEF AfterClose, Failed, Results
  <2>4. OutcomeType'
    BY <1>1, <2>1, <2>3 DEF OutcomeInv, OutcomeType
  <2>5. CppAt'
    BY <2>1, <2>3 DEF CppAt
  <2> QED
    BY <1>1, <2>1, <2>4, <2>5, OutcomeStays
<1>6. CASE Backend
  <2>1. /\ at \in {"mir", "validate", "lower"} /\ cpp' = cpp
        /\ at' \in {"validate", "lower", "caught"}
        /\ \/ throwing' = throwing
           \/ at' = "caught" /\ throwing' \in {"unable", "ecc", "std"}
    BY <1>6 DEF Backend, Throw, Goes, Gate, After, child
  <2>2. throwing = "none" /\ cpp.st = "ok"
    BY <2>1 DEF OutcomeInv, CppAt
  <2>3. OutcomeType'
    BY <1>1, <2>1 DEF OutcomeInv, OutcomeType, Results
  <2>4. CppAt'
    BY <2>1, <2>2 DEF CppAt
  <2> QED
    BY <1>1, <2>1, <2>3, <2>4, OutcomeStays
<1> QED
  BY <1>2, <1>3, <1>4, <1>5, <1>6

\* The last file has something worth an exit at once, or none has.
LEMMA OneResult ==
  ASSUME OutcomeInv, at = "caught", Caught
  PROVE  /\ results' \in Seq(Result1) /\ Len(results') = file
         /\ file \in 1 .. files
         /\ results'[file].of = throwing /\ results'[file].cpp = cpp.st
         /\ \A i \in 1 .. file - 1 : results'[i] = results[i] /\ i \in DOMAIN results
         /\ DOMAIN results' = 1 .. file /\ DOMAIN results = 1 .. file - 1
<1> DEFINE r == [of |-> throwing, cpp |-> cpp.st]
<1>1. r \in Result1 /\ r.of = throwing /\ r.cpp = cpp.st
  BY DEF OutcomeInv, OutcomeType, Result1
<1>2. results' = Append(results, r)
  BY DEF Caught
<1> HIDE DEF r
<1>3. /\ results \in Seq(Result1) /\ Len(results) = file - 1
      /\ file \in Nat \ {0} /\ files \in Nat /\ file <= files
  BY DEF OutcomeInv, OutcomeType, ResultsAt
<1>4. Len(results) + 1 = file
  BY <1>3
<1> QED
  BY <1>1, <1>2, <1>3, <1>4, Appended

LEMMA CaughtOutcome == OutcomeInv /\ Caught => OutcomeInv'
<1> SUFFICES ASSUME OutcomeInv, Caught PROVE OutcomeInv'
  OBVIOUS
<1>1. /\ at = "caught" /\ throwing' = throwing /\ file' = file /\ files' = files
      /\ cpp' = cpp /\ exit = "none"
  BY DEF Caught, child, config, OutcomeInv, ResultsAt
<1>2. /\ results' \in Seq(Result1) /\ Len(results') = file /\ file \in 1 .. files
      /\ results'[file].of = throwing /\ results'[file].cpp = cpp.st
      /\ \A i \in 1 .. file - 1 : results'[i] = results[i] /\ i \in DOMAIN results
      /\ DOMAIN results' = 1 .. file /\ DOMAIN results = 1 .. file - 1
      /\ file \in Nat /\ files \in Nat
  BY <1>1, OneResult DEF OutcomeInv, OutcomeType
<1>3. /\ errors_found \in BOOLEAN
      /\ errors_found <=> \E i \in 1 .. file - 1 : results[i].of = "unable"
      /\ Passing(file - 1) /\ throwing \in Results
  BY <1>1, <1>2 DEF OutcomeInv, OutcomeType, ResultsAt, Saw
<1>4. \A i \in 1 .. file : i \in 1 .. file - 1 \/ i = file
  BY <1>2
<1>5. \A i \in 1 .. file - 1 : results'[i].of \in {"none", "unable"}
  BY <1>2, <1>3 DEF Passing
<1>6. CppSucceeded'
  BY <1>1, <1>2, <1>4 DEF OutcomeInv, CppSucceeded, CppAt
<1>7. CASE Catches
  <2>1. at' = "exiting" /\ exit' = "1" /\ errors_found' = errors_found
    BY <1>7 DEF Caught
  <2>2. throwing \in {"parse", "preproc", "ecc"}
    BY <1>7 DEF Catches
  <2>3. OutcomeType' /\ CppAt'
    BY <1>1, <1>2, <2>1 DEF OutcomeInv, OutcomeType, CppAt
  <2>4. ExitCodeTells'
    <3>1. \E i \in DOMAIN results' : results'[i].of \in Results \ {"none"}
      BY <1>2, <2>2 DEF Results
    <3>2. ~\E i \in DOMAIN results' : results'[i].of = "std"
      BY <1>2, <1>4, <1>5, <2>2
    <3>3. results'[Len(results')].of \notin {"none", "unable"} /\ Len(results') > 0
      BY <1>2, <2>2
    <3> QED
      <4>1. exit' # "0" /\ exit' # "69"
        BY <2>1
      <4>2. ~\A w \in Results \ {"none"} : ~Saw(w)'
        BY <3>1 DEF Saw
      <4>3. ~Saw("std")'
        BY <3>2 DEF Saw
      <4> QED
        BY <3>3, <4>1, <4>2, <4>3 DEF ExitCodeTells
  <2>5. errors_found' <=> Saw("unable")'
    BY <1>2, <1>3, <1>4, <2>1, <2>2 DEF Saw
  <2> QED
    BY <1>6, <2>1, <2>3, <2>4, <2>5 DEF OutcomeInv, ResultsAt
<1>8. CASE ~Catches
  <2>1. /\ at' = "resetting" /\ exit' = "none"
        /\ errors_found' = (errors_found \/ throwing = "unable")
    BY <1>1, <1>8 DEF Caught
  <2>2. throwing \in {"none", "unable", "std"}
    BY <1>3, <1>8 DEF Catches, Results
  <2>3. OutcomeType' /\ CppAt'
    BY <1>1, <1>2, <2>1 DEF OutcomeInv, OutcomeType, CppAt
  <2>4. errors_found' <=> Saw("unable")'
    <3>1. CASE throwing = "unable"
      <4>1. file \in DOMAIN results' /\ results'[file].of = "unable"
        BY <1>2, <3>1
      <4>2. errors_found'
        BY <2>1, <3>1, Zenon
      <4> QED
        BY <4>1, <4>2 DEF Saw
    <3>2. CASE throwing # "unable"
      <4>1. errors_found' <=> errors_found
        BY <1>3, <2>1, <3>2
      <4>2. results'[file].of # "unable"
        BY <1>2, <3>2
      <4> QED
        BY <1>2, <1>3, <1>4, <4>1, <4>2 DEF Saw
    <3> QED
      BY <3>1, <3>2
  <2>5. Passing(file - 1)'
    BY <1>1, <1>5 DEF Passing
  <2> QED
    BY <1>1, <1>2, <1>6, <2>1, <2>2, <2>3, <2>4, <2>5 DEF OutcomeInv, ResultsAt
<1> QED
  BY <1>7, <1>8

LEMMA EndOutcome ==
  OutcomeInv /\ (ResetEnds \/ AllFiles) => OutcomeInv'
<1> SUFFICES ASSUME OutcomeInv, ResetEnds \/ AllFiles PROVE OutcomeInv'
  OBVIOUS
<1>1. /\ UNCHANGED << results, errors_found, cpp, files >>
      /\ file \in Nat \ {0} /\ files \in Nat /\ file <= files + 1
      /\ results \in Seq(Result1) /\ DOMAIN results = 1 .. Len(results)
      /\ errors_found <=> Saw("unable")
  BY DEF ResetEnds, AllFiles, child, config, OutcomeInv, OutcomeType, ResultsAt
<1>2. CppSucceeded' /\ (errors_found' <=> Saw("unable")')
  BY <1>1 DEF OutcomeInv, CppSucceeded, Saw
<1>3. CASE AllFiles
  <2>1. /\ at = "next" /\ file > files /\ at' = "exiting" /\ file' = file
        /\ exit' = IF errors_found THEN "1" ELSE "0"
        /\ throwing' = throwing
    BY <1>3 DEF AllFiles
  <2>2. /\ Len(results) = files /\ Passing(files) /\ files > 0
    <3>1. Len(results) = file - 1 /\ Passing(file - 1) /\ files > 0
      BY <2>1 DEF OutcomeInv, ResultsAt
    <3>2. file - 1 = files
      BY <1>1, <2>1
    <3> QED
      BY <3>1, <3>2
  <2>3. OutcomeType' /\ CppAt'
    BY <1>1, <2>1 DEF OutcomeInv, OutcomeType, CppAt
  <2>4. ExitCodeTells'
    <3>1. \A i \in DOMAIN results : results[i].of \in {"none", "unable"}
      BY <1>1, <2>2 DEF Passing
    <3>2. (\A w \in Results \ {"none"} : ~Saw(w)) <=> ~errors_found
      BY <1>1, <3>1 DEF Saw, Results
    <3>3. ~Saw("std")
      BY <3>1 DEF Saw
    <3>4. errors_found \in BOOLEAN
      BY DEF OutcomeInv, OutcomeType
    <3>5. \A w : Saw(w)' <=> Saw(w)
      BY <1>1 DEF Saw
    <3> QED
      BY <1>1, <2>1, <2>2, <3>2, <3>3, <3>4, <3>5 DEF ExitCodeTells
  <2> QED
    BY <1>2, <2>1, <2>3, <2>4 DEF OutcomeInv, ResultsAt
<1>4. CASE ResetEnds
  <2>1. /\ at = "resetting" /\ exit = "none" /\ Len(results) = file
        /\ file <= files /\ Passing(file - 1)
        /\ results[file].of = throwing /\ throwing \in {"none", "unable", "std"}
    BY <1>4 DEF ResetEnds, OutcomeInv, ResultsAt
  <2>2. \A i \in 1 .. file : i \in 1 .. file - 1 \/ i = file
    BY <1>1
  <2>3. CASE throwing = "std"
    <3>1. at' = "exiting" /\ exit' = "69" /\ file' = file /\ throwing' = throwing
      BY <1>4, <2>3 DEF ResetEnds
    <3>2. OutcomeType' /\ CppAt'
      BY <1>1, <3>1 DEF OutcomeInv, OutcomeType, CppAt
    <3>3. /\ file \in DOMAIN results' /\ results'[file].of = "std"
          /\ Len(results') = file
      BY <1>1, <2>1, <2>3
    <3>4. ExitCodeTells'
      <4>1. Saw("std")' /\ "std" \in Results \ {"none"}
        BY <3>3 DEF Saw, Results
      <4>2. files' = files /\ Len(results') > 0
            /\ results'[Len(results')].of \notin {"none", "unable"}
        BY <1>1, <3>3
      <4> QED
        BY <3>1, <4>1, <4>2 DEF ExitCodeTells
    <3> QED
      BY <1>2, <3>1, <3>2, <3>4 DEF OutcomeInv, ResultsAt
  <2>4. CASE throwing # "std"
    <3>1. /\ at' = "next" /\ exit' = exit /\ file' = file + 1
          /\ throwing' = "none"
      BY <1>4, <2>4 DEF ResetEnds
    <3>2. file' - 1 = file /\ files' > 0 /\ file' \in Nat \ {0} /\ file' <= files' + 1
      BY <1>1, <2>1, <3>1
    <3>3. \A i \in 1 .. file : results'[i].of \in {"none", "unable"}
      BY <1>1, <2>1, <2>2, <2>4 DEF Passing
    <3>5. Passing(file - 1)'
      BY <3>2, <3>3 DEF Passing
    <3>4. OutcomeType' /\ CppAt'
      BY <1>1, <3>1, <3>2 DEF OutcomeInv, OutcomeType, CppAt, Results
    <3> QED
      BY <1>1, <1>2, <2>1, <3>1, <3>2, <3>4, <3>5 DEF OutcomeInv, ResultsAt
  <2> QED
    BY <2>3, <2>4
<1> QED
  BY <1>3, <1>4

LEMMA OutcomeStep == OutcomeInv /\ [Next]_vars => OutcomeInv'
<1> SUFFICES ASSUME OutcomeInv, [Next]_vars PROVE OutcomeInv'
  OBVIOUS
<1>1. CASE Walk \/ Finished \/ UNCHANGED vars
  <2>1. UNCHANGED << results, errors_found, exit, files, file, at, throwing, cpp >>
    BY <1>1 DEF Walk, Finished, vars, outcome, config, child
  <2>2. OutcomeType' /\ CppAt'
    BY <2>1 DEF OutcomeInv, OutcomeType, CppAt
  <2> QED
    BY <2>1, <2>2, OutcomeStays
<1>2. CASE Leaves \/ Exits
  <2>1. /\ UNCHANGED << results, errors_found, exit, files, file, throwing, cpp >>
        /\ at \in {"exiting", "leaving"} /\ at' \in {"leaving", "done"}
    BY <1>2 DEF Leaves, Exits, outcome, config, child
  <2>2. OutcomeType' /\ CppAt'
    BY <2>1 DEF OutcomeInv, OutcomeType, CppAt
  <2> QED
    BY <2>1, <2>2, OutcomeStays
<1> QED
  BY <1>1, <1>2, CppOutcome, FileOutcome, CaughtOutcome, EndOutcome
     DEF Next, Compiler

LEMMA OutcomeInvariant == Spec => []OutcomeInv
<1>1. Init => OutcomeInv
  <2> SUFFICES ASSUME Init PROVE OutcomeInv
    OBVIOUS
  <2>1. /\ files \in Nat /\ file = 1 /\ throwing = "none" /\ errors_found = FALSE
        /\ results = << >> /\ cpp = NoCpp
        /\ IF files = 0 THEN at = "exiting" /\ exit = "1"
                        ELSE at = "next" /\ exit = "none"
    BY DriverAssumption DEF Init
  <2>2. results \in Seq(Result1) /\ Len(results) = 0 /\ DOMAIN results = {}
    BY <2>1
  <2>3. CppAt /\ CppSucceeded
    BY <2>1, <2>2 DEF CppAt, CppSucceeded
  <2>5. OutcomeType
    <3>1. cpp \in [st : States, left : Int, buf : Int]
      BY <2>1 DEF NoCpp, States
    <3>2. throwing \in Results /\ errors_found \in BOOLEAN
      BY <2>1 DEF Results
    <3>3. file \in Nat \ {0} /\ file <= files + 1
      BY <2>1
    <3> QED
      BY <2>1, <2>2, <3>1, <3>2, <3>3 DEF OutcomeType
  <2>4. ResultsAt
    <3>1. \A w : ~Saw(w)
      BY <2>2 DEF Saw
    <3>2. CASE files = 0
      BY <2>1, <2>2, <3>1, <3>2 DEF ResultsAt, ExitCodeTells
    <3>3. CASE files # 0
      <4>1. files > 0 /\ Len(results) = file - 1 /\ Passing(file - 1)
        BY <2>1, <2>2, <3>3 DEF Passing
      <4> QED
        BY <2>1, <3>1, <3>3, <4>1 DEF ResultsAt
    <3> QED
      BY <3>2, <3>3
  <2> QED
    BY <2>3, <2>4, <2>5 DEF OutcomeInv
<1> QED
  BY <1>1, OutcomeStep, PTL DEF Spec

\* Nothing of a file is compiled or reported as a syntax error unless its cpp
\* has succeeded (frontend.cpp:28-38).
THEOREM Reported == Spec => []CppSucceeded
<1>1. OutcomeInv => CppSucceeded
  BY DEF OutcomeInv
<1> QED
  BY <1>1, OutcomeInvariant, PTL

\* The exit status tells what became of the files, though it is decided in
\* three places: on the way out of a handler, after a reset, and at the end.
THEOREM ExitStatus == Spec => []ExitCodeTells
<1>1. OutcomeInv => ExitCodeTells
  <2> SUFFICES ASSUME OutcomeInv PROVE ExitCodeTells
    OBVIOUS
  <2>1. CASE exit = "none"
    BY <2>1 DEF ExitCodeTells
  <2>2. CASE exit # "none"
    BY <2>2 DEF OutcomeInv, ResultsAt
  <2> QED
    BY <2>1, <2>2
<1> QED
  BY <1>1, OutcomeInvariant, PTL

(***************************************************************************)
(* The children are waited for                                             *)
(***************************************************************************)

Reaped(i) == \E n \in DOMAIN reaped : reaped[n] = i

\* Files are waited for in their order, that of the file being compiled when
\* the compiler has passed the closing of its pipe.
ReapInv ==
  /\ reaped \in Seq(Nat)
  /\ \A m, n \in DOMAIN reaped : m < n => reaped[m] < reaped[n]
  /\ \A n \in DOMAIN reaped : reaped[n] <= file
  /\ at \in {"next", "parse", "close", "drop"} => ~Reaped(file)
  /\ at \in {"parse", "close", "drop"} => cpp.st # "none"
  /\ at \in {"mir", "validate", "lower", "caught"} => (Reaped(file) <=> cpp.st # "none")
  /\ \A i \in DOMAIN results : Reaped(i) <=> results[i].cpp # "none"

\* A step that waits for nobody and ends no file.
LEMMA ReapStays ==
  ASSUME ReapInv, UNCHANGED << reaped, results, file >>,
         cpp'.st # "none" <=> cpp.st # "none",
         \/ at' = at
         \/ /\ at \in {"parse", "close", "drop"}
            /\ at' \in {"parse", "close", "drop"}
         \/ /\ at \in {"mir", "validate", "lower", "caught"}
            /\ at' \in {"mir", "validate", "lower", "caught"}
         \/ at' \in {"resetting", "exiting", "leaving", "done"}
  PROVE  ReapInv'
<1>1. \A i : Reaped(i)' <=> Reaped(i)
  BY DEF Reaped
<1> QED
  BY <1>1 DEF ReapInv

LEMMA ReapsOne == OutcomeInv /\ ReapInv /\ Reaps => ReapInv'
<1> SUFFICES ASSUME OutcomeInv, ReapInv, Reaps PROVE ReapInv'
  OBVIOUS
<1>1. /\ at \in {"close", "drop"} /\ at' \in {"mir", "caught"}
      /\ reaped' = Append(reaped, file)
      /\ UNCHANGED << cpp, results, file >>
  BY DEF Reaps, outcome
<1>2. /\ ~Reaped(file) /\ cpp.st # "none" /\ file \in Nat
      /\ Len(results) = file - 1 /\ DOMAIN results = 1 .. Len(results)
  BY <1>1 DEF ReapInv, OutcomeInv, OutcomeType, ResultsAt
<1>3. /\ reaped' \in Seq(Nat) /\ Len(reaped') = Len(reaped) + 1
      /\ \A n \in 1 .. Len(reaped) : reaped'[n] = reaped[n]
      /\ reaped'[Len(reaped) + 1] = file
      /\ DOMAIN reaped = 1 .. Len(reaped) /\ DOMAIN reaped' = 1 .. Len(reaped) + 1
      /\ Len(reaped) \in Nat
  <2>1. reaped \in Seq(Nat)
    BY DEF ReapInv
  <2> QED
    BY <1>1, <1>2, <2>1, AppendProperties, LenProperties
<1>4. \A i : Reaped(i)' <=> Reaped(i) \/ i = file
  BY <1>3 DEF Reaped
<1>5. \A n \in 1 .. Len(reaped) : reaped[n] \in Nat /\ reaped[n] < file
  BY <1>2, <1>3 DEF ReapInv, Reaped
<1>6. \A m, n \in DOMAIN reaped' : m < n => reaped'[m] < reaped'[n]
  <2> SUFFICES ASSUME NEW m \in DOMAIN reaped', NEW n \in DOMAIN reaped', m < n
               PROVE  reaped'[m] < reaped'[n]
    OBVIOUS
  <2>1. m \in 1 .. Len(reaped) /\ reaped'[m] = reaped[m]
    BY <1>3
  <2>2. CASE n \in 1 .. Len(reaped)
    BY <1>3, <2>1, <2>2 DEF ReapInv
  <2>3. CASE n = Len(reaped) + 1
    BY <1>3, <1>5, <2>1, <2>3
  <2> QED
    BY <1>3, <2>2, <2>3
<1>7. \A n \in DOMAIN reaped' : reaped'[n] <= file'
  BY <1>1, <1>2, <1>3, <1>5
<1>8. \A i \in DOMAIN results' : Reaped(i)' <=> results'[i].cpp # "none"
  BY <1>1, <1>2, <1>4 DEF ReapInv
<1> QED
  BY <1>1, <1>2, <1>3, <1>4, <1>6, <1>7, <1>8 DEF ReapInv

LEMMA ReapCaught == OutcomeInv /\ ReapInv /\ Caught => ReapInv'
<1> SUFFICES ASSUME OutcomeInv, ReapInv, Caught PROVE ReapInv'
  OBVIOUS
<1>1. /\ at = "caught" /\ UNCHANGED << reaped, file >>
      /\ at' \in {"exiting", "resetting"}
  BY DEF Caught, child
<1>2. /\ results'[file].cpp = cpp.st
      /\ \A i \in 1 .. file - 1 : results'[i] = results[i] /\ i \in DOMAIN results
      /\ DOMAIN results' = 1 .. file /\ file \in Nat
  BY <1>1, OneResult DEF OutcomeInv, OutcomeType
<1>3. \A i \in 1 .. file : i \in 1 .. file - 1 \/ i = file
  BY <1>2
<1>4. \A i : Reaped(i)' <=> Reaped(i)
  BY <1>1 DEF Reaped
<1>5. \A i \in DOMAIN results' : Reaped(i)' <=> results'[i].cpp # "none"
  BY <1>1, <1>2, <1>3, <1>4 DEF ReapInv
<1> QED
  BY <1>1, <1>4, <1>5 DEF ReapInv

LEMMA ReapStep == OutcomeInv /\ ReapInv /\ [Next]_vars => ReapInv'
<1> SUFFICES ASSUME OutcomeInv, ReapInv, [Next]_vars PROVE ReapInv'
  OBVIOUS
<1>1. CASE StartFile
  <2>1. /\ at = "next" /\ UNCHANGED << reaped, results, file >>
        /\ \/ at' = "parse" /\ cpp'.st = "running"
           \/ at' = "caught" /\ cpp'.st = "none"
    BY <1>1 DEF StartFile, NoCpp, outcome
  <2>2. \A i : Reaped(i)' <=> Reaped(i)
    BY <2>1 DEF Reaped
  <2> QED
    BY <2>1, <2>2 DEF ReapInv
<1>2. CASE Uses \/ Closes \/ Walk \/ Finished \/ UNCHANGED vars
  <2>1. UNCHANGED << reaped, results, file, cpp, at >>
    BY <1>2 DEF Uses, Closes, Walk, Finished, vars, child, outcome
  <2> QED
    BY <2>1, ReapStays
<1>3. CASE Reads \/ Cpp \/ (CppFails /\ Beside)
  <2>1. UNCHANGED << reaped, results, file, at >>
    BY <1>3 DEF Reads, Cpp, Beside, outcome
  <2>2. cpp'.st # "none" <=> cpp.st # "none"
    BY <1>3 DEF Reads, Cpp, CppWrites, CppKilled, CppExits, CppFails,
                OutcomeInv, OutcomeType
  <2> QED
    BY <2>1, <2>2, ReapStays
<1>4. CASE Parsed
  <2>1. /\ at = "parse" /\ at' \in {"close", "drop"}
        /\ UNCHANGED << reaped, results, file, cpp >>
    BY <1>4 DEF Parsed, Goes, Throw, child, outcome
  <2> QED
    BY <2>1, ReapStays
<1>5. CASE Backend
  <2>1. /\ at \in {"mir", "validate", "lower"}
        /\ at' \in {"validate", "lower", "caught"}
        /\ UNCHANGED << reaped, results, file, cpp >>
    BY <1>5 DEF Backend, Goes, Throw, Gate, After, child, outcome
  <2> QED
    BY <2>1, ReapStays
<1>6. CASE Leaves \/ Exits \/ AllFiles
  <2>1. /\ at' \in {"leaving", "done", "exiting"}
        /\ UNCHANGED << reaped, results, file, cpp >>
    BY <1>6 DEF Leaves, Exits, AllFiles, child, outcome
  <2> QED
    BY <2>1, ReapStays
<1>7. CASE ResetEnds
  <2>1. CASE at' = "exiting" /\ file' = file
    <3>1. UNCHANGED << reaped, results, cpp >>
      BY <1>7 DEF ResetEnds, child
    <3> QED
      BY <2>1, <3>1, ReapStays
  <2>2. CASE at' = "next" /\ file' = file + 1
    <3>1. UNCHANGED << reaped, results >> /\ file \in Nat
      BY <1>7 DEF ResetEnds, child, OutcomeInv, OutcomeType
    <3>2. \A n \in DOMAIN reaped : reaped[n] \in Nat /\ reaped[n] < file'
      BY <2>2, <3>1 DEF ReapInv
    <3>3. \A i : Reaped(i)' <=> Reaped(i)
      BY <3>1 DEF Reaped
    <3>4. ~Reaped(file')
      BY <2>2, <3>1, <3>2 DEF Reaped
    <3>5. ~Reaped(file)'
      BY <3>1, <3>4 DEF Reaped
    <3>6. \A n \in DOMAIN reaped' : reaped'[n] <= file'
      BY <2>2, <3>1, <3>2
    <3> QED
      BY <2>2, <3>1, <3>3, <3>5, <3>6 DEF ReapInv
  <2> QED
    BY <1>7, <2>1, <2>2 DEF ResetEnds
<1> QED
  BY <1>1, <1>2, <1>3, <1>4, <1>5, <1>6, <1>7, ReapsOne, ReapCaught
     DEF Next, Compiler

LEMMA ReapInvariant == Spec => []ReapInv
<1>1. Init => ReapInv
  <2> SUFFICES ASSUME Init PROVE ReapInv
    OBVIOUS
  <2>1. /\ reaped = << >> /\ results = << >> /\ file = 1
        /\ at \in {"exiting", "next"}
    BY DEF Init
  <2>2. reaped \in Seq(Nat) /\ DOMAIN reaped = {} /\ DOMAIN results = {}
    BY <2>1
  <2> QED
    BY <2>1, <2>2 DEF ReapInv, Reaped
<1> QED
  BY <1>1, ReapStep, OutcomeInvariant, PTL DEF Spec

\* Whichever of close() and the destructor of the Preprocessor gets to it, the
\* cpp of a file that is done with has been waited for exactly once, if there
\* was one: no zombie is left and no pid is waited for twice.
THEOREM ChildrenReaped == Spec => []ReapedOnce
<1>1. ReapInv => ReapedOnce
  <2> SUFFICES ASSUME ReapInv, NEW i \in DOMAIN results
               PROVE  Cardinality({n \in DOMAIN reaped : reaped[n] = i})
                        = IF results[i].cpp = "none" THEN 0 ELSE 1
    BY DEF ReapedOnce
  <2> DEFINE waits == {n \in DOMAIN reaped : reaped[n] = i}
  <2>1. CASE results[i].cpp = "none"
    <3>1. waits = {}
      BY <2>1 DEF ReapInv, Reaped
    <3> QED
      BY <2>1, <3>1, FS_EmptySet
  <2>2. CASE results[i].cpp # "none"
    <3>1. PICK n \in DOMAIN reaped : reaped[n] = i
      BY <2>2 DEF ReapInv, Reaped
    <3>2. \A m \in DOMAIN reaped : reaped[m] = i => m = n
      <4>1. /\ DOMAIN reaped \subseteq Nat
            /\ \A m \in DOMAIN reaped : reaped[m] \in Nat
        BY DEF ReapInv
      <4> QED
        BY <3>1, <4>1 DEF ReapInv
    <3>3. waits = {n}
      BY <3>1, <3>2
    <3> QED
      BY <2>2, <3>3, FS_Singleton
  <2> QED
    BY <2>1, <2>2
<1> QED
  BY <1>1, ReapInvariant, PTL

(***************************************************************************)
(* Types, and what one file leaves to the next                             *)
(***************************************************************************)

Bounds ==
  /\ files \in 0 .. MaxFiles /\ exit \in {"none", "0", "1", "69"}
  /\ ops \in 0 .. MaxOps
  /\ cpp.left \in 0 .. MaxOutput /\ cpp.buf \in 0 .. PipeSize

LEMMA BoundsStep ==
  Bounds /\ OutcomeInv /\ [Next]_vars => Bounds'
<1> SUFFICES ASSUME Bounds, OutcomeInv, [Next]_vars PROVE Bounds'
  OBVIOUS
<1>1. /\ cpp \in [st : States, left : Int, buf : Int]
      /\ MaxOutput \in Nat /\ PipeSize \in Nat \ {0} /\ MaxOps \in Nat /\ MaxFiles \in Nat
  BY DriverAssumption DEF OutcomeInv, OutcomeType
<1>2. files' = files
  BY DEF Next, Compiler, StartFile, Uses, Reads, Parsed, Closes, Reaps, Backend,
         Caught, Walk, ResetEnds, AllFiles, Leaves, Exits, Cpp, Beside,
         Finished, vars, config
<1>3. exit' \in {"none", "0", "1", "69"}
  BY DEF Bounds, Next, Compiler, StartFile, Uses, Reads, Parsed, Closes, Reaps,
         Backend, Caught, Walk, ResetEnds, AllFiles, Leaves, Exits, Cpp, Beside,
         Finished, vars, outcome
<1>4. ops' \in 0 .. MaxOps
  <2>1. CASE Uses
    <3>1. ops' = ops \/ (ops < MaxOps /\ ops' = ops + 1)
      BY <2>1 DEF Uses
    <3> QED
      BY <1>1, <3>1 DEF Bounds
  <2>2. CASE ~Uses
    <3>1. ops' = ops \/ ops' = 0
      BY <2>2 DEF Next, Compiler, StartFile, Reads, Parsed, Closes, Reaps,
           Backend, Caught, Walk, ResetEnds, AllFiles, Leaves, Exits, Cpp,
           Beside, Finished, vars
    <3> QED
      BY <1>1, <3>1 DEF Bounds
  <2> QED
    BY <2>1, <2>2
<1>5. cpp'.left \in 0 .. MaxOutput /\ cpp'.buf \in 0 .. PipeSize
  <2>1. CASE StartFile
    BY <1>1, <2>1 DEF StartFile, NoCpp
  <2>2. CASE CppWrites
    BY <1>1, <2>2 DEF CppWrites, Bounds
  <2>3. CASE Reads
    BY <1>1, <2>3 DEF Reads, Bounds
  <2>4. CASE CppKilled \/ CppExits \/ CppFails
    BY <1>1, <2>4 DEF CppKilled, CppExits, CppFails, Bounds
  <2>5. CASE cpp' = cpp
    BY <2>5 DEF Bounds
  <2>6. StartFile \/ CppWrites \/ Reads \/ CppKilled \/ CppExits \/ CppFails \/ cpp' = cpp
    BY DEF Next, Compiler, Uses, Parsed, Closes, Reaps, Backend, Caught, Walk,
           ResetEnds, AllFiles, Leaves, Exits, Cpp, Beside, Finished, vars, child
  <2> QED
    BY <2>1, <2>2, <2>3, <2>4, <2>5, <2>6
<1> QED
  BY <1>2, <1>3, <1>4, <1>5 DEF Bounds

LEMMA DriverTypes == Spec => []TypeOK
<1>1. Init => Bounds
  BY DriverAssumption DEF Init, Bounds, NoCpp
<1>2. ArenaTypeOK /\ FileInv /\ OutcomeInv /\ Bounds => TypeOK
  <2> SUFFICES ASSUME ArenaTypeOK, FileInv, OutcomeInv, Bounds PROVE TypeOK
    OBVIOUS
  <2>1. pool \in SUBSET Nat
    BY DEF ArenaTypeOK, FileInv, InternedLive
  <2>2. file \in 1 .. files + 1 /\ throwing \in Results
    BY DEF OutcomeInv, OutcomeType
  <2> QED
    BY <2>1, <2>2 DEF Bounds, TypeOK
<1> QED
  BY <1>1, <1>2, BoundsStep, Refinement, TypeCorrect, FileInvariant,
     OutcomeInvariant, PTL DEF Spec

\* Whatever becomes of a file, its interned strings are live as long as they
\* can be found, and the next file finds nothing of it.
THEOREM FilesApart == Spec => []FilesIndependent
<1>1. FileInv => InternedLive /\ NothingKept
  BY DEF FileInv, ArenaAt, NothingLeft, InternedLive, NothingKept
<1> QED
  BY <1>1, FileInvariant, DriverTypes, PTL DEF FilesIndependent
=============================================================================
