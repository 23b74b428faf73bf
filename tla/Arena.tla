------------------------------- MODULE Arena -------------------------------
(***************************************************************************)
(* The bump-pointer arena of include/allocator/alloc.hpp: memory is handed  *)
(* out from the last of a growing list of slabs, objects with a destructor  *)
(* are linked into a list of cleanups, and a reset walks the list and keeps *)
(* the first slab.  blocks, complete, destroyed, parts and born are history *)
(* variables: what has been handed out and constructed since the last reset.*)
(* Offsets stand for addresses: every slab starts at a multiple of MaxAlign.*)
(***************************************************************************)
EXTENDS Naturals, Sequences, FiniteSets

CONSTANTS SlabSize, GrowthDelay, SizeThreshold, MinAlign,
          SlabSaturate,   \* the slab size doubles at most that often
          RecordSize, RecordAlign,  \* of a Cleanup
          Sizes, Aligns   \* what the program asks for

ASSUME ArenaAssumption ==
  /\ SlabSize \in Nat \ {0} /\ GrowthDelay \in Nat \ {0}
  /\ SizeThreshold \in 0 .. SlabSize
  /\ MinAlign \in Nat \ {0} /\ SlabSaturate \in Nat
  /\ RecordSize \in Nat \ {0} /\ RecordAlign \in Nat \ {0}
  /\ Sizes \subseteq Nat \ {0} /\ Aligns \subseteq Nat \ {0}
  /\ \A k \in 0 .. SlabSaturate : 2^k \in Nat \ {0}

VARIABLES slabs,      \* the sizes of the slabs, the current one last
          custom,     \* the sizes of the custom slabs
          cur,        \* the start of the free space of the current slab
          cleanups,   \* the cleanup list, newest first
          making,     \* the objects under construction, innermost last
          phase,      \* "open", walking the cleanups ("reset", "exit"), "gone"
          blocks, complete, destroyed, parts, born

memory  == << slabs, custom, cur, blocks >>
objects == << cleanups, making, complete, destroyed, parts, born >>
avars   == << memory, objects, phase >>

AInit ==
  /\ slabs = << >> /\ custom = << >> /\ cur = 0 /\ blocks = << >>
  /\ cleanups = << >> /\ making = << >> /\ phase = "open"
  /\ complete = {} /\ destroyed = << >> /\ parts = {} /\ born = 0

-----------------------------------------------------------------------------
Larger(a, b) == IF a < b THEN b ELSE a

AlignTo(size, alignment) == ((size + alignment - 1) \div alignment) * alignment

Doublings ==
  LET n == Len(slabs) \div GrowthDelay
  IN  IF n < SlabSaturate THEN n ELSE SlabSaturate

ComputeSlabSize == SlabSize * 2^Doublings

Block(kind, slab, at, n, align) ==
  [kind |-> kind, slab |-> slab, at |-> at, size |-> n, align |-> align]

\* A slab of its own, which starts at the largest alignment.
AllocateCustom(n, align) ==
  /\ custom' = Append(custom, n)
  /\ blocks' = Append(blocks, Block("custom", Len(custom) + 1, 0, n, align))
  /\ UNCHANGED << slabs, cur >>

Result(align) == AlignTo(cur, Larger(align, MinAlign))

\* A mutation: the room looked at before the alignment.
FitsUnaligned(n, align) == slabs # << >> /\ cur + n <= slabs[Len(slabs)]

Fits(n, align) ==
  slabs # << >> /\ Result(align) + n <= slabs[Len(slabs)]

Bump(n, align) ==
  /\ cur' = Result(align) + n
  /\ blocks' = Append(blocks, Block("slab", Len(slabs), Result(align), n, align))
  /\ UNCHANGED << slabs, custom >>

Grow(n, align) ==
  /\ slabs' = Append(slabs, ComputeSlabSize)
  /\ cur' = n
  /\ blocks' = Append(blocks, Block("slab", Len(slabs) + 1, 0, n, align))
  /\ UNCHANGED custom

Allocate(n, align) ==
  \/ n > SizeThreshold /\ AllocateCustom(n, align)
  \/ n <= SizeThreshold /\ Fits(n, align) /\ Bump(n, align)
  \/ n <= SizeThreshold /\ ~Fits(n, align) /\ Grow(n, align)

-----------------------------------------------------------------------------
(* What the program does with the arena.  *)

\* Memory for a string or the elements of a vector.
AllocateBytes(n, align) ==
  phase = "open" /\ Allocate(n, align) /\ UNCHANGED << objects, phase >>

\* create: the memory first, then the constructor runs and may create more.
StartCreate(n, align, destructible) ==
  /\ phase = "open"
  /\ Allocate(n, align)
  /\ born' = born + 1
  /\ making' = Append(making, [id |-> born + 1, dtor |-> destructible])
  /\ UNCHANGED << cleanups, complete, destroyed, parts, phase >>

Innermost == making[Len(making)]
Others == SubSeq(making, 1, Len(making) - 1)

\* A mutation: linked at the end of the list.
FinishCreateAtEnd ==
  /\ phase = "open" /\ making # << >>
  /\ making' = Others
  /\ IF Innermost.dtor
     THEN /\ Allocate(RecordSize, RecordAlign)
          /\ cleanups' = Append(cleanups, Innermost.id)
          /\ complete' = complete \cup {Innermost.id}
          /\ parts' = parts \cup { << Others[i].id, Innermost.id >> :
                                     i \in DOMAIN Others }
     ELSE UNCHANGED << memory, cleanups, complete, parts >>
  /\ UNCHANGED << destroyed, born, phase >>

\* The constructor has returned: an object that has to be destroyed is linked.
FinishCreate ==
  /\ phase = "open" /\ making # << >>
  /\ making' = Others
  /\ IF Innermost.dtor
     THEN /\ Allocate(RecordSize, RecordAlign)
          /\ cleanups' = << Innermost.id >> \o cleanups
          /\ complete' = complete \cup {Innermost.id}
          /\ parts' = parts \cup { << Others[i].id, Innermost.id >> :
                                     i \in DOMAIN Others }
     ELSE UNCHANGED << memory, cleanups, complete, parts >>
  /\ UNCHANGED << destroyed, born, phase >>

\* A constructor throws, and so do those it is called from until one catches.
Unwind(n) ==
  /\ phase = "open"
  /\ making' = SubSeq(making, 1, n)
  /\ UNCHANGED << memory, cleanups, complete, destroyed, parts, born, phase >>

\* reset or the arena's destructor: no constructor is running then.
StartWalk(why) ==
  /\ phase = "open" /\ making = << >>
  /\ phase' = why
  /\ UNCHANGED << memory, objects >>

Destroy ==
  /\ phase \in {"reset", "exit"} /\ cleanups # << >>
  /\ destroyed' = Append(destroyed, Head(cleanups))
  /\ cleanups' = Tail(cleanups)
  /\ UNCHANGED << memory, making, complete, parts, born, phase >>

\* The first slab stays, with the size it has.
Kept == IF slabs = << >> THEN << >> ELSE << slabs[1] >>

Release ==
  /\ phase \in {"reset", "exit"} /\ cleanups = << >>
  /\ phase' = IF phase = "reset" THEN "open" ELSE "gone"
  /\ slabs' = IF phase = "reset" THEN Kept ELSE << >>
  /\ custom' = << >> /\ cur' = 0 /\ blocks' = << >>
  /\ complete' = {} /\ destroyed' = << >> /\ parts' = {} /\ born' = 0
  /\ UNCHANGED << cleanups, making >>

ANext ==
  \/ \E n \in Sizes, align \in Aligns :
       AllocateBytes(n, align) \/ \E d \in BOOLEAN : StartCreate(n, align, d)
  \/ FinishCreate
  \/ \E n \in 0 .. Len(making) : Unwind(n)
  \/ \E why \in {"reset", "exit"} : StartWalk(why)
  \/ Destroy \/ Release

ASpec == AInit /\ [][ANext]_avars

-----------------------------------------------------------------------------
BlockType ==
  [kind : {"slab", "custom"}, slab : Nat \ {0}, at : Nat, size : Nat \ {0}, align : Nat \ {0}]

\* The arena's state keeps its types.
ArenaTypeOK ==
  /\ slabs \in Seq(Nat \ {0}) /\ custom \in Seq(Nat \ {0}) /\ cur \in Nat
  /\ blocks \in Seq(BlockType)
  /\ cleanups \in Seq(Nat) /\ making \in Seq([id : Nat, dtor : BOOLEAN])
  /\ phase \in {"open", "reset", "exit", "gone"}
  /\ complete \in SUBSET Nat /\ destroyed \in Seq(Nat)
  /\ parts \in SUBSET (Nat \X Nat) /\ born \in Nat

SizeOf(b) == IF b.kind = "custom" THEN custom[b.slab] ELSE slabs[b.slab]

\* allocate, allocate_custom, grow and reset (alloc.hpp:208-332): every block
\* handed out since the last reset lies in a slab that still exists, at an
\* offset of its alignment, and apart from every other block, however slabs
\* fill, grow and are kept.
BlocksApart ==
  /\ \A i \in DOMAIN blocks :
       LET b == blocks[i]
       IN  /\ b.slab <= IF b.kind = "custom" THEN Len(custom) ELSE Len(slabs)
           /\ b.at + b.size <= SizeOf(b)
           /\ \E q \in 0 .. b.at : b.at = q * Larger(b.align, MinAlign)
  /\ \A i, j \in DOMAIN blocks :
       LET b == blocks[i]
           c == blocks[j]
       IN  i # j /\ b.kind = c.kind /\ b.slab = c.slab =>
             b.at + b.size <= c.at \/ c.at + c.size <= b.at

\* Elements of a sequence; everything linked, as it has been and will be
\* destroyed.
Elements(s) == { s[i] : i \in DOMAIN s }
All == destroyed \o cleanups

\* create, reset and ~BumpAllocator (alloc.hpp:165-202, 244-254): whatever
\* constructors nest and throw, the objects linked for cleanup are exactly
\* those that were completed, each once; none is left when memory is given
\* back; and an object's destructor runs before those of the objects made
\* while it was constructed, which it may still use.
CleanupsSound ==
  /\ Elements(All) = complete
  /\ \A i, j \in DOMAIN All : i # j => All[i] # All[j]
  /\ \A p \in parts :
       p[1] \in complete /\ p[2] \in Elements(destroyed)
         => p[1] \in Elements(destroyed)
=============================================================================
