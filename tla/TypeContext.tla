----------------------------- MODULE TypeContext -----------------------------
(***************************************************************************)
(* The types that live while a program is read and then checked: classes as *)
(* their members are declared, and arrays without a size, which live only   *)
(* while something counts on them.                                          *)
(*                                                                         *)
(* The MIRSynthesizer reads declarations in the order of the program        *)
(* (phase "reading"); an initializer is visited with the type of what it    *)
(* initializes and tells back the size of an array that has none.  Then the *)
(* Validator looks at every variable once (phase "checking").  An error     *)
(* ends the compilation (phase "stopped"); a read behind the members of a   *)
(* class leaves it undefined (phase "undefined").                           *)
(***************************************************************************)
EXTENDS Types, FiniteSets

CONSTANTS Bases,        \* types named in declarations
          Declarators,  \* what a declarator puts around them, outermost first
          MemberTypes,  \* declarators of members
          Anonymous,    \* those of members that may go without a name
          MaxDecls,     \* records, members, and variables ...
          VarWeight,    \* ... which count this many times
          MaxElements,  \* elements of an initializer list
          LiteralSize   \* of the string literals, with their last 0

ASSUME TypeContextAssumption ==
  /\ Anonymous \subseteq MemberTypes
  /\ MaxDecls \in Nat /\ VarWeight \in Nat /\ MaxElements \in Nat /\ LiteralSize \in Nat \ {0}

VARIABLES arrays,    \* the arrays that live and their reference counts
          pointers,  \* the pointers; these are never released
          open,      \* the records being defined, innermost last
          symbols,   \* the variables, parameters and members in their order
          frames,    \* the initializer lists being visited, innermost last
          phase

tvars == << records, arrays, pointers, open, symbols, frames, phase >>

Init ==
  /\ records = [r \in Records |-> Nothing]
  /\ arrays = << >> /\ pointers = {}
  /\ open = << >> /\ symbols = << >> /\ frames = << >>
  /\ phase = "reading"

Stop == phase' = "stopped" /\ UNCHANGED << records, arrays, pointers, open,
                                            symbols, frames >>

-----------------------------------------------------------------------------
(* Reference counts.                                                       *)

GetArrayOnce(live, t) ==
  IF t \in DOMAIN live THEN live
  ELSE [x \in DOMAIN live \cup {t} |-> IF x = t THEN 1 ELSE live[x]]

GetArray(live, t) ==
  IF t \in DOMAIN live THEN [live EXCEPT ![t] = @ + 1]
  ELSE [x \in DOMAIN live \cup {t} |-> IF x = t THEN 1 ELSE live[x]]

\* When the base is an unsized array too, the recursion looks up the array
\* that is being released, and not its base: that one keeps its count.
DeallocateUnsized(live, base) ==
  LET t == Unsized(base)
  IN  IF t \notin DOMAIN live THEN live
      ELSE IF live[t] = 1 THEN [x \in DOMAIN live \ {t} |-> live[x]]
      ELSE [live EXCEPT ![t] = @ - 1]

SetArraySize(live, base, n) ==
  IF Array(base, n) \in DOMAIN live THEN GetArray(live, Array(base, n))
  ELSE GetArray(DeallocateUnsized(live, base), Array(base, n))

DecayArray(live, t) ==
  IF t.n = 0 THEN DeallocateUnsized(live, Base(t)) ELSE live

\* The arrays, and the pointers, that a type is built from.
RECURSIVE Parts(_)
Parts(t) == {t} \cup UNION { Parts(t.of[i]) : i \in DOMAIN t.of }

\* What a TypeBuilder adds to the type so far: a pointer or an array.
Wrap(b, d) ==
  CASE d.c = "array" ->
         [b EXCEPT !.ty = Array(b.ty, d.n),
                   !.arrays = GetArray(@, Array(b.ty, d.n))]
    [] d.c = "pointer" ->
         [b EXCEPT !.ty = IF d.n = 1 THEN Const(Pointer(b.ty)) ELSE Pointer(b.ty),
                   !.pointers = @ \cup {Pointer(b.ty)}]

\* The type of a declarator, together with the arrays and pointers afterwards.
Build(base, declarator) ==
  FoldRight(LAMBDA d, b : Wrap(b, d), declarator,
            [ty |-> base, arrays |-> arrays, pointers |-> pointers])

\* Every array in the effective type of a use counts once more.
RECURSIVE CountUse(_, _)
CountUse(live, t) ==
  IF t.kind \in {"array", "pointer"}
  THEN LET inner == CountUse(live, Base(t))
       IN  IF t.kind = "array" THEN GetArray(inner, EffectiveType(t)) ELSE inner
  ELSE live

-----------------------------------------------------------------------------
(* Classes and unions.                                                     *)

Reading == phase = "reading" /\ frames = << >>
Weight  == FoldLeft(LAMBDA w, s : w + IF s.of = "member" THEN 1 ELSE VarWeight,
                    Cardinality({ r \in Records : records[r] # Nothing }), symbols)
Room(w) == Weight + w <= MaxDecls
Top(s)  == s[Len(s)]

\* class r { or class r : p {, in another class or between declarations.
StartRecord(r) ==
  /\ Reading /\ Room(1)
  /\ IF records[r].complete \/ records[r].defining THEN Stop
     ELSE /\ records' = [records EXCEPT ![r].defining = TRUE]
          /\ open' = Append(open, r)
          /\ UNCHANGED << arrays, pointers, symbols, frames, phase >>

AddParent(p) ==
  /\ Reading /\ open # << >>
  /\ Top(open) \in Classes /\ ~HasParent(Top(open))
  /\ Own(Top(open)) = << >>
  /\ IF ~records[p].complete THEN Stop
     ELSE /\ records' = [records EXCEPT ![Top(open)].parent = << p >>]
          /\ UNCHANGED << arrays, pointers, open, symbols, frames, phase >>

\* Whether a member of type t, perhaps with a name, can be added to r.
ValidMember(r, n, t) ==
  /\ t # Record(r)
  /\ n # "" => Find(r, n) = << >>
  /\ IF IsRecord(t)
     THEN records[t.name].complete /\ ~DirectlyContains(t.name, Record(r))
     ELSE /\ t.kind # "void"
          /\ t.kind = "array" => Base(t) # Record(r) /\ t.n # 0
  /\ IsComplete(t)

AddMember(n, base, declarator) ==
  LET r == Top(open)
      built == Build(base, declarator)
      member == [name |-> n, ty |-> built.ty, idx |-> Offset(r) + Len(Own(r))]
  IN  /\ Reading /\ open # << >> /\ Room(1)
      /\ IF ~ValidMember(r, n, built.ty) THEN Stop
         ELSE /\ records' = [records EXCEPT ![r].members = Append(@, member)]
              /\ arrays' = built.arrays /\ pointers' = built.pointers
              /\ symbols' = Append(symbols, [ty |-> built.ty, of |-> "member"])
              /\ UNCHANGED << open, frames, phase >>

FinishRecord ==
  /\ Reading /\ open # << >>
  /\ records' = [records EXCEPT ![Top(open)] =
                   [@ EXCEPT !.complete = TRUE, !.defining = FALSE]]
  /\ open' = Front(open)
  /\ UNCHANGED << arrays, pointers, symbols, frames, phase >>

-----------------------------------------------------------------------------
(* Parameters and variables.                                               *)

DeclareParam(base, declarator) ==
  LET built == Build(base, declarator)
      ty == Decay(built.ty)
  IN  /\ Reading /\ open = << >> /\ Room(VarWeight)
      /\ built.ty.kind \in {"array", "pointer"}
      /\ arrays' = IF built.ty.kind = "array" THEN DecayArray(built.arrays, built.ty)
                                              ELSE built.arrays
      /\ pointers' = built.pointers \cup {Unqual(ty)}
      /\ symbols' = Append(symbols, [ty |-> ty, of |-> "param"])
      /\ UNCHANGED << records, open, frames, phase >>

\* The list of an initializer is visited with the type as it was declared.
CanList(t) == t.kind \in {"array", "class"}
Frame(t) == [ty |-> t, visited |-> 0, widest |-> << >>]

DeclareVar(base, declarator, init) ==
  LET built == Build(base, declarator)
  IN  /\ Reading /\ open = << >> /\ Room(VarWeight)
      /\ IF init = "list" /\ ~CanList(built.ty) THEN Stop
         ELSE /\ arrays' = built.arrays /\ pointers' = built.pointers
              /\ symbols' = Append(symbols, [ty |-> built.ty, of |-> init])
              /\ frames' = IF init = "list" THEN << Frame(built.ty) >> ELSE frames
              /\ UNCHANGED << records, open, phase >>

\* The type the next element of a list is visited with, none for an element
\* that is dropped.
ElementType(f) ==
  IF f.ty.kind = "array" THEN << Base(f.ty) >>
  ELSE LET m == FindIdx(f.ty.name, f.visited)
       IN  IF m = << >> THEN << >> ELSE << m[1].ty >>

MoreElements ==
  /\ phase = "reading" /\ frames # << >>
  /\ Top(frames).visited < MaxElements

Visited(fs) == [fs EXCEPT ![Len(fs)].visited = @ + 1]

Element ==
  /\ MoreElements
  /\ frames' = Visited(frames)
  /\ UNCHANGED << records, arrays, pointers, open, symbols, phase >>

\* The next element is visited with what is not a member of the class.
GoesAstray == LET t == ElementType(Top(frames)) IN t # << >> /\ t[1] = Stray.ty

\* What this does is undefined, and so is all that follows, unless the memory
\* there is null and the element is dropped.
StrayElement ==
  /\ MoreElements
  /\ GoesAstray
  /\ phase' = "undefined"
  /\ UNCHANGED << records, arrays, pointers, open, symbols, frames >>

OpenList ==
  LET t == ElementType(Top(frames))
  IN  /\ MoreElements
      /\ t # << >> /\ ~GoesAstray
      /\ IF ~CanList(t[1]) THEN Stop
         ELSE /\ frames' = Append(Visited(frames), Frame(t[1]))
              /\ UNCHANGED << records, arrays, pointers, open, symbols, phase >>

\* The wider of the sizes that the elements told, the first if they are equal.
Wider(widest, t) == IF widest = << >> \/ t.n > widest[1].n THEN << t >> ELSE widest

\* A sized array, or a class, tells no type; an array without a size takes it
\* from the number of its elements.
CloseList ==
  LET f == Top(frames)
      outer == Front(frames)
      base == IF f.widest = << >> THEN Base(f.ty) ELSE f.widest[1]
      sized == Array(base, f.visited)
      told == [outer EXCEPT ![Len(outer)].widest = Wider(@, sized)]
  IN  /\ phase = "reading" /\ frames # << >> /\ f.visited > 0
      /\ IF f.ty.kind = "array" /\ f.ty.n = 0
         THEN /\ arrays' = SetArraySize(arrays, base, f.visited)
              /\ IF outer = << >>
                 THEN /\ symbols' = [symbols EXCEPT ![Len(symbols)].ty = sized]
                      /\ frames' = << >>
                 ELSE frames' = told /\ UNCHANGED symbols
         ELSE frames' = outer /\ UNCHANGED << arrays, symbols >>
      /\ UNCHANGED << records, pointers, open, phase >>

-----------------------------------------------------------------------------
(* Checking.                                                               *)

StartChecking ==
  /\ Reading /\ open = << >>
  /\ phase' = "checking"
  /\ UNCHANGED << records, arrays, pointers, open, symbols, frames >>

\* The variables that have an initializer are looked at in their order.
ToCheck == SelectInSeq(symbols, LAMBDA s : s.of \in {"list", "string", "none"})
Checked(t) == [symbols EXCEPT ![ToCheck] = [ty |-> t, of |-> "checked"]]

Chars == {Prim("u8"), Prim("i8")}

\* A string tells an array of characters its size; other errors in types are
\* noted and checking goes on.
CheckVar ==
  LET s == symbols[ToCheck]
      t == Unqual(s.ty)
      infers == /\ s.of = "string"
                /\ t.kind = "array" /\ t.n = 0 /\ Unqual(Base(t)) \in Chars
      incomplete == /\ ~IsComplete(t)
                    /\ IsRecord(t) \/ s.of # "none"
  IN  /\ phase = "checking" /\ ToCheck # 0
      /\ IF infers
         THEN /\ arrays' = SetArraySize(arrays, Base(t), LiteralSize)
              /\ symbols' = Checked(Array(Base(t), LiteralSize))
              /\ UNCHANGED << records, pointers, open, frames, phase >>
         ELSE IF incomplete THEN Stop
         ELSE /\ symbols' = Checked(s.ty)
              /\ UNCHANGED << records, arrays, pointers, open, frames, phase >>

\* An expression that names a variable gets its effective type.
UseVar(i) ==
  /\ phase = "checking" /\ i \in DOMAIN symbols
  /\ symbols[i].of \in {"checked", "param"}
  /\ CountUse(arrays, symbols[i].ty) # arrays
  /\ arrays' = CountUse(arrays, symbols[i].ty)
  /\ symbols' = [symbols EXCEPT ![i].of = "used"]
  /\ UNCHANGED << records, pointers, open, frames, phase >>

Next ==
  \/ \E r \in Records : StartRecord(r)
  \/ \E p \in Classes : AddParent(p)
  \/ \E d \in MemberTypes : \E n \in Members \cup IF d \in Anonymous THEN {""} ELSE {} :
       AddMember(n, d.base, d.declarator)
  \/ FinishRecord
  \/ \E b \in Bases, d \in Declarators :
       \/ DeclareParam(b, d)
       \/ \E init \in {"none", "list", "string"} : DeclareVar(b, d, init)
  \/ Element \/ StrayElement \/ OpenList \/ CloseList
  \/ StartChecking \/ CheckVar
  \/ \E i \in 1 .. MaxDecls : UseVar(i)

Spec == Init /\ [][Next]_tvars

-----------------------------------------------------------------------------
TypeOK ==
  /\ \A t \in DOMAIN arrays : t.kind = "array" /\ arrays[t] \in Nat \ {0}
  /\ \A t \in pointers : t.kind = "pointer"
  /\ phase \in {"reading", "checking", "stopped", "undefined"}
  /\ Range(open) = { r \in Records : records[r].defining }

\* An array that is still in use, because a variable, a member or an open list
\* has its type or one built from it, has not been released.
InUse ==
  UNION { Parts(t) : t \in { s.ty : s \in Range(symbols) }
                             \cup { f.ty : f \in Range(frames) }
                             \cup pointers \cup DOMAIN arrays }
InUseLive == \A t \in InUse : t.kind = "array" => t \in DOMAIN arrays

\* No value of a class or union contains another value of the same one: not as
\* a member, in an array or through its parents.
RECURSIVE ElementOf(_)
ElementOf(t) == IF t.kind = "array" THEN ElementOf(Base(t)) ELSE t

Contents(r) == { s \in Records :
  s \in Range(records[r].parent) \/ Record(s) \in { ElementOf(m.ty) : m \in Range(Own(r)) } }

ContainsNoItself ==
  \A some \in SUBSET Records \ {{}} : \E r \in some : Contents(r) \cap some = {}

\* Types stay finite values of their types.
TypesFinite == TypeOK /\ ContainsNoItself

\* A member without a name, of one of the records, holds n.
Nested(some, n) ==
  \E r \in some : \E i \in DOMAIN Own(r) :
    Own(r)[i].name = "" /\ FindIn(Own(r)[i], n) # << >>
Lineage(r) == {r} \cup Ancestors(r)

\* Where a pointer to a class is taken as a pointer to one of its ancestors,
\* every member of the ancestor is found under the same indexes and the same
\* index finds the same member.  Only in a member without a name can a class
\* have one of the names of its ancestors again.
UpcastKeepsMembers ==
  \A d \in Classes, b \in Classes :
    CoercibleTo(Pointer(Record(d)), Pointer(Record(b))) =>
      /\ \A n \in Members : Find(b, n) # << >> /\ ~Nested(Lineage(d) \ Lineage(b), n) =>
           Find(d, n) = Find(b, n) /\ Index(d, n) = Index(b, n)
      /\ \A i \in 0 .. NumMembers(b) - 1 : FindIdx(d, i) = FindIdx(b, i)

\* The indexes given for a name lead to the member that has this name, when it
\* is not one of a member without a name.
IndexFindsMember ==
  \A r \in Records, n \in Members : Find(r, n) # << >> /\ ~Nested(Lineage(r), n) =>
    FindByPath(r, Index(r, n)) = Find(r, n)

\* They do so for every name.  The comments where index is used expect it
\* (lib/lowering/lir/synthesizer.cpp:249), and it does not hold of the code.
IndexFindsNested ==
  \A r \in Records, n \in Members : Find(r, n) # << >> =>
    FindByPath(r, Index(r, n)) = Find(r, n)

\* An index behind the last member of a class finds none, not what lies there:
\* an initializer list drops the elements that are too many.  In the code it may
\* read behind the members, and this does not hold.
ExcessIsDropped == phase # "undefined"

=============================================================================
