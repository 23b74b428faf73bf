---------------------------- MODULE MCTypeContext ----------------------------
(* Small sets of types and declarators for TypeContext.                     *)
EXTENDS TypeContext, TLC

Arr(n) == [c |-> "array", n |-> n]
Ptr == [c |-> "pointer", n |-> 0]

MCEnums == [colour |-> "i32"]
MCReps == [u \in Unions |-> << "i32" >>]

MCBases == {Prim("i8")} \cup { Record(r) : r \in Classes }
MCDeclarators == { << >>, << Arr(0) >>, << Arr(0), Arr(2) >>, << Ptr, Arr(0) >> }
MCNested == { << Arr(0) >>, << Arr(0), Arr(0) >> }
MCNoRecord == {Prim("i8")}

Declared(base, declarator) == [base |-> base, declarator |-> declarator]
MCMemberTypes ==
  {Declared(Prim("i8"), << >>), Declared(Prim("i8"), << Arr(2) >>)}
  \cup { Declared(Record(r), << >>) : r \in Records }
  \cup { Declared(Record(r), << Arr(2), Arr(2) >>) : r \in Classes }
MCAnonymous == { Declared(Record(r), << >>) : r \in Records }
MCNoMembers == {}

MCSymmetry == Permutations(Classes) \cup Permutations(Members)
=============================================================================
