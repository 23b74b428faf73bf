---------------------------- MODULE SymbolTable -----------------------------
(***************************************************************************)
(* sema::sym: the tree of lexical scopes of one translation unit, the      *)
(* names each scope holds, and SymbolTableWalker, the cursor that builds   *)
(* the tree and looks names up in it.  The walker of MIRSynthesizer builds *)
(* by push_scope, pop_scope and the inserts; a walker in the READ state,   *)
(* "reader", later visits the same program and enters the scopes it finds. *)
(*                                                                         *)
(* Scopes are numbered in the order they are made, 1 is the global scope   *)
(* (their id is one less); symbols likewise.  Of a type the model keeps    *)
(* only the signature of a function, as a model value.                     *)
(***************************************************************************)
EXTENDS Naturals, Sequences

CONSTANTS Names,        \* identifiers
          Signatures,   \* function types
          MaxScopes,    \* bound: scopes
          MaxSyms,      \* bound: symbols
          Bounds        \* the bounds of each family of tables

\* scopes, syms, resets: how many; replays: whether a reader follows.
ASSUME SymbolTableAssumption ==
  /\ MaxScopes \in Nat \ {0} /\ MaxSyms \in Nat
  /\ Bounds \subseteq [scopes : 1 .. MaxScopes, syms : 0 .. MaxSyms,
                       resets : Nat, replays : BOOLEAN]

VARIABLES bound,        \* the bounds of this behaviour
          tree,         \* the scopes: how they nest, the function each belongs to
          names,        \* the maps of each scope
          syms,         \* the symbols made so far
          walker,       \* the walker that builds: current, next_scope_idx, prev_scope_idxs
          resets,       \* calls of reset() so far
          visits,       \* what that walker did: the scopes it moved to, in order
          reader, pos   \* the walker that replays the visits, and how many it has

building == << bound, tree, names, syms, walker, resets, visits >>
vars == << bound, tree, names, syms, walker, resets, visits, reader, pos >>

None == 0
Global == 1
Scope == 1 .. MaxScopes
Sym == 1 .. MaxSyms
Kinds == {"var", "func", "alias", "type", "label"}
Linkages == {"none", "internal", "external"}

Last(s) == s[Len(s)]
Front(s) == SubSeq(s, 1, Len(s) - 1)

NewWalker == [current |-> Global, idx |-> 0, prevs |-> << >>]
NoNames == [s \in Scope |-> [x \in Names |-> None]]

Init ==
  /\ bound \in Bounds
  /\ tree = [n |-> 1, outer |-> [s \in Scope |-> None],
             nested |-> [s \in Scope |-> << >>], assoc |-> [s \in Scope |-> None]]
  /\ names = [phys |-> NoNames, implicits |-> NoNames, types |-> NoNames,
              labels |-> NoNames, shadowed |-> [s \in Scope |-> {}]]
  /\ syms = << >>
  /\ walker = NewWalker
  /\ resets = 0
  /\ visits = << >>
  /\ reader = NewWalker
  /\ pos = 0

-----------------------------------------------------------------------------
(* Moving in the tree *)

\* enter_scope, and what it asserts.
CanEnter(t, w) == w.idx < Len(t.nested[w.current])

Enter(t, w) ==
  [current |-> t.nested[w.current][w.idx + 1], idx |-> 0, prevs |-> Append(w.prevs, w.idx + 1)]

Leave(t, w) ==
  [current |-> t.outer[w.current], idx |-> Last(w.prevs), prevs |-> Front(w.prevs)]

Rewind(w) == [w EXCEPT !.current = Global]

\* The visitors run one after the other: nothing is built once a reader began.
Building == pos = 0

Record(s) == visits' = IF bound.replays THEN Append(visits, s) ELSE visits

\* Mutant of PushScope: the new scope goes to the front of its siblings.
PushScopeInFront ==
  /\ Building
  /\ tree.n < bound.scopes
  /\ LET new == tree.n + 1
         t   == [tree EXCEPT !.n = new, !.outer[new] = walker.current,
                             !.nested[walker.current] = << new >> \o @]
     IN  /\ CanEnter(t, walker)
         /\ tree' = t
         /\ walker' = Enter(t, walker)
         /\ Record(walker'.current)
  /\ UNCHANGED << bound, names, syms, resets, reader, pos >>

PushScope ==
  /\ Building
  /\ tree.n < bound.scopes
  /\ LET new == tree.n + 1
         t   == [tree EXCEPT !.n = new, !.outer[new] = walker.current,
                             !.nested[walker.current] = Append(@, new)]
     IN  /\ CanEnter(t, walker)
         /\ tree' = t
         /\ walker' = Enter(t, walker)
         /\ Record(walker'.current)
  /\ UNCHANGED << bound, names, syms, resets, reader, pos >>

\* At the global scope pop_scope does nothing.
PopScope ==
  /\ Building
  /\ walker.current # Global
  /\ walker' = Leave(tree, walker)
  /\ Record(walker'.current)
  /\ UNCHANGED << bound, tree, names, syms, resets, reader, pos >>

Reset ==
  /\ Building
  /\ resets < bound.resets
  /\ resets' = resets + 1
  /\ walker' = Rewind(walker)
  /\ visits' = << >>
  /\ UNCHANGED << bound, tree, names, syms, reader, pos >>

\* A function's scope is tied to it when its body has been left.
SetAssoc(s, f) ==
  /\ Building
  /\ s \in 2 .. tree.n /\ s # walker.current
  /\ tree.assoc[s] = None
  /\ f \in DOMAIN syms /\ syms[f].kind = "func" /\ syms[f].scope = tree.outer[s]
  /\ tree.outer[s] = walker.current
  /\ tree' = [tree EXCEPT !.assoc[s] = f]
  /\ UNCHANGED << bound, names, syms, walker, resets, visits, reader, pos >>

\* A READ visitor makes the moves the builder made.
Replay ==
  /\ walker.current = Global /\ resets = 0
  /\ pos < Len(visits)
  /\ IF pos = 0 \/ visits[pos + 1] > visits[pos]
     THEN CanEnter(tree, reader) /\ reader' = Enter(tree, reader)
     ELSE reader' = Leave(tree, reader)
  /\ pos' = pos + 1
  /\ UNCHANGED building

-----------------------------------------------------------------------------
(* Names.  The inserts work on the current scope.  A name that is taken     *)
(* throws, and nothing changes.                                             *)

Symbol(kind, x, s) ==
  [kind |-> kind, name |-> x, scope |-> s, implicit |-> FALSE,
   defs |-> 0, sig |-> None, link |-> "none"]

\* A new symbol under name x in one of the maps of scope s.
AddSymbol(map, x, s, symbol) ==
  /\ Building
  /\ Len(syms) < bound.syms
  /\ syms' = Append(syms, symbol)
  /\ names' = [names EXCEPT ![map][s][x] = Len(syms) + 1]
  /\ UNCHANGED << bound, tree, walker, resets, visits, reader, pos >>

Get(s, x) ==
  IF names.phys[s][x] # None THEN names.phys[s][x] ELSE names.implicits[s][x]
LocallyContains(s, x) == names.phys[s][x] # None \/ names.implicits[s][x] # None

InsertVar(s, x) ==
  names.phys[s][x] = None /\ AddSymbol("phys", x, s, Symbol("var", x, s))

InsertImplicit(s, x) ==
  /\ s # Global
  /\ ~LocallyContains(s, x)
  /\ AddSymbol("implicits", x, s, [Symbol("var", x, s) EXCEPT !.implicit = TRUE])

InsertType(s, x) ==
  names.types[s][x] = None /\ AddSymbol("types", x, s, Symbol("type", x, s))

InsertLabel(s, x) ==
  names.labels[s][x] = None /\ AddSymbol("labels", x, s, Symbol("label", x, s))

\* Mutant of InsertAlias: the displaced symbol is dropped.
InsertAliasDrops(s, aliasee) ==
  /\ Building
  /\ Len(syms) < bound.syms
  /\ aliasee \in DOMAIN syms /\ syms[aliasee].kind \in {"var", "func"}
  /\ syms' = Append(syms, Symbol("alias", syms[aliasee].name, s))
  /\ names' = [names EXCEPT !.phys[s][syms[aliasee].name] = Len(syms) + 1]
  /\ UNCHANGED << bound, tree, walker, resets, visits, reader, pos >>

\* An alias banishes the symbol it displaces to the shadow zone.
InsertAlias(s, aliasee) ==
  /\ Building
  /\ Len(syms) < bound.syms
  /\ aliasee \in DOMAIN syms /\ syms[aliasee].kind \in {"var", "func"}
  /\ LET x   == syms[aliasee].name
         old == names.phys[s][x]
     IN  /\ syms' = Append(syms, Symbol("alias", x, s))
         /\ names' = [names EXCEPT !.phys[s][x] = Len(syms) + 1,
                                   !.shadowed[s] = @ \cup ({old} \ {None})]
  /\ UNCHANGED << bound, tree, walker, resets, visits, reader, pos >>

CompatibleFrom(f, sig, link) == syms[f].sig = sig /\ link \in {"none", syms[f].link}

InsertNewFunc(s, x, sig, link, body) ==
  /\ names.phys[s][x] = None
  /\ AddSymbol("phys", x, s, [Symbol("func", x, s) EXCEPT
       !.sig = sig, !.link = link, !.defs = IF body THEN 1 ELSE 0])

\* A declaration meets its definition.  The other pairs that are accepted
\* (a declaration after either) change nothing.
Define(f, sig, link) ==
  /\ Building
  /\ f \in DOMAIN syms /\ syms[f].kind = "func" /\ syms[f].scope = walker.current
  /\ names.phys[syms[f].scope][syms[f].name] = f
  /\ syms[f].defs = 0
  /\ CompatibleFrom(f, sig, link)
  /\ syms' = [syms EXCEPT ![f].defs = @ + 1]
  /\ UNCHANGED << bound, tree, names, walker, resets, visits, reader, pos >>

-----------------------------------------------------------------------------
(* Lookup from scope s *)

\* The first scope of S from s outwards, None if there is none.
Outwards(s, S) ==
  LET from[k \in 0 .. MaxScopes] ==
        IF k \in S \cup {None} THEN k ELSE from[tree.outer[k]]
  IN  from[s]

OfKind(i, kind) == IF i # None /\ syms[i].kind = kind THEN i ELSE None

LookupVar(s, x) ==
  LET at == Outwards(s, {k \in 1 .. tree.n : LocallyContains(k, x)})
  IN  IF at = None THEN None ELSE OfKind(Get(at, x), "var")

LookupFunc(s, x) ==
  LET at == Outwards(s, {k \in 1 .. tree.n : names.phys[k][x] # None})
  IN  IF at = None THEN None ELSE OfKind(names.phys[at][x], "func")

LookupType(s, x) ==
  LET at == Outwards(s, {k \in 1 .. tree.n : names.types[k][x] # None})
  IN  IF at = None THEN None ELSE names.types[at][x]

\* Mutant of LookupLabel: the search goes on past the function.
LookupLabelFurther(s, x) ==
  LET at == IF s = Global THEN Global ELSE Outwards(s, {k \in 1 .. tree.n : names.labels[k][x] # None})
  IN  IF at = None THEN None ELSE names.labels[at][x]

\* Up to the scope of the function, and never from the global scope.
LookupLabel(s, x) ==
  LET at == IF s = Global THEN Global
            ELSE Outwards(s, {k \in 1 .. tree.n : names.labels[k][x] # None \/ tree.assoc[k] # None})
  IN  IF at = None THEN None ELSE names.labels[at][x]

Lookup(s, x) ==
  LET found == << LookupVar(s, x), LookupFunc(s, x), LookupType(s, x), LookupLabel(s, x) >>
      hits  == {i \in 1 .. 4 : found[i] # None}
  IN  IF hits = {} THEN None ELSE found[CHOOSE i \in hits : \A j \in hits : i <= j]

-----------------------------------------------------------------------------
Insert(s) ==
  \E x \in Names :
    \/ InsertVar(s, x)
    \/ InsertImplicit(s, x)
    \/ InsertType(s, x)
    \/ InsertLabel(s, x)
    \/ \E sig \in Signatures, link \in Linkages, body \in BOOLEAN :
         InsertNewFunc(s, x, sig, link, body)

Next ==
  \/ PushScope
  \/ PopScope
  \/ Reset
  \/ \E s \in Scope, f \in Sym : SetAssoc(s, f)
  \/ Insert(walker.current)
  \/ \E i \in Sym : InsertAlias(walker.current, i)
  \/ \E f \in Sym, sig \in Signatures, link \in Linkages : Define(f, sig, link)
  \/ Replay

Spec == Init /\ [][Next]_vars

-----------------------------------------------------------------------------
(* Properties *)

Walkers == [current : Scope, idx : 0 .. MaxScopes, prevs : Seq(1 .. MaxScopes)]
Maps == [Scope -> [Names -> Sym \cup {None}]]

\* The types of the table and of its walkers.
TypeOK ==
  /\ bound \in Bounds
  /\ tree \in [n : Scope, outer : [Scope -> Scope \cup {None}],
               nested : [Scope -> Seq(Scope)], assoc : [Scope -> Sym \cup {None}]]
  /\ names \in [phys : Maps, implicits : Maps, types : Maps, labels : Maps,
                shadowed : [Scope -> SUBSET Sym]]
  /\ \A i \in DOMAIN syms : syms[i].kind \in Kinds /\ syms[i].scope \in 1 .. tree.n
  /\ walker \in Walkers
  /\ reader \in Walkers
  /\ resets \in Nat /\ pos \in Nat /\ visits \in Seq(Scope)

\* Per scope, those from the outermost nested one to it.
PathsIn(outer) ==
  LET to[k \in Scope] == IF outer[k] = None THEN << >> ELSE Append(to[outer[k]], k)
  IN  to

Path(s) == PathsIn(tree.outer)[s]

Ancestors(s) == {Path(s)[i] : i \in DOMAIN Path(s)} \cup {Global}

\* A walker knows its way back: prev_scope_idxs holds, for each scope it is
\* inside, the index that follows it among its siblings.  And the builder
\* always stands behind the last scope nested in each of them: push_scope
\* enters by index, and enters the scope it has made only because of it.
WalkersOnPath ==
  /\ \A w \in {walker, reader} :
       LET path == Path(w.current)
       IN  resets = 0 =>
             /\ Len(w.prevs) = Len(path)
             /\ \A k \in DOMAIN path : tree.nested[tree.outer[path[k]]][w.prevs[k]] = path[k]
  /\ resets = 0 =>
       /\ walker.idx = Len(tree.nested[walker.current])
       /\ \A k \in DOMAIN walker.prevs :
            walker.prevs[k] = Len(tree.nested[tree.outer[Path(walker.current)[k]]])

\* A READ visitor stands, at each point of the program, in the scope the
\* builder made there, and never asks for a nested scope that is not there.
ReplayFollows ==
  pos > 0 => /\ reader.current = visits[pos]
             /\ pos < Len(visits) /\ visits[pos + 1] > visits[pos] => CanEnter(tree, reader)

\* Builder and reader go through the same scopes, in the order of the source.
WalkersFollow == TypeOK /\ WalkersOnPath /\ ReplayFollows

\* No symbol is ever dropped, whatever shadows it: the MIR keeps pointers to
\* symbols, and each stays owned, once, by the scope it says it is in.
SymbolsOwned ==
  \A i \in DOMAIN syms :
    LET s == syms[i].scope
        x == syms[i].name
        map == CASE syms[i].kind = "type"  -> "types"
                 [] syms[i].kind = "label" -> "labels"
                 [] syms[i].implicit       -> "implicits"
                 [] OTHER                  -> "phys"
    IN  (names[map][s][x] = i) # (i \in names.shadowed[s])

\* Name resolution is lexical: an identifier denotes the physical symbol of
\* the innermost scope around it that has one, an explicit one before an
\* implicit one, and neither insertions elsewhere nor symbols displaced by an
\* alias change that.
Physical(s, x) ==
  {i \in DOMAIN syms : /\ syms[i].kind \in {"var", "func", "alias"}
                       /\ syms[i].name = x /\ syms[i].scope \in Ancestors(s)
                       /\ i \notin names.shadowed[syms[i].scope]}

InnermostWins ==
  \A s \in 1 .. tree.n, x \in Names :
    LET all  == Physical(s, x)
        near == {i \in all : \A j \in all : syms[j].scope <= syms[i].scope}
        wins == {i \in near : syms[i].implicit => near = {i}}
    IN  IF all = {} THEN LookupVar(s, x) = None /\ LookupFunc(s, x) = None
        ELSE \E i \in wins :
               /\ wins = {i}
               /\ LookupVar(s, x) = OfKind(i, "var")
               /\ ~syms[i].implicit => LookupFunc(s, x) = OfKind(i, "func")
               /\ syms[i].kind # "alias" => Lookup(s, x) = i

\* The function a scope belongs to: that of the innermost scope around it,
\* itself included, that is tied to one.
FunctionOf(s) ==
  LET tied == {k \in Ancestors(s) : tree.assoc[k] # None}
  IN  IF tied = {} THEN None
      ELSE tree.assoc[CHOOSE k \in tied : \A j \in tied : j <= k]

\* A goto never leaves its function: the label it finds belongs to the same
\* one, though functions nest and names repeat.  It is declared in a block
\* around the goto.
GotoStaysInFunction ==
  \A s \in 1 .. tree.n, x \in Names :
    LET l == LookupLabel(s, x)
    IN  l # None => /\ FunctionOf(syms[l].scope) = FunctionOf(s)
                    /\ syms[l].scope \in Ancestors(s)

\* Names are resolved in the scopes around their use, labels within their
\* function.
LookupsLexical == InnermostWins /\ GotoStaysInFunction
=============================================================================
