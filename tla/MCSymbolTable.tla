--------------------------- MODULE MCSymbolTable ----------------------------
(* Instances of SymbolTable for TLC. *)
EXTENDS SymbolTable

\* Deep trees without names, reset or replayed; trees with few symbols, and
\* small ones with more.
MCBounds ==
  { [scopes |-> 6, syms |-> 0, resets |-> 1, replays |-> TRUE],
    [scopes |-> 5, syms |-> 2, resets |-> 0, replays |-> FALSE],
    [scopes |-> 3, syms |-> 3, resets |-> 0, replays |-> FALSE] }
=============================================================================
