---------------------------- MODULE MCCFGProgram ----------------------------
(* Families of programs for TLC to check CFGProgram on. *)
EXTENDS CFGProgram, TLC

Family(has, blocks, depth, n) ==
  [has |-> has, blocks |-> blocks, depth |-> depth, funcs |-> n]

\* What the builder gets right.  In order: all structured statements; loops
\* of every shape; labels with loops, with switches too, and in two functions;
\* functions that return a value.
MCSound ==
  { Family({"void", "loop", "switch", "branch"}, 6, 3, 1),
    Family({"void", "loop"}, 7, 3, 1),
    Family({"void", "goto", "loop"}, 5, 3, 1),
    Family({"void", "goto", "loop", "switch", "nodefault", "duff"}, 4, 3, 1),
    Family({"void", "goto", "loop"}, 3, 2, 2),
    Family({"value", "switch", "branch"}, 5, 3, 1) }

MCTwoLabels == { Family({"void", "goto"}, 5, 3, 1) }
MCFallout == { Family({"void", "switch", "fallout"}, 5, 3, 1) }
MCInfiniteLoop == { Family({"value", "loop"}, 5, 3, 1) }
MCSymmetry == Permutations(Labels)
=============================================================================
