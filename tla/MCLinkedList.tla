---------------------------- MODULE MCLinkedList ----------------------------
(* Instances of LinkedList: two lists over a few interchangeable nodes. *)
EXTENDS LinkedList, TLC

MCSymmetry == Permutations(Node)
=============================================================================
