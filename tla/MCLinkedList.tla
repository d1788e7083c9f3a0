---------------------------- MODULE MCLinkedList ----------------------------
(* LinkedList for TLC: a negative position among the others. *)
EXTENDS LinkedList

MCPositions == -1 .. 3
=============================================================================
