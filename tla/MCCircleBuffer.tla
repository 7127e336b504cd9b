-------------------------- MODULE MCCircleBuffer --------------------------
(* TLC instances of CircleBuffer: threads of one side are interchangeable, *)
(* and so are the elements.                                                *)
EXTENDS CircleBuffer, TLC

Symmetry ==
  Permutations(Pushers) \cup Permutations(Poppers) \cup Permutations(Data)
===========================================================================
