------------------------------- MODULE MCActor -------------------------------
(* Actor for TLC: the actors are interchangeable. *)
EXTENDS Actor, TLC

Symmetry == Permutations(Actors)
==============================================================================
