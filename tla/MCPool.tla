------------------------------- MODULE MCPool -------------------------------
(* Pool for TLC: a few interchangeable calls and shutdowns. *)
EXTENDS Pool, TLC

Alike == Permutations(Calls) \cup Permutations(Stoppers)

=============================================================================
