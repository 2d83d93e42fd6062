----------------------------- MODULE MCAdmission -----------------------------
(* Admission for TLC: a few interchangeable senders on a small channel. *)
EXTENDS Admission, TLC

SendersAlike == Permutations(Senders)

=============================================================================
