----------------------------- MODULE MCDbStats -----------------------------
(* DbStats for TLC: three bits stand for the bits of unsigned long. *)
EXTENDS DbStats, TLC

(* Nothing tells one runner from another. *)
Symmetry == Permutations(Threads)
=============================================================================
