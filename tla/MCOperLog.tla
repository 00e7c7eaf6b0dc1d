----------------------------- MODULE MCOperLog -----------------------------
(* OperLog for TLC. *)
EXTENDS OperLog, TLC

(* Nothing tells one runner from another. *)
Symmetry == Permutations(Threads)
=============================================================================
