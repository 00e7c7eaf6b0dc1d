----------------------------- MODULE MCRunTest -----------------------------
(* RunTest for TLC: the configurations give the constants their values. *)
EXTENDS RunTest
=============================================================================
