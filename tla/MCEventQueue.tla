---------------------------- MODULE MCEventQueue ----------------------------
(* EventQueue for TLC: the configuration gives the constants their values. *)
EXTENDS EventQueue
=============================================================================
