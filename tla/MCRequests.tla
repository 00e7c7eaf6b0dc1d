----------------------------- MODULE MCRequests -----------------------------
(* Requests for TLC: each test with the options that reach all of its code.*)
EXTENDS Requests

Memory(block, scope, oper, access) ==
  [test |-> "memory", block |-> block, total |-> 6, scope |-> scope,
   oper |-> oper, access |-> access]

MCConfigs ==
  {[test |-> "cpu", prime |-> p] : p \in {0, 5}}
    \cup {[test |-> "threads", yields |-> y, locks |-> 2] : y \in {0, 2}}
    \cup {[test |-> "mutex", num |-> 2, loops |-> 1, locks |-> n] : n \in 1 .. 2}
    \cup {[test |-> "mutex", num |-> 1, loops |-> 0, locks |-> 0]}
    \cup {Memory(4, s, "write", "seq") : s \in {"global", "local", "invalid"}}
    \cup {Memory(4, "global", "none", "rnd"), Memory(6, "global", "read", "rnd")}

ASSUME MCLimits == LimitsFit
=============================================================================
