------------------------------- MODULE MCLuaGC -------------------------------
(* Bounds for model checking the collector.                                 *)
EXTENDS LuaGC, TLC

Bounds(n, size) == [ops |-> n, stack |-> size]
ObjectMixes ==
  {[table |-> 2] @@ Bounds(5, 2), [string |-> 3] @@ Bounds(6, 1),
   [table |-> 1, string |-> 2] @@ Bounds(5, 2),
   [closure |-> 1, upval |-> 1, string |-> 1] @@ Bounds(8, 3),
   [udata |-> 1, table |-> 1] @@ Bounds(5, 2), [udata |-> 1, weakk |-> 1] @@ Bounds(5, 2),
   [udata |-> 1, weakv |-> 1] @@ Bounds(5, 2), [weakk |-> 1, table |-> 1] @@ Bounds(5, 2),
   [weakv |-> 1, string |-> 1] @@ Bounds(5, 2),
   [udata |-> 2] @@ Bounds(4, 2)}
(* Enough to reach a udata that waits for its finalizer through a weak key.  *)
WeakKeyMix == {[udata |-> 1, weakk |-> 1] @@ Bounds(6, 2)}
=============================================================================
