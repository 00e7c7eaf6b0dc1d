------------------------------ MODULE EventFifo ------------------------------
(***************************************************************************)
(* What the tx-rate mode promises: a bounded first-in first-out queue of   *)
(* numbered events.  Every event is put once, in order, and got once, in   *)
(* the same order, by a runner that holds no other event.                  *)
(***************************************************************************)
EXTENDS Integers, Sequences

CONSTANTS
  Threads,   \* the runner threads
  Capacity   \* the events the queue can hold

VARIABLES
  fifo,      \* the events put and not yet got, oldest first
  put,       \* how many events have been put
  holding    \* the event each runner works on, 0 for none

vars == <<fifo, put, holding>>

Init ==
  /\ fifo = << >>
  /\ put = 0
  /\ holding = [t \in Threads |-> 0]

Put ==
  /\ Len(fifo) < Capacity
  /\ fifo' = Append(fifo, put + 1)
  /\ put' = put + 1
  /\ UNCHANGED holding

Get(t) ==
  /\ holding[t] = 0
  /\ fifo # << >>
  /\ fifo' = Tail(fifo)
  /\ holding' = [holding EXCEPT ![t] = Head(fifo)]
  /\ UNCHANGED put

Finish(t) ==
  /\ holding[t] # 0
  /\ holding' = [holding EXCEPT ![t] = 0]
  /\ UNCHANGED <<fifo, put>>

Next == Put \/ \E t \in Threads : Get(t) \/ Finish(t)

Spec == Init /\ [][Next]_vars
=============================================================================
