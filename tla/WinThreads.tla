----------------------------- MODULE WinThreads -----------------------------
(***************************************************************************)
(* The pthreads of the Windows build (sb_win.c) under the use sysbench     *)
(* makes of them: every runner initialises the database driver through     *)
(* pthread_once and takes events from the queue with pthread_cond_wait;    *)
(* the event generator adds events and wakes a runner, or all of them.     *)
(*                                                                         *)
(* A condition is three Win32 events: SIGNAL resets itself when it wakes a *)
(* waiter, BROADCAST and the block gate stay as they are set.  A critical  *)
(* section on lock_waiting is one step.                                    *)
(***************************************************************************)
EXTENDS Integers

CONSTANTS
  Runners,
  Generator,
  MaxEvents,  \* bound on the events generated
  NoOwner

ASSUME WinThreadsAssumption ==
  /\ Generator \notin Runners /\ NoOwner \notin Runners \cup {Generator}
  /\ MaxEvents \in Nat

VARIABLES
  where,         \* the next step of each thread
  wakes,         \* what the generator calls: "signal" or "broadcast"
  mutex,         \* the thread in the critical section of the mutex
  waiting,       \* cond->waiting
  SIGNAL,        \* cond->events[SIGNAL] is set
  BROADCAST,     \* cond->events[BROADCAST] is set
  gate,          \* cond->broadcast_block_event is set
  result,        \* the event that woke each runner
  once_control,  \* "init", "inprogress", "done"
  inits,         \* how often init_routine has completed
  queue,         \* event_queue_length
  generated,
  taken

cond == <<waiting, SIGNAL, BROADCAST, gate, result>>
once == <<once_control, inits>>
events == <<queue, generated, taken>>
winVars == <<where, wakes, mutex, cond, once, events>>

WinInit ==
  /\ where = [t \in Runners \cup {Generator} |-> IF t = Generator THEN "lock" ELSE "once"]
  /\ wakes \in {"signal", "broadcast"}
  /\ mutex = NoOwner
  /\ waiting = 0 /\ SIGNAL = FALSE /\ BROADCAST = FALSE /\ gate = TRUE
  /\ result = [r \in Runners |-> "none"]
  /\ once_control = "init" /\ inits = 0
  /\ queue = 0 /\ generated = 0 /\ taken = 0

Step(t, from, to) == where[t] = from /\ where' = [where EXCEPT ![t] = to]

pthread_mutex_lock(t) == mutex = NoOwner /\ mutex' = t
pthread_mutex_unlock(t) == mutex = t /\ mutex' = NoOwner
-----------------------------------------------------------------------------
(* pthread_once *)

(* Faulty: the state is read and then written, and not exchanged. *)
OnceEntersRead(r) ==
  /\ Step(r, "once", IF once_control = "done" THEN "lock" ELSE "initialise")
  /\ once_control' = IF once_control = "done" THEN "done" ELSE "inprogress"
  /\ UNCHANGED <<wakes, mutex, cond, inits, events>>

OnceEnters(r) ==
  /\ Step(r, "once", CASE once_control = "init" -> "initialise"
                       [] once_control = "inprogress" -> "sleep"
                       [] once_control = "done" -> "lock")
  /\ once_control' = IF once_control = "init" THEN "inprogress" ELSE once_control
  /\ UNCHANGED <<wakes, mutex, cond, inits, events>>

InitRoutine(r) ==
  /\ Step(r, "initialise", "initialised")
  /\ inits' = inits + 1
  /\ UNCHANGED <<wakes, mutex, cond, once_control, events>>

OnceDone(r) ==
  /\ Step(r, "initialised", "lock")
  /\ once_control' = "done"
  /\ UNCHANGED <<wakes, mutex, cond, inits, events>>

OnceWaits(r) ==
  /\ Step(r, "sleep", "lock")
  /\ once_control # "inprogress"
  /\ UNCHANGED <<wakes, mutex, cond, once, events>>
-----------------------------------------------------------------------------
(* A runner takes events; it can end after one (an error). *)

RunnerLocks(r) ==
  /\ Step(r, "lock", "test")
  /\ pthread_mutex_lock(r)
  /\ UNCHANGED <<wakes, cond, once, events>>

TakesEvent(r) ==
  /\ queue > 0
  /\ \E next \in {"lock", "ended"} : Step(r, "test", next)
  /\ queue' = queue - 1 /\ taken' = taken + 1
  /\ pthread_mutex_unlock(r)
  /\ UNCHANGED <<wakes, cond, once, generated>>

(* pthread_cond_timedwait without a time: a broadcast that has not         *)
(* finished holds the thread up, and with it the mutex.                    *)
WaitBegins(r) ==
  /\ queue = 0 /\ gate
  /\ Step(r, "test", "count")
  /\ UNCHANGED <<wakes, mutex, cond, once, events>>

WaiterCounted(r) ==
  /\ Step(r, "count", "leave")
  /\ waiting' = waiting + 1
  /\ UNCHANGED <<wakes, mutex, SIGNAL, BROADCAST, gate, result, once, events>>

WaiterLeaves(r) ==
  /\ Step(r, "leave", "wait")
  /\ pthread_mutex_unlock(r)
  /\ UNCHANGED <<wakes, cond, once, events>>

(* WaitForMultipleObjects: of two events that are set, the first. *)
WaiterWoken(r) ==
  /\ SIGNAL \/ BROADCAST
  /\ Step(r, "wait", "woken")
  /\ result' = [result EXCEPT ![r] = IF SIGNAL THEN "signal" ELSE "broadcast"]
  /\ SIGNAL' = FALSE
  /\ UNCHANGED <<wakes, mutex, waiting, BROADCAST, gate, once, events>>

(* Faulty: the block gate is not opened again. *)
WaitEndsShut(r) ==
  /\ Step(r, "woken", "lock")
  /\ waiting' = waiting - 1
  /\ BROADCAST' = (BROADCAST /\ ~(waiting = 1 /\ result[r] = "broadcast"))
  /\ UNCHANGED <<wakes, mutex, SIGNAL, gate, result, once, events>>

(* The last waiter a broadcast has woken ends it. *)
WaitEnds(r) ==
  LET last == waiting = 1 /\ result[r] = "broadcast" IN
  /\ Step(r, "woken", "lock")
  /\ waiting' = waiting - 1
  /\ BROADCAST' = (BROADCAST /\ ~last)
  /\ gate' = (gate \/ last)
  /\ UNCHANGED <<wakes, mutex, SIGNAL, result, once, events>>
-----------------------------------------------------------------------------
GeneratorLocks ==
  /\ generated < MaxEvents
  /\ Step(Generator, "lock", "wake")
  /\ pthread_mutex_lock(Generator)
  /\ queue' = queue + 1 /\ generated' = generated + 1
  /\ UNCHANGED <<wakes, cond, once, taken>>

pthread_cond_signal ==
  /\ wakes = "signal"
  /\ SIGNAL' = (SIGNAL \/ waiting > 0)
  /\ UNCHANGED <<BROADCAST, gate>>

pthread_cond_broadcast ==
  /\ wakes = "broadcast"
  /\ gate' = (gate /\ waiting = 0)
  /\ BROADCAST' = (BROADCAST \/ waiting > 0)
  /\ UNCHANGED SIGNAL

GeneratorWakes ==
  /\ Step(Generator, "wake", "unlock")
  /\ pthread_cond_signal \/ pthread_cond_broadcast
  /\ UNCHANGED <<wakes, mutex, waiting, result, once, events>>

GeneratorUnlocks ==
  /\ Step(Generator, "unlock", "lock")
  /\ pthread_mutex_unlock(Generator)
  /\ UNCHANGED <<wakes, cond, once, events>>

WaiterStep(r) ==
  \/ OnceEnters(r) \/ InitRoutine(r) \/ OnceDone(r) \/ OnceWaits(r)
  \/ RunnerLocks(r) \/ TakesEvent(r)
  \/ WaitBegins(r) \/ WaiterCounted(r) \/ WaiterLeaves(r)
  \/ WaiterWoken(r) \/ WaitEnds(r)

GeneratorStep == GeneratorLocks \/ GeneratorWakes \/ GeneratorUnlocks

WinNext == GeneratorStep \/ \E r \in Runners : WaiterStep(r)

WinSpec == WinInit /\ [][WinNext]_winVars

(* The operating system runs every thread that can run. *)
WinFairSpec == /\ WinSpec
               /\ WF_winVars(GeneratorStep)
               /\ \A r \in Runners : WF_winVars(WaiterStep(r))
-----------------------------------------------------------------------------
(* pthread_once: "One time initialization" - init_routine never runs a     *)
(* second time, and a thread that goes on finds it completed.              *)
OnceInitialised ==
  /\ inits <= 1
  /\ \A r \in Runners :
       where[r] \notin {"once", "initialise", "sleep"} => inits = 1

(* pthread_cond_wait against pthread_cond_signal or _broadcast: no wakeup  *)
(* is lost for good, though SIGNAL does not count them and the gate stops  *)
(* a waiter that holds the mutex.  All events are taken in the end, unless *)
(* a runner ended that should have come for the next.                      *)
Served ==
  <>(taken = MaxEvents \/ \E r \in Runners : where[r] = "ended")
=============================================================================
