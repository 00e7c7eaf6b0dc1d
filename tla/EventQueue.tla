----------------------------- MODULE EventQueue -----------------------------
(***************************************************************************)
(* The tx-rate mode of sysbench.c: one event generator thread              *)
(* (eventgen_thread_proc) links stamped slots of the ring queue_array into *)
(* the list event_queue, and the runner threads (the do loop of            *)
(* runner_thread) take them, execute one request per event and leave.      *)
(*                                                                         *)
(* The list is the sequence of the slot numbers it links.  A thread parked *)
(* in pthread_cond_wait is one whose pc is "wait".  The exec_timer reading *)
(* stored in a slot is abstracted to the number of the event: readings of  *)
(* a monotonic clock by one thread are ordered like the events.            *)
(***************************************************************************)
EXTENDS Integers, Sequences, FiniteSets

CONSTANTS
  Threads,       \* the runner threads
  MAX_QUEUE_LEN, \* slots of queue_array, and the length that stops the test
  MaxRequests,   \* requests the test hands out before get_request says NULL
  MaxSpurious,   \* bound on the spurious wake-ups of pthread_cond_wait
  HasMaxTime,    \* whether --max-time is set
  Generator,     \* the event generator thread
  NoThread       \* the holder of a free mutex

ASSUME EventQueueAssumption ==
  /\ IsFiniteSet(Threads)
  /\ MAX_QUEUE_LEN \in Nat \ {0}
  /\ MaxRequests \in Nat
  /\ MaxSpurious \in Nat
  /\ HasMaxTime \in BOOLEAN
  /\ Generator \notin Threads
  /\ NoThread \notin Threads \cup {Generator}

VARIABLES
  event_queue,         \* the linked list: slot numbers, head first
  event_queue_length,  \* sb_globals.event_queue_length
  queue_is_full,       \* written under the mutex, also read without it
  queue_array,         \* slot -> event_time (0: never stamped)
  event_queue_mutex,   \* its holder, or NoThread
  concurrency,         \* sb_globals.concurrency
  error,               \* sb_globals.error
  gen_pc,              \* where the generator is
  slot,                \* its local i
  pc,                  \* where each runner is
  queue_start_time,    \* the runners' local copies of event_time
  request_null,        \* whether the runner's last request was NULL
  dispensed,           \* requests handed out by the test's get_request
  spurious,            \* spurious wake-ups so far
  expired,             \* exec_timer has reached max_time
  generated,           \* history: events stamped so far
  taken                \* history: events taken from the list so far

genVars   == <<gen_pc, slot, generated>>
runVars   == <<pc, queue_start_time, request_null>>
listVars  == <<event_queue, event_queue_length, queue_is_full>>
countVars == <<concurrency, dispensed, spurious, taken>>
vars == <<listVars, queue_array, event_queue_mutex, error, genVars, runVars,
          countVars, expired>>

Slots == 0 .. MAX_QUEUE_LEN - 1

GenPcs == {"init", "sleep", "lock", "link", "count", "signal", "unlock",
           "check", "returned", "cancelled"}

RunPcs == {"check", "lock", "test", "wait", "relock", "unlink", "unlock",
           "request", "execute", "leave", "dec", "limit", "done", "failed"}

(***************************************************************************)
(* A runner is between taking an event and giving it up.                   *)
(***************************************************************************)
InRequest == {"unlock", "request", "execute", "leave", "dec"}

(***************************************************************************)
(* A runner that has passed the unlocked test of queue_is_full and not yet *)
(* taken an event.                                                         *)
(***************************************************************************)
Committed == {"lock", "test", "wait", "relock", "unlink"}

Waiting == {t \in Threads : pc[t] = "wait"}
-----------------------------------------------------------------------------
(* run_test before it releases the threads. *)
Init ==
  /\ event_queue = << >>
  /\ event_queue_length = 0
  /\ queue_is_full = FALSE
  /\ queue_array = [i \in Slots |-> 0]
  /\ event_queue_mutex = NoThread
  /\ concurrency = 0
  /\ error = FALSE
  /\ gen_pc = "init"
  /\ slot = 0
  /\ pc = [t \in Threads |-> "check"]
  /\ queue_start_time = [t \in Threads |-> 0]
  /\ request_null = [t \in Threads |-> FALSE]
  /\ dispensed = 0
  /\ spurious = 0
  /\ expired = FALSE
  /\ generated = 0
  /\ taken = 0

Lock(self) ==
  /\ event_queue_mutex = NoThread
  /\ event_queue_mutex' = self

Unlock == event_queue_mutex' = NoThread

GenGoto(from, to) ==
  /\ gen_pc = from
  /\ gen_pc' = to

Goto(t, from, to) ==
  /\ pc[t] = from
  /\ pc' = [pc EXCEPT ![t] = to]
-----------------------------------------------------------------------------
(* eventgen_thread_proc *)

(* SB_LIST_INIT and i = 0; it races with the runners' first tests. *)
GenInit ==
  /\ GenGoto("init", "sleep")
  /\ event_queue' = << >>
  /\ slot' = 0
  /\ UNCHANGED <<event_queue_length, queue_is_full, queue_array,
                 event_queue_mutex, error, generated, runVars, countVars,
                 expired>>

(* Sleep, then stamp the slot: no lock is held. *)
GenStamp ==
  /\ GenGoto("sleep", "lock")
  /\ generated' = generated + 1
  /\ queue_array' = [queue_array EXCEPT ![slot] = generated + 1]
  /\ UNCHANGED <<listVars, event_queue_mutex, error, slot, runVars, countVars,
                 expired>>

GenLock ==
  /\ GenGoto("lock", "link")
  /\ Lock(Generator)
  /\ UNCHANGED <<listVars, queue_array, error, slot, generated, runVars,
                 countVars, expired>>

(* SB_LIST_ADD_TAIL. *)
GenLink ==
  /\ GenGoto("link", "count")
  /\ event_queue' = Append(event_queue, slot)
  /\ UNCHANGED <<event_queue_length, queue_is_full, queue_array,
                 event_queue_mutex, error, slot, generated, runVars, countVars,
                 expired>>

(* Faulty: a full queue is noted one event too late. *)
GenCountLateFull ==
  /\ GenGoto("count", "signal")
  /\ event_queue_length' = event_queue_length + 1
  /\ queue_is_full' = (queue_is_full \/ event_queue_length + 1 > MAX_QUEUE_LEN)
  /\ UNCHANGED <<event_queue, queue_array, event_queue_mutex, error, slot,
                 generated, runVars, countVars, expired>>

(* Count the event and note a full queue. *)
GenCount ==
  /\ GenGoto("count", "signal")
  /\ event_queue_length' = event_queue_length + 1
  /\ queue_is_full' = (queue_is_full \/ event_queue_length + 1 >= MAX_QUEUE_LEN)
  /\ UNCHANGED <<event_queue, queue_array, event_queue_mutex, error, slot,
                 generated, runVars, countVars, expired>>

(* Faulty: signal only the first event of an empty queue. *)
GenSignalFirstOnly ==
  /\ GenGoto("signal", "unlock")
  /\ \/ /\ event_queue_length = 1
        /\ \E t \in Waiting : pc' = [pc EXCEPT ![t] = "relock"]
     \/ /\ event_queue_length # 1 \/ Waiting = {}
        /\ UNCHANGED pc
  /\ UNCHANGED <<listVars, queue_array, event_queue_mutex, error, slot,
                 generated, queue_start_time, request_null, countVars, expired>>

(* pthread_cond_signal wakes one parked runner, if there is any. *)
GenSignal ==
  /\ GenGoto("signal", "unlock")
  /\ \/ \E t \in Waiting : pc' = [pc EXCEPT ![t] = "relock"]
     \/ Waiting = {} /\ UNCHANGED pc
  /\ UNCHANGED <<listVars, queue_array, event_queue_mutex, error, slot,
                 generated, queue_start_time, request_null, countVars, expired>>

GenUnlock ==
  /\ GenGoto("unlock", "check")
  /\ Unlock
  /\ UNCHANGED <<listVars, queue_array, error, slot, generated, runVars,
                 countVars, expired>>

(* Faulty: the generator stays in its loop, and does nothing there. *)
GenReturnNot ==
  /\ queue_is_full
  /\ GenGoto("check", "check")
  /\ UNCHANGED <<listVars, queue_array, event_queue_mutex, error, slot,
                 generated, runVars, countVars, expired>>

(* Return when the queue is full, else advance to the next slot. *)
GenReturn ==
  /\ queue_is_full
  /\ GenGoto("check", "returned")
  /\ UNCHANGED <<listVars, queue_array, event_queue_mutex, error, slot,
                 generated, runVars, countVars, expired>>

GenAdvance ==
  /\ ~queue_is_full
  /\ GenGoto("check", "sleep")
  /\ slot' = IF slot + 1 >= MAX_QUEUE_LEN THEN 0 ELSE slot + 1
  /\ UNCHANGED <<listVars, queue_array, event_queue_mutex, error, generated,
                 runVars, countVars, expired>>

(* run_test cancels the generator once the runners are joined; usleep is   *)
(* its cancellation point.                                                 *)
GenCancel ==
  /\ \A t \in Threads : pc[t] \in {"done", "failed"}
  /\ GenGoto("sleep", "cancelled")
  /\ UNCHANGED <<listVars, queue_array, event_queue_mutex, error, slot,
                 generated, runVars, countVars, expired>>
-----------------------------------------------------------------------------
(* runner_thread *)

(* Faulty: runners go on after the queue was found full. *)
CheckFullIgnored(t) ==
  /\ Goto(t, "check", "lock")
  /\ UNCHANGED <<listVars, queue_array, event_queue_mutex, error, genVars,
                 queue_start_time, request_null, countVars, expired>>

(* The unlocked test of queue_is_full. *)
CheckFull(t) ==
  /\ pc[t] = "check"
  /\ pc' = [pc EXCEPT ![t] = IF queue_is_full THEN "done" ELSE "lock"]
  /\ UNCHANGED <<listVars, queue_array, event_queue_mutex, error, genVars,
                 queue_start_time, request_null, countVars, expired>>

(* pthread_mutex_lock, or the re-acquisition at the end of a wait. *)
Acquire(t) ==
  /\ pc[t] \in {"lock", "relock"}
  /\ pc' = [pc EXCEPT ![t] = "test"]
  /\ Lock(t)
  /\ UNCHANGED <<listVars, queue_array, error, genVars, queue_start_time,
                 request_null, countVars, expired>>

(* The queue is empty: release the mutex and park, in one step. *)
CondWait(t) ==
  /\ event_queue_length = 0
  /\ Goto(t, "test", "wait")
  /\ Unlock
  /\ UNCHANGED <<listVars, queue_array, error, genVars, queue_start_time,
                 request_null, countVars, expired>>

SpuriousWake(t) ==
  /\ spurious < MaxSpurious
  /\ Goto(t, "wait", "relock")
  /\ spurious' = spurious + 1
  /\ UNCHANGED <<listVars, queue_array, event_queue_mutex, error, genVars,
                 queue_start_time, request_null, concurrency, dispensed, taken,
                 expired>>

(* Faulty: the stamp is the youngest event's. *)
TakeHeadStampLast(t) ==
  /\ event_queue_length # 0
  /\ Goto(t, "test", "unlink")
  /\ queue_start_time' =
       [queue_start_time EXCEPT ![t] = queue_array[event_queue[Len(event_queue)]]]
  /\ UNCHANGED <<listVars, queue_array, event_queue_mutex, error, genVars,
                 request_null, countVars, expired>>

(* SB_LIST_ONCE finds the head of the list and keeps its stamp; the body   *)
(* is skipped, and the request counted all the same, if the list is empty. *)
TakeHead(t) ==
  /\ event_queue_length # 0
  /\ pc[t] = "test"
  /\ IF event_queue = << >>
       THEN /\ pc' = [pc EXCEPT ![t] = "unlock"]
            /\ concurrency' = concurrency + 1
            /\ UNCHANGED queue_start_time
       ELSE /\ pc' = [pc EXCEPT ![t] = "unlink"]
            /\ queue_start_time' =
                 [queue_start_time EXCEPT ![t] = queue_array[Head(event_queue)]]
            /\ UNCHANGED concurrency
  /\ UNCHANGED <<listVars, queue_array, event_queue_mutex, error, genVars,
                 request_null, dispensed, spurious, taken, expired>>

(* Faulty: the counter is not decremented with the unlinking. *)
UnlinkUncounted(t) ==
  /\ Goto(t, "unlink", "unlock")
  /\ event_queue' = Tail(event_queue)
  /\ concurrency' = concurrency + 1
  /\ taken' = taken + 1
  /\ UNCHANGED <<event_queue_length, queue_is_full, queue_array,
                 event_queue_mutex, error, genVars, queue_start_time,
                 request_null, dispensed, spurious, expired>>

(* SB_LIST_DELETE of the head, and the two counters. *)
Unlink(t) ==
  /\ Goto(t, "unlink", "unlock")
  /\ event_queue' = Tail(event_queue)
  /\ event_queue_length' = event_queue_length - 1
  /\ concurrency' = concurrency + 1
  /\ taken' = taken + 1
  /\ UNCHANGED <<queue_is_full, queue_array, event_queue_mutex, error, genVars,
                 queue_start_time, request_null, dispensed, spurious, expired>>

Release(t) ==
  /\ Goto(t, "unlock", "request")
  /\ Unlock
  /\ UNCHANGED <<listVars, queue_array, error, genVars, queue_start_time,
                 request_null, countVars, expired>>

(* get_request: the test hands out MaxRequests requests, then NULL. *)
GetRequest(t) ==
  /\ pc[t] = "request"
  /\ LET null == dispensed >= MaxRequests IN
       /\ request_null' = [request_null EXCEPT ![t] = null]
       /\ dispensed' = IF null THEN dispensed ELSE dispensed + 1
       /\ pc' = [pc EXCEPT ![t] = IF null THEN "leave" ELSE "execute"]
  /\ UNCHANGED <<listVars, queue_array, event_queue_mutex, error, genVars,
                 queue_start_time, concurrency, spurious, taken, expired>>

ExecuteOk(t) ==
  /\ Goto(t, "execute", "leave")
  /\ UNCHANGED <<listVars, queue_array, event_queue_mutex, error, genVars,
                 queue_start_time, request_null, countVars, expired>>

(* execute_request returned nonzero: break, past the decrement below. Some *)
(* tests raise the global error as well (SQL scripts), some do not.        *)
ExecuteFail(t) ==
  /\ Goto(t, "execute", "failed")
  /\ error' \in {error, TRUE}
  /\ UNCHANGED <<listVars, queue_array, event_queue_mutex, genVars,
                 queue_start_time, request_null, countVars, expired>>

LockLeave(t) ==
  /\ Goto(t, "leave", "dec")
  /\ Lock(t)
  /\ UNCHANGED <<listVars, queue_array, error, genVars, queue_start_time,
                 request_null, countVars, expired>>

Leave(t) ==
  /\ Goto(t, "dec", "limit")
  /\ concurrency' = concurrency - 1
  /\ Unlock
  /\ UNCHANGED <<listVars, queue_array, error, genVars, queue_start_time,
                 request_null, dispensed, spurious, taken, expired>>

(* The time limit, then the loop condition. *)
LoopTest(t) ==
  /\ pc[t] = "limit"
  /\ pc' = [pc EXCEPT ![t] =
              IF expired \/ request_null[t] \/ error THEN "done" ELSE "check"]
  /\ UNCHANGED <<listVars, queue_array, event_queue_mutex, error, genVars,
                 queue_start_time, request_null, countVars, expired>>

(* Time passes until exec_timer reaches --max-time. *)
Expire ==
  /\ HasMaxTime /\ ~expired
  /\ expired' = TRUE
  /\ UNCHANGED <<listVars, queue_array, event_queue_mutex, error, genVars,
                 runVars, countVars>>
-----------------------------------------------------------------------------
GeneratorStep ==
  \/ GenInit \/ GenStamp \/ GenLock \/ GenLink \/ GenCount \/ GenSignal
  \/ GenUnlock \/ GenReturn \/ GenAdvance \/ GenCancel

RunnerStep(t) ==
  \/ CheckFull(t) \/ Acquire(t) \/ CondWait(t) \/ TakeHead(t) \/ Unlink(t)
  \/ Release(t) \/ GetRequest(t) \/ ExecuteOk(t) \/ ExecuteFail(t) \/ LockLeave(t)
  \/ Leave(t) \/ LoopTest(t)

(* Everything has ended: the process goes on to run_test's last lines. *)
Terminated ==
  /\ \A t \in Threads : pc[t] \in {"done", "failed"}
  /\ gen_pc \in {"returned", "cancelled"}

Finished == Terminated /\ UNCHANGED vars

Next ==
  \/ GeneratorStep
  \/ \E t \in Threads : RunnerStep(t)
  \/ \E t \in Threads : SpuriousWake(t)
  \/ Expire
  \/ Finished

Spec == Init /\ [][Next]_vars

(* Every thread that can run is scheduled.  Mutex hand-over needs no more: *)
(* every thread takes the mutex finitely often.                            *)
Fairness == WF_vars(GeneratorStep) /\ \A t \in Threads : WF_vars(RunnerStep(t))

FairSpec == Spec /\ Fairness
-----------------------------------------------------------------------------
(* Properties *)

(* Every variable has its type; in particular the generator's index never  *)
(* leaves queue_array.                                                     *)
TypeOK ==
  /\ event_queue \in Seq(Slots)
  /\ event_queue_length \in Nat
  /\ queue_is_full \in BOOLEAN
  /\ queue_array \in [Slots -> Nat]
  /\ event_queue_mutex \in Threads \cup {Generator, NoThread}
  /\ concurrency \in Int
  /\ error \in BOOLEAN
  /\ gen_pc \in GenPcs
  /\ slot \in Slots
  /\ pc \in [Threads -> RunPcs]
  /\ queue_start_time \in [Threads -> Nat]
  /\ request_null \in [Threads -> BOOLEAN]
  /\ dispensed \in Nat
  /\ spurious \in Nat
  /\ expired \in BOOLEAN
  /\ generated \in Nat
  /\ taken \in Nat

(* The generator stamps and links queue_array[i] without looking whether   *)
(* the slot is still in the list: it never is, because a full queue stops  *)
(* the generator before the ring comes round.                              *)
SlotFree ==
  gen_pc \in {"sleep", "lock", "link"} =>
    \A k \in 1 .. Len(event_queue) : event_queue[k] # slot

(* The counter agrees with the list whenever the mutex protecting both is  *)
(* free, and the k-th event of the list is the k-th event generated after  *)
(* those already taken, its stamp intact: every event is taken once, in    *)
(* the order it was generated.                                             *)
FifoOrder ==
  /\ event_queue_mutex = NoThread => event_queue_length = Len(event_queue)
  /\ \A k \in 1 .. Len(event_queue) : queue_array[event_queue[k]] = taken + k

(* Two runners never serve the same event, and a runner in a request       *)
(* serves one that was generated.                                          *)
DistinctEvents ==
  \A t \in Threads : pc[t] \in InRequest =>
    /\ queue_start_time[t] \in 1 .. taken
    /\ \A u \in Threads : pc[u] \in InRequest /\ u # t =>
         queue_start_time[u] # queue_start_time[t]

(* Runners woken from the wait, or past the lock: each will take an event  *)
(* of the queue if there is one.                                           *)
Awake == {t \in Threads : pc[t] \in {"relock", "test", "unlink"}}

(* No wake-up is lost: as long as a runner is parked, every queued event   *)
(* has an awake runner of its own on its way to the queue, or is about to  *)
(* be signalled.  pthread_cond_signal at every event is what keeps this.   *)
NoLostWakeup ==
  Waiting # {} =>
    event_queue_length <=
      Cardinality(Awake) + (IF gen_pc = "signal" THEN 1 ELSE 0)

(* When the generator has given up on a full queue, no runner is left      *)
(* parked on the condition variable nobody will signal again, and the      *)
(* events left suffice for the runners past the test of queue_is_full:     *)
(* provided the queue has room for one event per runner.                   *)
NoStrandedWaiter ==
  Cardinality(Threads) <= MAX_QUEUE_LEN /\ queue_is_full /\ gen_pc # "signal"
    => /\ Waiting = {}
       /\ Cardinality({t \in Threads : pc[t] \in Committed}) <= event_queue_length

(* sysbench.h's comment on concurrency, the number of concurrent requests: *)
(* it counts the runners between taking an event and giving it up.  Does   *)
(* not hold: a runner whose request fails leaves its loop (sysbench.c:530) *)
(* past the decrement, and is counted for the rest of the test.            *)
ConcurrentRequests ==
  concurrency = Cardinality({t \in Threads : pc[t] \in InRequest})

(* What the code keeps instead, an invariant of the proofs: concurrency    *)
(* counts the runners that serve an event and those that broke out of the  *)
(* loop with a failed request.                                             *)
ConcurrencyAccounting ==
  concurrency = Cardinality({t \in Threads : pc[t] \in InRequest \cup {"failed"}})

(* The test ends: every runner leaves its loop, so that run_test can join  *)
(* it, and the generator returns or is cancelled.                          *)
Termination == <>Terminated

(* The queue implements the bounded FIFO: the list, read through the       *)
(* stamps, is the queue of events, and a runner holds its event until it   *)
(* has given it up.                                                        *)
Linked == IF gen_pc \in {"lock", "link"} THEN generated - 1 ELSE generated

Fifo == INSTANCE EventFifo WITH
  Capacity <- MAX_QUEUE_LEN,
  fifo <- [k \in 1 .. Len(event_queue) |-> queue_array[event_queue[k]]],
  put <- Linked,
  holding <- [t \in Threads |->
                IF pc[t] \in InRequest THEN queue_start_time[t] ELSE 0]

FifoSpec == Fifo!Spec
=============================================================================
