-------------------------- MODULE EventQueueProofs --------------------------
(***************************************************************************)
(* Theorems about EventQueue, for any number of runners, any ring size and *)
(* any number of requests: the order of the events and the reuse of their  *)
(* slots; the wake-ups and the count of the runners, where the argument is *)
(* about numbers of threads; and the refinement of EventFifo.              *)
(***************************************************************************)
EXTENDS EventQueue, SequenceTheorems, ThreadLemmas

(* The mutex is held by exactly the thread inside its critical section. *)
MutexInv ==
  /\ gen_pc \in {"link", "count", "signal", "unlock"}
       <=> event_queue_mutex = Generator
  /\ \A t \in Threads :
       pc[t] \in {"test", "unlink", "unlock", "dec"} <=> event_queue_mutex = t

(* The slot d places before slot s on the ring. *)
Back(s, d) == IF d <= s THEN s - d ELSE s - d + MAX_QUEUE_LEN

(* How far the generator's slot is ahead of the last linked one. *)
Ahead ==
  IF gen_pc \in {"count", "signal", "unlock", "check", "returned"} THEN 0 ELSE 1

(* The list holds as many events as counted, and never too many: a full    *)
(* queue stops the generator before it moves to another slot.              *)
FullInv ==
  /\ Len(event_queue) = event_queue_length + (IF gen_pc = "count" THEN 1 ELSE 0)
  /\ Len(event_queue) <= MAX_QUEUE_LEN
  /\ ~queue_is_full /\ gen_pc # "count" => Len(event_queue) < MAX_QUEUE_LEN
  /\ gen_pc \in {"init", "sleep", "lock", "link", "count", "cancelled"}
       => ~queue_is_full
  /\ gen_pc = "init" => event_queue = << >>

(* The list is the run of ring slots that ends at the generator's. *)
RingInv ==
  \A k \in 1 .. Len(event_queue) :
    event_queue[k] = Back(slot, Len(event_queue) - k + Ahead)

(* The stamps of the list are consecutive and follow those taken. *)
StampInv ==
  /\ \A k \in 1 .. Len(event_queue) : queue_array[event_queue[k]] = taken + k
  /\ Linked = taken + Len(event_queue)
  /\ gen_pc \in {"lock", "link"} => queue_array[slot] = generated

(* A runner about to unlink holds the stamp of the head. *)
HeadInv ==
  \A t \in Threads : pc[t] = "unlink" =>
    event_queue # << >> /\ queue_start_time[t] = taken + 1

QueueInv == FullInv /\ RingInv /\ StampInv /\ HeadInv /\ DistinctEvents

IInv == TypeOK /\ MutexInv /\ QueueInv
-----------------------------------------------------------------------------
LEMMA TypeInit == Init => TypeOK
<1> SUFFICES ASSUME Init PROVE TypeOK
  OBVIOUS
<1>1. event_queue \in Seq(Slots)
  BY EmptySeq DEF Init
<1>2. slot \in Slots /\ queue_array \in [Slots -> Nat]
  BY EventQueueAssumption DEF Init, Slots
<1>3. queue_is_full \in BOOLEAN /\ error \in BOOLEAN /\ expired \in BOOLEAN
  BY DEF Init
<1>4. request_null \in [Threads -> BOOLEAN]
  BY Zenon DEF Init
<1>5. gen_pc \in GenPcs /\ pc \in [Threads -> RunPcs]
  BY DEF Init, GenPcs, RunPcs
<1> QED
  BY <1>1, <1>2, <1>3, <1>4, <1>5 DEF Init, TypeOK

(* Types are kept because a runner that unlinks finds a head to unlink and *)
(* a positive counter.                                                     *)
LEMMA TypeStep == IInv /\ [Next]_vars => TypeOK'
<1> SUFFICES ASSUME TypeOK, MutexInv, FullInv, HeadInv, [Next]_vars
             PROVE  TypeOK'
  BY DEF IInv, QueueInv
<1> USE EventQueueAssumption DEF TypeOK, GenPcs, RunPcs, Lock, Unlock, GenGoto,
        Goto, genVars, runVars, listVars, countVars
<1>1. CASE GenInit
  BY <1>1 DEF GenInit, Slots
<1>2. CASE GenStamp
  BY <1>2 DEF GenStamp
<1>3. CASE GenLock
  BY <1>3 DEF GenLock
<1>4. CASE GenLink
  BY <1>4 DEF GenLink
<1>14. CASE GenCount
  BY <1>14 DEF GenCount
<1>5. CASE GenSignal
  BY <1>5 DEF GenSignal, Waiting
<1>6. CASE GenUnlock
  BY <1>6 DEF GenUnlock
<1>7. CASE GenReturn
  BY <1>7 DEF GenReturn
<1>8. CASE GenAdvance
  BY <1>8 DEF GenAdvance, Slots
<1>9. CASE GenCancel
  BY <1>9 DEF GenCancel
<1>10. ASSUME NEW t \in Threads, RunnerStep(t)
       PROVE  TypeOK'
  <2>1. CASE CheckFull(t)
    BY <2>1 DEF CheckFull
  <2>2. CASE Acquire(t)
    BY <2>2 DEF Acquire
  <2>3. CASE CondWait(t)
    BY <2>3 DEF CondWait
  <2>4. CASE TakeHead(t)
    <3>1. CASE event_queue # << >>
      <4>1. queue_array[Head(event_queue)] \in Nat
        <5>1. Head(event_queue) \in Slots
          BY <3>1
        <5> QED BY <5>1
      <4>2. /\ pc' = [pc EXCEPT ![t] = "unlink"]
            /\ queue_start_time' =
                 [queue_start_time EXCEPT ![t] = queue_array[Head(event_queue)]]
            /\ UNCHANGED <<listVars, queue_array, event_queue_mutex, error,
                           genVars, request_null, countVars, expired>>
        BY <2>4, <3>1, Zenon DEF TakeHead
      <4> QED BY <4>1, <4>2
    <3>2. CASE event_queue = << >>
      <4>1. /\ pc' = [pc EXCEPT ![t] = "unlock"]
            /\ concurrency' = concurrency + 1
            /\ UNCHANGED <<listVars, queue_array, event_queue_mutex, error,
                           genVars, queue_start_time, request_null, dispensed,
                           spurious, taken, expired>>
        BY <2>4, <3>2, Zenon DEF TakeHead
      <4> QED BY <4>1
    <3> QED BY <3>1, <3>2
  <2>12. CASE Unlink(t)
    <3>1. event_queue # << >> /\ gen_pc # "count"
      BY <2>12 DEF Unlink, HeadInv, MutexInv
    <3>2. Tail(event_queue) \in Seq(Slots) /\ Len(event_queue) > 0
      BY <3>1
    <3>3. event_queue_length - 1 \in Nat
      BY <3>1, <3>2 DEF FullInv
    <3> QED BY <2>12, <3>2, <3>3 DEF Unlink
  <2>5. CASE Release(t)
    BY <2>5 DEF Release
  <2>6. CASE GetRequest(t)
    BY <2>6 DEF GetRequest
  <2>7. CASE ExecuteOk(t)
    BY <2>7 DEF ExecuteOk
  <2>8. CASE ExecuteFail(t)
    BY <2>8 DEF ExecuteFail
  <2>9. CASE LockLeave(t)
    BY <2>9 DEF LockLeave
  <2>10. CASE Leave(t)
    BY <2>10 DEF Leave
  <2>11. CASE LoopTest(t)
    BY <2>11 DEF LoopTest
  <2> QED
    BY <1>10, <2>1, <2>2, <2>3, <2>4, <2>5, <2>6, <2>7, <2>8, <2>9, <2>10,
       <2>11, <2>12
    DEF RunnerStep
<1>11. ASSUME NEW t \in Threads, SpuriousWake(t)
       PROVE  TypeOK'
  BY <1>11 DEF SpuriousWake
<1>12. CASE Expire
  BY <1>12 DEF Expire
<1>13. CASE UNCHANGED vars
  BY <1>13 DEF vars
<1> QED
  BY <1>1, <1>2, <1>3, <1>4, <1>5, <1>6, <1>7, <1>8, <1>9, <1>10, <1>11, <1>12,
     <1>13, <1>14
  DEF Next, GeneratorStep, Finished

(* Mutual exclusion on event_queue_mutex. *)
LEMMA MutexStep == IInv /\ [Next]_vars => MutexInv'
<1> SUFFICES ASSUME TypeOK, MutexInv, FullInv, [Next]_vars
             PROVE  MutexInv'
  BY DEF IInv, QueueInv
<1> USE EventQueueAssumption DEF TypeOK, GenPcs, RunPcs, Lock, Unlock, GenGoto,
        Goto, genVars, runVars, listVars, countVars, MutexInv
<1>1. ASSUME GeneratorStep PROVE MutexInv'
  <2>1. CASE GenInit
    BY <2>1 DEF GenInit
  <2>2. CASE GenStamp
    BY <2>2 DEF GenStamp
  <2>3. CASE GenLock
    BY <2>3 DEF GenLock
  <2>4. CASE GenLink
    BY <2>4 DEF GenLink
  <2>5. CASE GenCount
    BY <2>5 DEF GenCount
  <2>6. CASE GenSignal
    BY <2>6 DEF GenSignal, Waiting
  <2>7. CASE GenUnlock
    BY <2>7 DEF GenUnlock
  <2>8. CASE GenReturn
    BY <2>8 DEF GenReturn
  <2>9. CASE GenAdvance
    BY <2>9 DEF GenAdvance
  <2>10. CASE GenCancel
    BY <2>10 DEF GenCancel
  <2> QED
    BY <1>1, <2>1, <2>2, <2>3, <2>4, <2>5, <2>6, <2>7, <2>8, <2>9, <2>10
    DEF GeneratorStep
<1>2. ASSUME NEW t \in Threads, RunnerStep(t) PROVE MutexInv'
  <2>1. CASE CheckFull(t)
    BY <2>1 DEF CheckFull
  <2>2. CASE Acquire(t)
    BY <2>2 DEF Acquire
  <2>3. CASE CondWait(t)
    BY <2>3 DEF CondWait
  <2>4. CASE TakeHead(t)
    <3>1. /\ UNCHANGED <<event_queue_mutex, gen_pc>>
          /\ pc[t] = "test"
          /\ \/ pc' = [pc EXCEPT ![t] = "unlink"]
             \/ pc' = [pc EXCEPT ![t] = "unlock"]
      BY <2>4, Zenon DEF TakeHead
    <3> QED BY <3>1
  <2>5. CASE Unlink(t)
    BY <2>5 DEF Unlink
  <2>6. CASE Release(t)
    BY <2>6 DEF Release
  <2>7. CASE GetRequest(t)
    BY <2>7 DEF GetRequest
  <2>8. CASE ExecuteOk(t)
    BY <2>8 DEF ExecuteOk
  <2>9. CASE ExecuteFail(t)
    BY <2>9 DEF ExecuteFail
  <2>10. CASE LockLeave(t)
    BY <2>10 DEF LockLeave
  <2>11. CASE Leave(t)
    BY <2>11 DEF Leave
  <2>12. CASE LoopTest(t)
    BY <2>12 DEF LoopTest
  <2> QED
    BY <1>2, <2>1, <2>2, <2>3, <2>4, <2>5, <2>6, <2>7, <2>8, <2>9, <2>10,
       <2>11, <2>12
    DEF RunnerStep
<1>3. ASSUME NEW t \in Threads, SpuriousWake(t) PROVE MutexInv'
  BY <1>3 DEF SpuriousWake
<1>4. CASE Expire
  BY <1>4 DEF Expire
<1>5. CASE UNCHANGED vars
  BY <1>5 DEF vars
<1> QED
  BY <1>1, <1>2, <1>3, <1>4, <1>5 DEF Next, Finished
-----------------------------------------------------------------------------
(* What QueueInv says of the shared data. *)
queueData == <<event_queue, event_queue_length, queue_is_full, queue_array,
               slot, gen_pc, generated, taken>>

(* A step that touches neither the queue nor the stamps keeps QueueInv if  *)
(* no runner begins to unlink and none enters a request.                   *)
LEMMA QuietStep ==
  ASSUME QueueInv, UNCHANGED <<queueData, queue_start_time>>,
         \A t \in Threads : pc'[t] = "unlink" => pc[t] = "unlink",
         \A t \in Threads : pc'[t] \in InRequest => pc[t] \in InRequest
  PROVE  QueueInv'
<1> USE DEF queueData
<1>1. FullInv' /\ RingInv' /\ StampInv'
  BY DEF QueueInv, FullInv, RingInv, StampInv, Back, Ahead, Linked
<1>2. HeadInv'
  BY DEF QueueInv, HeadInv
<1>3. DistinctEvents'
  BY DEF QueueInv, DistinctEvents
<1> QED BY <1>1, <1>2, <1>3 DEF QueueInv

(* Every step of the generator keeps QueueInv. *)
LEMMA QueueGenStep == IInv /\ TypeOK' /\ GeneratorStep => QueueInv'
<1> SUFFICES ASSUME IInv, TypeOK', GeneratorStep
             PROVE  QueueInv'
  OBVIOUS
<1>t. /\ event_queue \in Seq(Slots) /\ event_queue' \in Seq(Slots)
      /\ Len(event_queue) \in Nat
      /\ slot \in 0 .. MAX_QUEUE_LEN - 1
      /\ event_queue_length \in Nat /\ taken \in Nat /\ generated \in Nat
      /\ queue_array \in [Slots -> Nat]
      /\ MAX_QUEUE_LEN \in Nat \ {0}
      /\ pc \in [Threads -> RunPcs]
  BY EventQueueAssumption, LenProperties DEF IInv, TypeOK, Slots
<1>q. FullInv /\ RingInv /\ StampInv /\ HeadInv /\ DistinctEvents
  BY DEF IInv, QueueInv
<1> USE DEF GenGoto, genVars, runVars, listVars, countVars, Lock, Unlock
<1>1. CASE GenInit
  <2>1. event_queue' = event_queue /\ event_queue = << >>
    BY <1>1, <1>q DEF GenInit, FullInv
  <2>2. Len(event_queue) = 0
    BY <2>1
  <2>3. FullInv'
    BY <1>1, <2>1, <1>q, <1>t DEF GenInit, FullInv
  <2>4. RingInv' /\ StampInv'
    BY <1>1, <2>1, <2>2, <1>q, <1>t DEF GenInit, RingInv, StampInv, Linked
  <2>5. HeadInv' /\ DistinctEvents'
    BY <1>1, <2>1, <1>q DEF GenInit, HeadInv, DistinctEvents
  <2> QED BY <2>3, <2>4, <2>5 DEF QueueInv
<1>2. CASE GenStamp
  <2>1. \A k \in 1 .. Len(event_queue) : event_queue[k] # slot
    <3>1. Len(event_queue) < MAX_QUEUE_LEN
      BY <1>2, <1>q DEF GenStamp, FullInv
    <3>2. ASSUME NEW k \in 1 .. Len(event_queue)
          PROVE  event_queue[k] = Back(slot, Len(event_queue) - k + 1)
      BY <1>2, <1>q DEF GenStamp, RingInv, Ahead
    <3> QED BY <3>1, <3>2, <1>t DEF Back
  <2>2. \A k \in 1 .. Len(event_queue) : event_queue[k] \in Slots
    BY <1>t, ElementOfSeq
  <2>3. FullInv' /\ RingInv'
    BY <1>2, <1>q DEF GenStamp, FullInv, RingInv, Ahead, Back
  <2>4. \A k \in 1 .. Len(event_queue) :
           queue_array'[event_queue[k]] = queue_array[event_queue[k]]
    BY <1>2, <1>t, <2>1, <2>2 DEF GenStamp
  <2>5. StampInv'
    BY <1>2, <1>q, <1>t, <2>4 DEF GenStamp, StampInv, Linked, Slots
  <2>6. HeadInv' /\ DistinctEvents'
    BY <1>2, <1>q DEF GenStamp, HeadInv, DistinctEvents
  <2> QED BY <2>3, <2>5, <2>6 DEF QueueInv
<1>3. CASE GenLock
  <2>1. FullInv' /\ RingInv' /\ StampInv'
    BY <1>3, <1>q DEF GenLock, FullInv, RingInv, StampInv, Ahead, Back, Linked
  <2>2. HeadInv' /\ DistinctEvents'
    BY <1>3, <1>q DEF GenLock, HeadInv, DistinctEvents
  <2> QED BY <2>1, <2>2 DEF QueueInv
<1>4. CASE GenLink
  <2> DEFINE L == Len(event_queue)
  <2>1. /\ event_queue' = Append(event_queue, slot)
        /\ gen_pc = "link" /\ gen_pc' = "count"
        /\ UNCHANGED <<event_queue_length, queue_is_full, queue_array, slot,
                       generated, taken, pc, queue_start_time>>
    BY <1>4 DEF GenLink
  <2>2. /\ Len(event_queue') = L + 1
        /\ event_queue'[L + 1] = slot
        /\ \A k \in 1 .. L : event_queue'[k] = event_queue[k]
    BY <2>1, <1>t, AppendProperties DEF Slots
  <2>3. ~queue_is_full /\ L < MAX_QUEUE_LEN /\ L = event_queue_length
    <3>1. ~queue_is_full /\ gen_pc # "count"
      BY <2>1, <1>q DEF FullInv
    <3>2. L < MAX_QUEUE_LEN
      BY <3>1, <1>q DEF FullInv
    <3>3. L = event_queue_length
      BY <3>1, <1>q, <1>t DEF FullInv
    <3> QED BY <3>1, <3>2, <3>3
  <2>4. FullInv'
    <3>1. event_queue' # << >>
      BY <2>2, <1>t
    <3> QED BY <2>1, <2>2, <2>3, <3>1, <1>t DEF FullInv
  <2>5. RingInv'
    <3>1. \A k \in 1 .. L : event_queue[k] = Back(slot, L - k + 1)
      BY <2>1, <1>q DEF RingInv, Ahead
    <3>2. ASSUME NEW k \in 1 .. L + 1
          PROVE  event_queue'[k] = Back(slot, L + 1 - k)
      <4>1. CASE k = L + 1
        BY <4>1, <2>2, <1>t DEF Back
      <4>2. CASE k \in 1 .. L
        <5>1. L + 1 - k = L - k + 1
          BY <4>2, <1>t
        <5> QED BY <4>2, <5>1, <2>2, <3>1
      <4> QED BY <4>1, <4>2, <1>t
    <3>3. \A k \in 1 .. L + 1 : L + 1 - k + 0 = L + 1 - k
      BY <1>t
    <3> QED BY <3>2, <3>3, <2>1, <2>2 DEF RingInv, Ahead, Back
  <2>6. StampInv'
    <3>1. /\ \A k \in 1 .. L : queue_array[event_queue[k]] = taken + k
          /\ generated - 1 = taken + L
          /\ queue_array[slot] = generated
      BY <2>1, <1>q DEF StampInv, Linked
    <3>2. ASSUME NEW k \in 1 .. L + 1
          PROVE  queue_array[event_queue'[k]] = taken + k
      <4>1. CASE k = L + 1
        BY <4>1, <2>2, <3>1, <1>t
      <4>2. CASE k \in 1 .. L
        BY <4>2, <2>2, <3>1
      <4> QED BY <4>1, <4>2, <1>t
    <3> QED BY <2>1, <2>2, <3>1, <3>2, <1>t DEF StampInv, Linked
  <2>7. HeadInv' /\ DistinctEvents'
    <3>1. event_queue' # << >>
      BY <2>2, <1>t
    <3> QED BY <2>1, <3>1, <1>q DEF HeadInv, DistinctEvents
  <2> QED BY <2>4, <2>5, <2>6, <2>7 DEF QueueInv
<1>5. CASE GenCount
  <2>1. FullInv'
    <3>1. /\ gen_pc = "count" /\ gen_pc' = "signal"
          /\ event_queue' = event_queue
          /\ event_queue_length' = event_queue_length + 1
      BY <1>5 DEF GenCount
    <3>2. ~queue_is_full' => ~(event_queue_length + 1 >= MAX_QUEUE_LEN)
      BY <1>5, Zenon DEF GenCount
    <3>3. /\ Len(event_queue) = event_queue_length + 1
          /\ Len(event_queue) <= MAX_QUEUE_LEN
      BY <3>1, <1>q DEF FullInv
    <3>4. ~queue_is_full' => Len(event_queue) < MAX_QUEUE_LEN
      BY <3>2, <3>3, <1>t
    <3> QED BY <3>1, <3>3, <3>4, <1>t DEF FullInv
  <2>2. RingInv' /\ StampInv'
    BY <1>5, <1>q DEF GenCount, RingInv, StampInv, Ahead, Back, Linked
  <2>3. HeadInv' /\ DistinctEvents'
    BY <1>5, <1>q DEF GenCount, HeadInv, DistinctEvents
  <2> QED BY <2>1, <2>2, <2>3 DEF QueueInv
<1>6. CASE GenSignal
  <2>1. FullInv' /\ RingInv' /\ StampInv'
    BY <1>6, <1>q DEF GenSignal, FullInv, RingInv, StampInv, Ahead, Back, Linked
  <2>2. /\ \A t \in Threads : pc'[t] = "unlink" => pc[t] = "unlink"
        /\ \A t \in Threads : pc'[t] \in InRequest => pc[t] \in InRequest
    BY <1>6, <1>t DEF GenSignal, InRequest
  <2>3. HeadInv' /\ DistinctEvents'
    BY <1>6, <2>2, <1>q DEF GenSignal, HeadInv, DistinctEvents
  <2> QED BY <2>1, <2>3 DEF QueueInv
<1>7. CASE GenUnlock
  <2>1. FullInv' /\ RingInv' /\ StampInv'
    BY <1>7, <1>q DEF GenUnlock, FullInv, RingInv, StampInv, Ahead, Back, Linked
  <2>2. HeadInv' /\ DistinctEvents'
    BY <1>7, <1>q DEF GenUnlock, HeadInv, DistinctEvents
  <2> QED BY <2>1, <2>2 DEF QueueInv
<1>8. CASE GenReturn
  <2>1. FullInv' /\ RingInv' /\ StampInv'
    BY <1>8, <1>q DEF GenReturn, FullInv, RingInv, StampInv, Ahead, Back, Linked
  <2>2. HeadInv' /\ DistinctEvents'
    BY <1>8, <1>q DEF GenReturn, HeadInv, DistinctEvents
  <2> QED BY <2>1, <2>2 DEF QueueInv
<1>9. CASE GenAdvance
  <2>1. FullInv' /\ StampInv'
    BY <1>9, <1>q DEF GenAdvance, FullInv, StampInv, Linked
  <2>2. Len(event_queue) < MAX_QUEUE_LEN
    BY <1>9, <1>q DEF GenAdvance, FullInv
  <2>3. ASSUME NEW d \in 0 .. MAX_QUEUE_LEN - 1
        PROVE  Back(slot, d) = Back(slot', d + 1)
    BY <1>9, <1>t DEF GenAdvance, Back
  <2>4. ASSUME NEW k \in 1 .. Len(event_queue)
        PROVE  event_queue[k] = Back(slot', Len(event_queue) - k + 1)
    <3>1. event_queue[k] = Back(slot, Len(event_queue) - k + 0)
      BY <1>9, <1>q DEF GenAdvance, RingInv, Ahead
    <3>2. /\ Len(event_queue) - k \in 0 .. MAX_QUEUE_LEN - 1
          /\ Len(event_queue) - k + 0 = Len(event_queue) - k
      BY <2>2, <1>t
    <3> QED BY <3>1, <3>2, <2>3
  <2>5. RingInv'
    BY <1>9, <2>4 DEF GenAdvance, RingInv, Ahead, Back
  <2>6. HeadInv' /\ DistinctEvents'
    BY <1>9, <1>q DEF GenAdvance, HeadInv, DistinctEvents
  <2> QED BY <2>1, <2>5, <2>6 DEF QueueInv
<1>10. CASE GenCancel
  <2>1. FullInv' /\ RingInv' /\ StampInv'
    BY <1>10, <1>q DEF GenCancel, FullInv, RingInv, StampInv, Ahead, Back, Linked
  <2>2. HeadInv' /\ DistinctEvents'
    BY <1>10, <1>q DEF GenCancel, HeadInv, DistinctEvents
  <2> QED BY <2>1, <2>2 DEF QueueInv
<1> QED
  BY <1>1, <1>2, <1>3, <1>4, <1>5, <1>6, <1>7, <1>8, <1>9, <1>10
  DEF GeneratorStep

(* Every step of a runner keeps QueueInv. *)
LEMMA QueueRunStep ==
  ASSUME IInv, NEW t \in Threads, RunnerStep(t)
  PROVE  QueueInv'
<1>t. /\ event_queue \in Seq(Slots)
      /\ Len(event_queue) \in Nat
      /\ slot \in 0 .. MAX_QUEUE_LEN - 1
      /\ event_queue_length \in Nat /\ taken \in Nat /\ generated \in Nat
      /\ queue_start_time \in [Threads -> Nat]
      /\ MAX_QUEUE_LEN \in Nat \ {0}
      /\ pc \in [Threads -> RunPcs]
  BY EventQueueAssumption, LenProperties DEF IInv, TypeOK, Slots
<1>q. QueueInv /\ FullInv /\ RingInv /\ StampInv /\ HeadInv /\ DistinctEvents
  BY DEF IInv, QueueInv
<1>m. MutexInv
  BY DEF IInv
<1> USE DEF Goto, Lock, Unlock, genVars, runVars, listVars, countVars, InRequest,
            queueData
<1>1. CASE CheckFull(t)
  BY <1>1, <1>q, <1>t, QuietStep DEF CheckFull
<1>2. CASE Acquire(t)
  BY <1>2, <1>q, <1>t, QuietStep DEF Acquire
<1>3. CASE CondWait(t)
  BY <1>3, <1>q, <1>t, QuietStep DEF CondWait
<1>4. CASE TakeHead(t)
  <2>1. event_queue # << >>
    <3>1. gen_pc # "count"
      BY <1>4, <1>m, EventQueueAssumption DEF TakeHead, MutexInv
    <3>2. Len(event_queue) # 0
      BY <1>4, <1>q, <1>t, <3>1 DEF TakeHead, FullInv
    <3> QED BY <3>2
  <2>2. /\ pc' = [pc EXCEPT ![t] = "unlink"]
        /\ queue_start_time' =
             [queue_start_time EXCEPT ![t] = queue_array[Head(event_queue)]]
        /\ UNCHANGED queueData
        /\ pc[t] = "test"
    BY <1>4, <2>1, Zenon DEF TakeHead
  <2>3. queue_array[Head(event_queue)] = taken + 1
    <3>1. Head(event_queue) = event_queue[1] /\ 1 \in 1 .. Len(event_queue)
      BY <2>1, <1>t
    <3> QED BY <3>1, <1>q DEF StampInv
  <2>4. FullInv' /\ RingInv' /\ StampInv'
    BY <2>2, <1>q DEF FullInv, RingInv, StampInv, Back, Ahead, Linked
  <2>5. HeadInv'
    BY <2>1, <2>2, <2>3, <1>q, <1>t DEF HeadInv
  <2>6. DistinctEvents'
    BY <2>2, <1>q, <1>t DEF DistinctEvents
  <2> QED BY <2>4, <2>5, <2>6 DEF QueueInv
<1>5. CASE Unlink(t)
  <2> DEFINE L == Len(event_queue)
  <2>1. event_queue # << >> /\ queue_start_time[t] = taken + 1
    BY <1>5, <1>q DEF Unlink, HeadInv
  <2>2. /\ Len(Tail(event_queue)) = L - 1
        /\ L > 0
        /\ \A k \in 1 .. L - 1 : Tail(event_queue)[k] = event_queue[k + 1]
    BY <2>1, <1>t, HeadTailProperties
  <2>3. gen_pc # "count"
    BY <1>5, <1>m, EventQueueAssumption DEF Unlink, MutexInv
  <2>4. /\ pc' = [pc EXCEPT ![t] = "unlock"]
        /\ pc[t] = "unlink"
        /\ event_queue' = Tail(event_queue)
        /\ event_queue_length' = event_queue_length - 1
        /\ taken' = taken + 1
        /\ UNCHANGED <<queue_is_full, queue_array, slot, gen_pc, generated,
                       queue_start_time>>
    BY <1>5 DEF Unlink
  <2>5. FullInv'
    <3>1. /\ L = event_queue_length
          /\ L <= MAX_QUEUE_LEN
      BY <2>3, <1>q, <1>t DEF FullInv
    <3>2. gen_pc # "init"
      BY <2>1, <1>q DEF FullInv
    <3>3. gen_pc \in {"init", "sleep", "lock", "link", "count", "cancelled"}
            => ~queue_is_full
      BY <1>q DEF FullInv
    <3>4. /\ L - 1 = event_queue_length - 1
          /\ L - 1 < MAX_QUEUE_LEN
      BY <3>1, <2>2, <1>t
    <3> QED BY <2>2, <2>3, <2>4, <3>1, <3>2, <3>3, <3>4, <1>t DEF FullInv
  <2>6. RingInv'
    <3>1. Ahead \in {0, 1} /\ Ahead' = Ahead
      BY <2>4 DEF Ahead
    <3>2. ASSUME NEW k \in 1 .. L - 1
          PROVE  Tail(event_queue)[k] = Back(slot, L - 1 - k + Ahead)
      <4>1. k + 1 \in 1 .. L /\ L - (k + 1) + Ahead = L - 1 - k + Ahead
        BY <2>2, <1>t, <3>1
      <4>2. event_queue[k + 1] = Back(slot, L - (k + 1) + Ahead)
        BY <4>1, <1>q DEF RingInv
      <4> QED BY <4>1, <4>2, <2>2
    <3> QED BY <2>2, <2>4, <3>1, <3>2 DEF RingInv, Back
  <2>7. StampInv'
    <3>1. ASSUME NEW k \in 1 .. L - 1
          PROVE  queue_array[Tail(event_queue)[k]] = taken + 1 + k
      <4>1. k + 1 \in 1 .. L /\ taken + (k + 1) = taken + 1 + k
        BY <2>2, <1>t
      <4> QED BY <4>1, <2>2, <1>q DEF StampInv
    <3>2. Linked = taken + L /\ Linked' = Linked /\ taken + L = taken + 1 + (L - 1)
      BY <2>4, <1>q, <1>t DEF StampInv, Linked
    <3>3. gen_pc \in {"lock", "link"} => queue_array[slot] = generated
      BY <1>q DEF StampInv
    <3> QED BY <2>2, <2>4, <3>1, <3>2, <3>3 DEF StampInv
  <2>8. HeadInv'
    <3>1. \A u \in Threads : pc[u] = "unlink" => u = t
      BY <1>m, <2>4 DEF MutexInv
    <3> QED BY <2>4, <3>1, <1>t DEF HeadInv
  <2>9. DistinctEvents'
    <3>1. \A u \in Threads : pc'[u] \in InRequest /\ u # t =>
            pc[u] \in InRequest /\ queue_start_time[u] \in 1 .. taken
      BY <2>4, <1>q, <1>t DEF DistinctEvents
    <3>2. ASSUME NEW u \in Threads, pc'[u] \in InRequest
          PROVE  /\ queue_start_time'[u] \in 1 .. taken'
                 /\ \A v \in Threads : pc'[v] \in InRequest /\ v # u =>
                      queue_start_time'[v] # queue_start_time'[u]
      <4>1. CASE u = t
        BY <4>1, <3>1, <2>1, <2>4, <1>t
      <4>2. CASE u # t
        <5>1. queue_start_time'[u] \in 1 .. taken'
          BY <4>2, <3>1, <3>2, <2>4, <1>t
        <5>2. ASSUME NEW v \in Threads, pc'[v] \in InRequest, v # u
              PROVE  queue_start_time'[v] # queue_start_time'[u]
          <6>1. CASE v = t
            BY <4>2, <6>1, <3>1, <3>2, <2>1, <2>4, <1>t
          <6>2. CASE v # t
            BY <4>2, <5>2, <6>2, <3>1, <3>2, <2>4, <1>q DEF DistinctEvents
          <6> QED BY <6>1, <6>2
        <5> QED BY <5>1, <5>2
      <4> QED BY <4>1, <4>2
    <3> QED BY <3>2 DEF DistinctEvents
  <2> QED BY <2>5, <2>6, <2>7, <2>8, <2>9 DEF QueueInv
<1>6. CASE Release(t)
  BY <1>6, <1>q, <1>t, QuietStep DEF Release
<1>7. CASE GetRequest(t)
  BY <1>7, <1>q, <1>t, QuietStep DEF GetRequest
<1>8. CASE ExecuteOk(t)
  BY <1>8, <1>q, <1>t, QuietStep DEF ExecuteOk
<1>9. CASE ExecuteFail(t)
  BY <1>9, <1>q, <1>t, QuietStep DEF ExecuteFail
<1>10. CASE LockLeave(t)
  BY <1>10, <1>q, <1>t, QuietStep DEF LockLeave
<1>11. CASE Leave(t)
  BY <1>11, <1>q, <1>t, QuietStep DEF Leave
<1>12. CASE LoopTest(t)
  BY <1>12, <1>q, <1>t, QuietStep DEF LoopTest
<1> QED
  BY <1>1, <1>2, <1>3, <1>4, <1>5, <1>6, <1>7, <1>8, <1>9, <1>10, <1>11, <1>12
  DEF RunnerStep

(* The list, its counter, the ring, the stamps and the mutex hold together *)
(* in every reachable state.                                               *)
THEOREM InductiveInvariant == Spec => []IInv
<1>1. Init => IInv
  <2> SUFFICES ASSUME Init PROVE IInv
    OBVIOUS
  <2>1. TypeOK
    BY TypeInit
  <2>2. MutexInv
    BY EventQueueAssumption DEF Init, MutexInv
  <2>3. Len(event_queue) = 0
    BY DEF Init
  <2>4. FullInv /\ RingInv /\ StampInv
    BY <2>3, EventQueueAssumption DEF Init, FullInv, RingInv, StampInv, Linked
  <2>5. HeadInv /\ DistinctEvents
    BY DEF Init, HeadInv, DistinctEvents, InRequest
  <2> QED BY <2>1, <2>2, <2>4, <2>5 DEF IInv, QueueInv
<1>2. IInv /\ [Next]_vars => IInv'
  <2> SUFFICES ASSUME IInv, [Next]_vars PROVE IInv'
    OBVIOUS
  <2>1. TypeOK' /\ MutexInv'
    BY TypeStep, MutexStep
  <2>2. QueueInv'
    <3> USE DEF genVars, runVars, listVars, countVars, queueData
    <3>1. CASE GeneratorStep
      BY <3>1, <2>1, QueueGenStep
    <3>2. CASE \E t \in Threads : RunnerStep(t)
      BY <3>2, QueueRunStep
    <3>3. ASSUME NEW t \in Threads, SpuriousWake(t) PROVE QueueInv'
      BY <3>3, QuietStep DEF SpuriousWake, Goto, IInv, TypeOK, InRequest
    <3>4. CASE Expire
      BY <3>4, QuietStep DEF Expire, IInv
    <3>5. CASE UNCHANGED vars
      BY <3>5, QuietStep DEF vars, IInv
    <3> QED BY <3>1, <3>2, <3>3, <3>4, <3>5 DEF Next, Finished
  <2> QED BY <2>1, <2>2 DEF IInv
<1> QED BY <1>1, <1>2, PTL DEF Spec

(* Every variable of the tx-rate mode keeps its type; the ring index and   *)
(* every linked slot stay inside queue_array.                              *)
THEOREM TypeCorrect == Spec => []TypeOK
<1>1. IInv => TypeOK
  BY DEF IInv
<1> QED BY <1>1, InductiveInvariant, PTL

(* The generator never stamps or links a slot that is still in the list,   *)
(* whatever the ring size and however many runners there are.              *)
THEOREM SlotReuseSafe == Spec => []SlotFree
<1>1. IInv => SlotFree
  <2> SUFFICES ASSUME IInv, gen_pc \in {"sleep", "lock", "link"},
                      NEW k \in 1 .. Len(event_queue)
               PROVE  event_queue[k] # slot
    BY DEF SlotFree
  <2>1. /\ slot \in 0 .. MAX_QUEUE_LEN - 1 /\ Len(event_queue) \in Nat
        /\ MAX_QUEUE_LEN \in Nat
    BY EventQueueAssumption, LenProperties DEF IInv, TypeOK, Slots
  <2>2. Len(event_queue) < MAX_QUEUE_LEN
    BY DEF IInv, QueueInv, FullInv
  <2>3. event_queue[k] = Back(slot, Len(event_queue) - k + 1)
    BY DEF IInv, QueueInv, RingInv, Ahead
  <2> QED BY <2>1, <2>2, <2>3 DEF Back
<1> QED BY <1>1, InductiveInvariant, PTL

(* Events leave the queue once each and in the order they were generated,  *)
(* and the length the report thread prints under the mutex is the length   *)
(* of the list.                                                            *)
THEOREM FifoCorrect == Spec => []FifoOrder
<1>1. IInv => FifoOrder
  <2> SUFFICES ASSUME IInv PROVE FifoOrder
    OBVIOUS
  <2>1. event_queue_mutex = NoThread => gen_pc # "count"
    BY EventQueueAssumption DEF IInv, MutexInv
  <2>2. event_queue_mutex = NoThread => event_queue_length = Len(event_queue)
    BY <2>1 DEF IInv, TypeOK, QueueInv, FullInv
  <2> QED BY <2>2 DEF IInv, QueueInv, StampInv, FifoOrder
<1> QED BY <1>1, InductiveInvariant, PTL

(* No two runners serve the same event. *)
THEOREM EventsServedOnce == Spec => []DistinctEvents
<1>1. IInv => DistinctEvents
  BY DEF IInv, QueueInv
<1> QED BY <1>1, InductiveInvariant, PTL
-----------------------------------------------------------------------------
(* Wake-ups and counts.  The argument counts the runners at a set of       *)
(* program points before and after each step.                              *)

(* How many runners are at one of the points P. *)
Count(P) == Cardinality(At(Threads, pc, P))

(* Between the counting of the event that fills the queue and its signal   *)
(* the mutex is held, so the queue stays as full as it was.                *)
SignalInv ==
  gen_pc = "signal" /\ queue_is_full => event_queue_length = MAX_QUEUE_LEN

WakeInv == NoLostWakeup /\ NoStrandedWaiter /\ SignalInv /\ ConcurrencyAccounting
-----------------------------------------------------------------------------
LEMMA RunnersFinite == IsFiniteSet(Threads)
BY EventQueueAssumption

(* A count is a natural number, at most the number of runners. *)
LEMMA CountType ==
  ASSUME NEW P
  PROVE  /\ Count(P) \in Nat
         /\ Cardinality(Threads) \in Nat
         /\ Count(P) <= Cardinality(Threads)
BY CountNat, RunnersFinite DEF Count

LEMMA CountTypeNext ==
  ASSUME NEW P
  PROVE  /\ Count(P)' \in Nat
         /\ Cardinality(Threads) \in Nat
         /\ Count(P)' <= Cardinality(Threads)
BY CountNat, RunnersFinite DEF Count

(* A runner counted at P makes the count positive. *)
LEMMA CountPositive ==
  ASSUME NEW P, NEW t \in Threads, pc[t] \in P
  PROVE  Count(P) >= 1
<1>1. Count(P) \in Nat
  BY CountType
<1>2. Count(P) # 0
  BY CountZero, RunnersFinite DEF Count
<1> QED BY <1>1, <1>2

(* How a count changes when one runner moves from a point to another. *)
LEMMA CountMoveTo ==
  ASSUME NEW P, NEW t \in Threads,
         \A u \in Threads : u # t => pc'[u] = pc[u]
  PROVE  Cardinality(At(Threads, pc', P)) =
           Cardinality(At(Threads, pc, P)) + (IF pc'[t] \in P THEN 1 ELSE 0)
                                           - (IF pc[t] \in P THEN 1 ELSE 0)
BY CountMoves, RunnersFinite

LEMMA CountMove ==
  ASSUME TypeOK, NEW P, NEW t \in Threads, NEW x,
         pc' = [pc EXCEPT ![t] = x]
  PROVE  Count(P)' = Count(P) + (IF x \in P THEN 1 ELSE 0)
                              - (IF pc[t] \in P THEN 1 ELSE 0)
<1>1. pc'[t] = x /\ \A u \in Threads : u # t => pc'[u] = pc[u]
  BY DEF TypeOK
<1>2. Cardinality(At(Threads, pc', P)) =
        Cardinality(At(Threads, pc, P)) + (IF pc'[t] \in P THEN 1 ELSE 0)
                                        - (IF pc[t] \in P THEN 1 ELSE 0)
  BY <1>1, CountMoveTo
<1> QED BY <1>1, <1>2 DEF Count

(* If some runner is outside P after a step, not all runners are counted. *)
LEMMA CountProper ==
  ASSUME NEW P, NEW t \in Threads, pc'[t] \notin P
  PROVE  Count(P)' <= Cardinality(Threads) - 1
<1> DEFINE A == At(Threads, pc', P)
<1>1. IsFiniteSet(Threads) /\ Cardinality(Threads) \in Nat
  BY RunnersFinite, FS_CardinalityType
<1>2. A \in SUBSET (Threads \ {t})
  BY DEF At
<1>3. /\ IsFiniteSet(Threads \ {t})
      /\ Cardinality(Threads \ {t}) = Cardinality(Threads) - 1
  BY <1>1, FS_RemoveElement
<1>4. Cardinality(A) <= Cardinality(Threads \ {t})
  BY <1>2, <1>3, FS_Subset
<1> QED BY <1>3, <1>4 DEF Count
-----------------------------------------------------------------------------
(* The three counts the invariants are about. *)
AwakePcs   == {"relock", "test", "unlink"}
CountedPcs == InRequest \cup {"failed"}

(* The invariants in terms of counts. *)
LEMMA WakeInvCounts ==
  /\ NoLostWakeup <=>
       (Waiting # {} => event_queue_length <=
          Count(AwakePcs) + (IF gen_pc = "signal" THEN 1 ELSE 0))
  /\ NoStrandedWaiter <=>
       (Cardinality(Threads) <= MAX_QUEUE_LEN /\ queue_is_full
          /\ gen_pc # "signal"
        => Waiting = {} /\ Count(Committed) <= event_queue_length)
  /\ ConcurrencyAccounting <=> concurrency = Count(CountedPcs)
BY DEF NoLostWakeup, NoStrandedWaiter, ConcurrencyAccounting, Awake, Count,
       At, AwakePcs, CountedPcs

(* The same about the state after a step. *)
LEMMA WakeInvCountsNext ==
  /\ NoLostWakeup' <=>
       (Waiting' # {} => event_queue_length' <=
          Count(AwakePcs)' + (IF gen_pc' = "signal" THEN 1 ELSE 0))
  /\ NoStrandedWaiter' <=>
       (Cardinality(Threads) <= MAX_QUEUE_LEN /\ queue_is_full'
          /\ gen_pc' # "signal"
        => Waiting' = {} /\ Count(Committed)' <= event_queue_length')
  /\ ConcurrencyAccounting' <=> concurrency' = Count(CountedPcs)'
BY DEF NoLostWakeup, NoStrandedWaiter, ConcurrencyAccounting, Awake, Count,
       At, AwakePcs, CountedPcs

(* A step that leaves the program points alone and does not pass the       *)
(* signal.                                                                 *)
LEMMA WakeFrame ==
  ASSUME WakeInv,
         UNCHANGED <<pc, event_queue_length, queue_is_full, concurrency>>,
         gen_pc' = gen_pc \/ (gen_pc # "signal" /\ gen_pc' # "signal")
  PROVE  WakeInv'
<1>1. NoLostWakeup'
  BY DEF WakeInv, NoLostWakeup, Waiting, Awake
<1>2. NoStrandedWaiter'
  BY DEF WakeInv, NoStrandedWaiter, Waiting
<1>3. SignalInv' /\ ConcurrencyAccounting'
  BY DEF WakeInv, SignalInv, ConcurrencyAccounting
<1> QED BY <1>1, <1>2, <1>3 DEF WakeInv

(* The generator's steps. *)
LEMMA WakeGenStep == IInv /\ WakeInv /\ GeneratorStep => WakeInv'
<1> SUFFICES ASSUME IInv, WakeInv, GeneratorStep
             PROVE  WakeInv'
  OBVIOUS
<1>t. /\ event_queue_length \in Nat /\ MAX_QUEUE_LEN \in Nat \ {0}
      /\ queue_is_full \in BOOLEAN /\ TypeOK
      /\ Len(event_queue) \in Nat
  BY EventQueueAssumption, LenProperties DEF IInv, TypeOK
<1>c. \A P : Count(P) \in Nat /\ Count(P) <= Cardinality(Threads)
             /\ Cardinality(Threads) \in Nat
  BY CountType
<1>w. NoLostWakeup /\ NoStrandedWaiter /\ SignalInv /\ ConcurrencyAccounting
  BY DEF WakeInv
<1> USE DEF GenGoto, genVars, runVars, listVars, countVars, Lock, Unlock
<1>1. CASE GenInit \/ GenStamp \/ GenLock \/ GenLink \/ GenReturn \/ GenAdvance
           \/ GenCancel \/ GenUnlock
  BY <1>1, WakeFrame
  DEF GenInit, GenStamp, GenLock, GenLink, GenReturn, GenAdvance, GenCancel,
      GenUnlock
<1>2. CASE GenCount
  <2>1. /\ gen_pc = "count" /\ gen_pc' = "signal"
        /\ event_queue_length' = event_queue_length + 1
        /\ UNCHANGED <<pc, concurrency, event_queue>>
    BY <1>2 DEF GenCount
  <2>2. NoLostWakeup'
    <3>1. Count(AwakePcs)' = Count(AwakePcs) /\ Waiting' = Waiting
      BY <2>1 DEF Count, Waiting
    <3>2. Waiting # {} => event_queue_length <= Count(AwakePcs) + 0
      BY <2>1, <1>w, WakeInvCounts
    <3>3. Waiting' # {} => event_queue_length' <= Count(AwakePcs)' + 1
      BY <2>1, <3>1, <3>2, <1>c, <1>t
    <3> QED BY <2>1, <3>3, WakeInvCountsNext
  <2>3. NoStrandedWaiter'
    BY <2>1 DEF NoStrandedWaiter
  <2>4. SignalInv'
    <3>1. ~queue_is_full /\ event_queue_length + 1 <= MAX_QUEUE_LEN
      <4>1. ~queue_is_full
        BY <2>1 DEF IInv, QueueInv, FullInv
      <4>2. Len(event_queue) = event_queue_length + 1
        BY <2>1 DEF IInv, QueueInv, FullInv
      <4>3. Len(event_queue) <= MAX_QUEUE_LEN
        BY DEF IInv, QueueInv, FullInv
      <4> QED BY <4>1, <4>2, <4>3
    <3>2. queue_is_full' => event_queue_length + 1 >= MAX_QUEUE_LEN
      BY <1>2, <3>1, Zenon DEF GenCount
    <3> QED BY <2>1, <3>1, <3>2, <1>t DEF SignalInv
  <2>5. ConcurrencyAccounting'
    BY <2>1, <1>w DEF ConcurrencyAccounting
  <2> QED BY <2>2, <2>3, <2>4, <2>5 DEF WakeInv
<1>3. CASE GenSignal
  <2>1. /\ gen_pc = "signal" /\ gen_pc' = "unlock"
        /\ UNCHANGED <<event_queue_length, queue_is_full, concurrency>>
    BY <1>3 DEF GenSignal
  <2>2. NoLostWakeup' /\ ConcurrencyAccounting'
    <3>1. CASE Waiting = {}
      <4>1. UNCHANGED pc
        BY <1>3, <3>1 DEF GenSignal
      <4>2. Waiting' = {}
        BY <3>1, <4>1 DEF Waiting
      <4> QED BY <2>1, <4>1, <4>2, <1>w DEF NoLostWakeup, ConcurrencyAccounting
    <3>2. CASE Waiting # {}
      <4>1. PICK t \in Waiting : pc' = [pc EXCEPT ![t] = "relock"]
        BY <1>3, <3>2 DEF GenSignal
      <4>2. t \in Threads /\ pc[t] = "wait"
        BY <4>1 DEF Waiting
      <4>3. Count(AwakePcs)' = Count(AwakePcs) + 1
        <5>1. Count(AwakePcs)' = Count(AwakePcs)
                + (IF "relock" \in AwakePcs THEN 1 ELSE 0)
                - (IF pc[t] \in AwakePcs THEN 1 ELSE 0)
          BY <4>1, <4>2, <1>t, CountMove
        <5> QED BY <5>1, <4>2, <1>c DEF AwakePcs
      <4>4. Count(CountedPcs)' = Count(CountedPcs)
        <5>1. Count(CountedPcs)' = Count(CountedPcs)
                + (IF "relock" \in CountedPcs THEN 1 ELSE 0)
                - (IF pc[t] \in CountedPcs THEN 1 ELSE 0)
          BY <4>1, <4>2, <1>t, CountMove
        <5> QED BY <5>1, <4>2, <1>c DEF CountedPcs, InRequest
      <4>5. event_queue_length <= Count(AwakePcs) + 1
        BY <2>1, <3>2, <1>w, WakeInvCounts
      <4>6. event_queue_length' <= Count(AwakePcs)' + 0
        BY <2>1, <4>3, <4>5, <1>c, <1>t
      <4>7. NoLostWakeup'
        BY <2>1, <4>6, WakeInvCountsNext
      <4>8. ConcurrencyAccounting'
        <5>1. concurrency = Count(CountedPcs)
          BY <1>w, WakeInvCounts
        <5>2. concurrency' = Count(CountedPcs)'
          BY <2>1, <4>4, <5>1
        <5> QED BY <5>2, WakeInvCountsNext
      <4> QED BY <4>7, <4>8
    <3> QED BY <3>1, <3>2
  <2>3. NoStrandedWaiter'
    <3> SUFFICES ASSUME Cardinality(Threads) <= MAX_QUEUE_LEN, queue_is_full'
                 PROVE  Waiting' = {} /\ Count(Committed)' <= event_queue_length'
      BY WakeInvCountsNext
    <3>1. event_queue_length' = MAX_QUEUE_LEN
      BY <2>1, <1>w DEF SignalInv
    <3>2. /\ Count(Committed)' <= Cardinality(Threads)
          /\ Count(Committed)' \in Nat
          /\ Count(AwakePcs)' \in Nat
          /\ Cardinality(Threads) \in Nat
      BY CountTypeNext
    <3>3. ASSUME Waiting' # {} PROVE FALSE
      <4>1. PICK t \in Threads : pc'[t] = "wait"
        BY <3>3 DEF Waiting
      <4>2. event_queue_length' <= Count(AwakePcs)' + 0
        <5>1. Waiting' # {} => event_queue_length' <=
                Count(AwakePcs)' + (IF gen_pc' = "signal" THEN 1 ELSE 0)
          BY <2>2, WakeInvCountsNext
        <5> QED BY <5>1, <3>3, <2>1
      <4>3. Count(AwakePcs)' <= Cardinality(Threads) - 1
        <5>1. pc'[t] \notin AwakePcs
          BY <4>1 DEF AwakePcs
        <5> QED BY <5>1, <4>1, CountProper
      <4> QED BY <3>1, <3>2, <4>2, <4>3, <1>t
    <3> QED BY <3>1, <3>2, <3>3, <1>t
  <2>4. SignalInv'
    BY <2>1 DEF SignalInv
  <2> QED BY <2>2, <2>3, <2>4 DEF WakeInv
<1> QED BY <1>1, <1>2, <1>3 DEF GeneratorStep

(* A runner moves without touching the queue: it does not park, does not   *)
(* fall asleep after being woken and does not commit to a full queue.      *)
LEMMA WakeMove ==
  ASSUME TypeOK, WakeInv, NEW t \in Threads, NEW x \in RunPcs,
         pc' = [pc EXCEPT ![t] = x],
         UNCHANGED <<event_queue_length, queue_is_full, gen_pc>>,
         x # "wait",
         pc[t] \in AwakePcs => x \in AwakePcs,
         x \in Committed /\ queue_is_full => pc[t] \in Committed,
         concurrency' = concurrency + (IF x \in CountedPcs THEN 1 ELSE 0)
                                    - (IF pc[t] \in CountedPcs THEN 1 ELSE 0)
  PROVE  WakeInv'
<1>t. event_queue_length \in Nat /\ concurrency \in Int
  BY DEF TypeOK
<1>c. \A P : Count(P) \in Nat
  BY CountType
<1>w. NoLostWakeup /\ NoStrandedWaiter /\ SignalInv /\ ConcurrencyAccounting
  BY DEF WakeInv
<1>1. Waiting' \subseteq Waiting
  BY DEF Waiting, TypeOK
<1>2. \A P : Count(P)' = Count(P) + (IF x \in P THEN 1 ELSE 0)
                                  - (IF pc[t] \in P THEN 1 ELSE 0)
  BY CountMove
<1>3. NoLostWakeup'
  <2>1. Count(AwakePcs)' >= Count(AwakePcs)
    <3>1. Count(AwakePcs)' = Count(AwakePcs)
             + (IF x \in AwakePcs THEN 1 ELSE 0)
             - (IF pc[t] \in AwakePcs THEN 1 ELSE 0)
      BY <1>2
    <3>2. Count(AwakePcs) \in Nat
      BY <1>c
    <3> QED BY <3>1, <3>2
  <2>2. Waiting # {} => event_queue_length <=
          Count(AwakePcs) + (IF gen_pc = "signal" THEN 1 ELSE 0)
    BY <1>w, WakeInvCounts
  <2>3. Count(AwakePcs) \in Nat /\ Count(AwakePcs)' \in Nat
    BY CountType, CountTypeNext
  <2>4. Waiting' # {} => event_queue_length' <=
          Count(AwakePcs)' + (IF gen_pc' = "signal" THEN 1 ELSE 0)
    BY <2>1, <2>2, <2>3, <1>1, <1>t
  <2> QED BY <2>4, WakeInvCountsNext
<1>4. NoStrandedWaiter'
  <2> SUFFICES ASSUME Cardinality(Threads) <= MAX_QUEUE_LEN, queue_is_full',
                      gen_pc' # "signal"
               PROVE  Waiting' = {} /\ Count(Committed)' <= event_queue_length'
    BY WakeInvCountsNext
  <2>1. Waiting = {} /\ Count(Committed) <= event_queue_length
    BY <1>w, WakeInvCounts
  <2>2. Count(Committed)' = Count(Committed)
             + (IF x \in Committed THEN 1 ELSE 0)
             - (IF pc[t] \in Committed THEN 1 ELSE 0)
    BY <1>2
  <2>3. Count(Committed) \in Nat
    BY <1>c
  <2>4. x \in Committed => pc[t] \in Committed
    OBVIOUS
  <2> QED BY <2>1, <2>2, <2>3, <2>4, <1>1, <1>t
<1>5. SignalInv'
  BY <1>w DEF SignalInv
<1>6. ConcurrencyAccounting'
  <2>1. concurrency = Count(CountedPcs)
    BY <1>w, WakeInvCounts
  <2>2. Count(CountedPcs)' = Count(CountedPcs)
             + (IF x \in CountedPcs THEN 1 ELSE 0)
             - (IF pc[t] \in CountedPcs THEN 1 ELSE 0)
    BY <1>2
  <2>3. concurrency' = Count(CountedPcs)'
    BY <2>1, <2>2
  <2> QED BY <2>3, WakeInvCountsNext
<1> QED BY <1>3, <1>4, <1>5, <1>6 DEF WakeInv

(* The runners' steps. *)
LEMMA WakeRunStep ==
  ASSUME IInv, WakeInv, NEW t \in Threads, RunnerStep(t)
  PROVE  WakeInv'
<1>t. /\ TypeOK /\ MutexInv /\ pc[t] \in RunPcs /\ pc \in [Threads -> RunPcs]
      /\ event_queue_length \in Nat /\ concurrency \in Int
      /\ event_queue \in Seq(Slots) /\ Len(event_queue) \in Nat
  BY LenProperties DEF IInv, TypeOK
<1>w. NoLostWakeup /\ NoStrandedWaiter /\ SignalInv /\ ConcurrencyAccounting
  BY DEF WakeInv
<1>c. \A P : Count(P) \in Nat
  BY CountType
<1> USE DEF Goto, Lock, Unlock, genVars, runVars, listVars, countVars
<1> DEFINE Quiet(x) ==
      /\ x \in RunPcs
      /\ pc' = [pc EXCEPT ![t] = x]
      /\ UNCHANGED <<event_queue_length, queue_is_full, gen_pc>>
      /\ x # "wait"
      /\ pc[t] \in AwakePcs => x \in AwakePcs
      /\ x \in Committed /\ queue_is_full => pc[t] \in Committed
      /\ concurrency' = concurrency + (IF x \in CountedPcs THEN 1 ELSE 0)
                                    - (IF pc[t] \in CountedPcs THEN 1 ELSE 0)
<1>q. ASSUME NEW x, Quiet(x) PROVE WakeInv'
  BY <1>q, <1>t, WakeMove
<1> USE DEF AwakePcs, Committed, CountedPcs, InRequest, RunPcs
<1>1. CASE CheckFull(t)
  <2>1. CASE queue_is_full
    <3>1. Quiet("done")
      BY <1>1, <2>1, <1>t DEF CheckFull
    <3> QED BY <3>1, <1>q
  <2>2. CASE ~queue_is_full
    <3>1. Quiet("lock")
      BY <1>1, <2>2, <1>t DEF CheckFull
    <3> QED BY <3>1, <1>q
  <2> QED BY <2>1, <2>2
<1>2. CASE Acquire(t)
  <2>1. Quiet("test")
    BY <1>2, <1>t DEF Acquire
  <2> QED BY <2>1, <1>q
<1>3. CASE CondWait(t)
  <2>1. /\ pc[t] = "test" /\ pc' = [pc EXCEPT ![t] = "wait"]
        /\ event_queue_length = 0
        /\ UNCHANGED <<event_queue_length, queue_is_full, gen_pc, concurrency>>
    BY <1>3 DEF CondWait
  <2>2. NoLostWakeup'
    <3>1. Count(AwakePcs)' \in Nat
      BY CountTypeNext
    <3>2. event_queue_length' <=
            Count(AwakePcs)' + (IF gen_pc' = "signal" THEN 1 ELSE 0)
      BY <2>1, <3>1
    <3> QED BY <3>2, WakeInvCountsNext
  <2>3. NoStrandedWaiter'
    <3>1. Count(Committed) >= 1
      BY <2>1, CountPositive
    <3>2. ~(Count(Committed) <= event_queue_length)
      BY <2>1, <3>1, <1>c
    <3>3. ~(Cardinality(Threads) <= MAX_QUEUE_LEN /\ queue_is_full
            /\ gen_pc # "signal")
      BY <3>2, <1>w, WakeInvCounts
    <3> QED BY <3>3, <2>1, WakeInvCountsNext
  <2>4. SignalInv'
    BY <2>1, <1>w DEF SignalInv
  <2>5. ConcurrencyAccounting'
    <3>1. Count(CountedPcs)' = Count(CountedPcs)
            + (IF "wait" \in CountedPcs THEN 1 ELSE 0)
            - (IF pc[t] \in CountedPcs THEN 1 ELSE 0)
      BY <2>1, <1>t, CountMove
    <3>2. concurrency = Count(CountedPcs) /\ Count(CountedPcs) \in Nat
      BY <1>w, <1>c, WakeInvCounts
    <3>3. concurrency' = Count(CountedPcs)'
      BY <2>1, <3>1, <3>2
    <3> QED BY <3>3, WakeInvCountsNext
  <2> QED BY <2>2, <2>3, <2>4, <2>5 DEF WakeInv
<1>4. CASE TakeHead(t)
  <2>1. event_queue # << >>
    <3>1. gen_pc # "count"
      BY <1>4, <1>t, EventQueueAssumption DEF TakeHead, MutexInv
    <3>2. Len(event_queue) # 0
      BY <1>4, <1>t, <3>1 DEF TakeHead, IInv, QueueInv, FullInv
    <3> QED BY <3>2
  <2>2. /\ pc' = [pc EXCEPT ![t] = "unlink"]
        /\ UNCHANGED <<event_queue_length, queue_is_full, gen_pc, concurrency>>
        /\ pc[t] = "test"
    BY <1>4, <2>1, Zenon DEF TakeHead
  <2>3. Quiet("unlink")
    BY <2>2, <1>t
  <2> QED BY <2>3, <1>q
<1>5. CASE Unlink(t)
  <2>1. /\ pc[t] = "unlink" /\ pc' = [pc EXCEPT ![t] = "unlock"]
        /\ event_queue_length' = event_queue_length - 1
        /\ concurrency' = concurrency + 1
        /\ UNCHANGED <<queue_is_full, gen_pc>>
    BY <1>5 DEF Unlink
  <2>2. \A P : Count(P)' = Count(P) + (IF "unlock" \in P THEN 1 ELSE 0)
                                    - (IF pc[t] \in P THEN 1 ELSE 0)
    BY <2>1, <1>t, CountMove
  <2>3. Waiting' = Waiting
    BY <2>1, <1>t DEF Waiting
  <2>4. NoLostWakeup'
    <3>1. Count(AwakePcs)' = Count(AwakePcs) + 0 - 1
      BY <2>1, <2>2
    <3>2. Count(AwakePcs) \in Nat
      BY <1>c
    <3>3. Waiting # {} => event_queue_length <=
            Count(AwakePcs) + (IF gen_pc = "signal" THEN 1 ELSE 0)
      BY <1>w, WakeInvCounts
    <3>4. Waiting' # {} => event_queue_length' <=
            Count(AwakePcs)' + (IF gen_pc' = "signal" THEN 1 ELSE 0)
      BY <2>1, <2>3, <3>1, <3>2, <3>3, <1>t
    <3> QED BY <3>4, WakeInvCountsNext
  <2>5. NoStrandedWaiter'
    <3>1. Count(Committed)' = Count(Committed) + 0 - 1
      BY <2>1, <2>2
    <3>2. Count(Committed) \in Nat
      BY <1>c
    <3>3. Cardinality(Threads) <= MAX_QUEUE_LEN /\ queue_is_full
            /\ gen_pc # "signal"
          => Waiting = {} /\ Count(Committed) <= event_queue_length
      BY <1>w, WakeInvCounts
    <3>4. Cardinality(Threads) <= MAX_QUEUE_LEN /\ queue_is_full'
            /\ gen_pc' # "signal"
          => Waiting' = {} /\ Count(Committed)' <= event_queue_length'
      BY <2>1, <2>3, <3>1, <3>2, <3>3, <1>t
    <3> QED BY <3>4, WakeInvCountsNext
  <2>6. SignalInv'
    <3>1. gen_pc # "signal"
      BY <2>1, <1>t, EventQueueAssumption DEF MutexInv
    <3> QED BY <2>1, <3>1 DEF SignalInv
  <2>7. ConcurrencyAccounting'
    <3>1. Count(CountedPcs)' = Count(CountedPcs) + 1 - 0
      BY <2>1, <2>2
    <3>2. concurrency = Count(CountedPcs) /\ Count(CountedPcs) \in Nat
      BY <1>w, <1>c, WakeInvCounts
    <3>3. concurrency' = Count(CountedPcs)'
      BY <2>1, <3>1, <3>2
    <3> QED BY <3>3, WakeInvCountsNext
  <2> QED BY <2>4, <2>5, <2>6, <2>7 DEF WakeInv
<1>6. CASE Release(t)
  <2>1. Quiet("request")
    BY <1>6, <1>t DEF Release
  <2> QED BY <2>1, <1>q
<1>7. CASE GetRequest(t)
  <2>1. CASE dispensed >= MaxRequests
    <3>1. Quiet("leave")
      BY <1>7, <2>1, <1>t DEF GetRequest
    <3> QED BY <3>1, <1>q
  <2>2. CASE ~(dispensed >= MaxRequests)
    <3>1. Quiet("execute")
      BY <1>7, <2>2, <1>t DEF GetRequest
    <3> QED BY <3>1, <1>q
  <2> QED BY <2>1, <2>2
<1>8. CASE ExecuteOk(t)
  <2>1. Quiet("leave")
    BY <1>8, <1>t DEF ExecuteOk
  <2> QED BY <2>1, <1>q
<1>9. CASE ExecuteFail(t)
  <2>1. Quiet("failed")
    BY <1>9, <1>t DEF ExecuteFail
  <2> QED BY <2>1, <1>q
<1>10. CASE LockLeave(t)
  <2>1. Quiet("dec")
    BY <1>10, <1>t DEF LockLeave
  <2> QED BY <2>1, <1>q
<1>11. CASE Leave(t)
  <2>1. Quiet("limit")
    BY <1>11, <1>t DEF Leave
  <2> QED BY <2>1, <1>q
<1>12. CASE LoopTest(t)
  <2>1. CASE expired \/ request_null[t] \/ error
    <3>1. /\ pc[t] = "limit" /\ pc' = [pc EXCEPT ![t] = "done"]
          /\ UNCHANGED <<event_queue_length, queue_is_full, gen_pc, concurrency>>
      BY <1>12, <2>1, Zenon DEF LoopTest
    <3>2. Quiet("done")
      BY <3>1, <1>t
    <3> QED BY <3>2, <1>q
  <2>2. CASE ~(expired \/ request_null[t] \/ error)
    <3>1. /\ pc[t] = "limit" /\ pc' = [pc EXCEPT ![t] = "check"]
          /\ UNCHANGED <<event_queue_length, queue_is_full, gen_pc, concurrency>>
      BY <1>12, <2>2, Zenon DEF LoopTest
    <3>2. Quiet("check")
      BY <3>1, <1>t
    <3> QED BY <3>2, <1>q
  <2> QED BY <2>1, <2>2
<1> QED
  BY <1>1, <1>2, <1>3, <1>4, <1>5, <1>6, <1>7, <1>8, <1>9, <1>10, <1>11, <1>12
  DEF RunnerStep

LEMMA WakeInvariant == Spec => []WakeInv
<1>1. Init => WakeInv
  <2> SUFFICES ASSUME Init PROVE WakeInv
    OBVIOUS
  <2>1. Waiting = {} /\ ~queue_is_full /\ gen_pc # "signal" /\ concurrency = 0
    BY DEF Init, Waiting
  <2>2. {t \in Threads : pc[t] \in CountedPcs} = {}
    BY DEF Init, CountedPcs, InRequest
  <2>3. ConcurrencyAccounting
    BY <2>1, <2>2, FS_EmptySet DEF ConcurrencyAccounting, CountedPcs
  <2> QED
    BY <2>1, <2>3 DEF WakeInv, NoLostWakeup, NoStrandedWaiter, SignalInv
<1>2. IInv /\ WakeInv /\ [Next]_vars => WakeInv'
  <2> SUFFICES ASSUME IInv, WakeInv, [Next]_vars PROVE WakeInv'
    OBVIOUS
  <2> USE DEF genVars, runVars, listVars, countVars
  <2>1. CASE GeneratorStep
    BY <2>1, WakeGenStep
  <2>2. CASE \E t \in Threads : RunnerStep(t)
    BY <2>2, WakeRunStep
  <2>3. ASSUME NEW t \in Threads, SpuriousWake(t) PROVE WakeInv'
    <3>1. /\ pc[t] = "wait" /\ pc' = [pc EXCEPT ![t] = "relock"]
          /\ UNCHANGED <<event_queue_length, queue_is_full, gen_pc, concurrency>>
          /\ TypeOK /\ concurrency \in Int
      BY <2>3 DEF SpuriousWake, Goto, IInv, TypeOK
    <3>2. /\ "relock" \in RunPcs /\ "relock" \in Committed
          /\ pc[t] \in Committed /\ pc[t] \notin AwakePcs
          /\ pc[t] \notin CountedPcs /\ "relock" \notin CountedPcs
      BY <3>1 DEF RunPcs, Committed, AwakePcs, CountedPcs, InRequest
    <3>3. concurrency' = concurrency + 0 - 0
      BY <3>1
    <3> QED BY <3>1, <3>2, <3>3, WakeMove
  <2>4. CASE Expire
    BY <2>4, WakeFrame DEF Expire
  <2>5. CASE UNCHANGED vars
    BY <2>5, WakeFrame DEF vars
  <2> QED BY <2>1, <2>2, <2>3, <2>4, <2>5 DEF Next, Finished
<1> QED BY <1>1, <1>2, InductiveInvariant, PTL DEF Spec

(* No wake-up is lost: as long as a runner is parked, every event of the   *)
(* queue has an awake runner of its own coming for it.                     *)
THEOREM NoWakeupLost == Spec => []NoLostWakeup
<1>1. WakeInv => NoLostWakeup
  BY DEF WakeInv
<1> QED BY <1>1, WakeInvariant, PTL

(* A full queue strands nobody: with at most MAX_QUEUE_LEN runners, when   *)
(* the generator has given up no runner is parked, nor will one ever be.   *)
THEOREM FullQueueStrandsNobody == Spec => []NoStrandedWaiter
<1>1. WakeInv => NoStrandedWaiter
  BY DEF WakeInv
<1> QED BY <1>1, WakeInvariant, PTL

(* concurrency is the number of runners in a request, plus one for every   *)
(* runner that left the loop because its request failed.                   *)
THEOREM ConcurrencyCorrect == Spec => []ConcurrencyAccounting
<1>1. WakeInv => ConcurrencyAccounting
  BY DEF WakeInv
<1> QED BY <1>1, WakeInvariant, PTL
-----------------------------------------------------------------------------
(* EventQueue implements EventFifo: linking a slot puts an event,          *)
(* unlinking the head gets it, and leaving the request, by the decrement   *)
(* or by the break after a failure, finishes it.  Every other step is      *)
(* invisible.                                                              *)

(* The events of the list and the event each runner serves, as EventFifo   *)
(* sees them.                                                              *)
Stamps  == [k \in 1 .. Len(event_queue) |-> queue_array[event_queue[k]]]
Serving == [t \in Threads |->
              IF pc[t] \in InRequest THEN queue_start_time[t] ELSE 0]

(* The stamps of n consecutive events that follow the first m. *)
Consecutive(m, n) == [k \in 1 .. n |-> m + k]

LEMMA ConsecutiveSeq ==
  ASSUME NEW m \in Nat, NEW n \in Nat
  PROVE  /\ Consecutive(m, n) \in Seq(Nat)
         /\ Len(Consecutive(m, n)) = n
         /\ \A k \in 1 .. n : Consecutive(m, n)[k] = m + k
<1>1. Consecutive(m, n) \in [1 .. n -> Nat]
  BY DEF Consecutive
<1>2. Consecutive(m, n) \in Seq(Nat)
  BY <1>1, SeqDef
<1>3. Len(Consecutive(m, n)) = n
  BY <1>2, LenProperties DEF Consecutive
<1> QED BY <1>2, <1>3 DEF Consecutive

(* Putting the next event. *)
LEMMA ConsecutiveAppend ==
  ASSUME NEW m \in Nat, NEW n \in Nat
  PROVE  Append(Consecutive(m, n), m + n + 1) = Consecutive(m, n + 1)
<1> DEFINE s == Consecutive(m, n)
           a == Append(s, m + n + 1)
           r == Consecutive(m, n + 1)
<1>1. /\ s \in Seq(Nat) /\ Len(s) = n
      /\ \A k \in 1 .. n : s[k] = m + k
  BY ConsecutiveSeq
<1>2. /\ r \in Seq(Nat) /\ Len(r) = n + 1
      /\ \A k \in 1 .. n + 1 : r[k] = m + k
  <2>1. n + 1 \in Nat
    OBVIOUS
  <2> QED BY <2>1, ConsecutiveSeq
<1> HIDE DEF s, r
<1>3. /\ a \in Seq(Nat) /\ Len(a) = n + 1
      /\ \A k \in 1 .. n : a[k] = s[k]
      /\ a[n + 1] = m + n + 1
  BY <1>1, AppendProperties
<1>4. \A k \in 1 .. n + 1 : a[k] = r[k]
  BY <1>1, <1>2, <1>3
<1> HIDE DEF a
<1>5. a = r
  BY <1>2, <1>3, <1>4, SeqEqual
<1> QED BY <1>5 DEF a, s, r

(* Getting the first event. *)
LEMMA ConsecutiveTail ==
  ASSUME NEW m \in Nat, NEW n \in Nat, n > 0
  PROVE  /\ Consecutive(m, n) # << >>
         /\ Head(Consecutive(m, n)) = m + 1
         /\ Tail(Consecutive(m, n)) = Consecutive(m + 1, n - 1)
<1> DEFINE s == Consecutive(m, n)
           r == Consecutive(m + 1, n - 1)
<1>1. /\ s \in Seq(Nat) /\ Len(s) = n
      /\ \A k \in 1 .. n : s[k] = m + k
  BY ConsecutiveSeq
<1>2. /\ r \in Seq(Nat) /\ Len(r) = n - 1
      /\ \A k \in 1 .. n - 1 : r[k] = m + 1 + k
  <2>1. m + 1 \in Nat /\ n - 1 \in Nat
    OBVIOUS
  <2> QED BY <2>1, ConsecutiveSeq
<1> HIDE DEF s, r
<1>3. s # << >> /\ Head(s) = s[1]
  BY <1>1
<1>4. /\ Tail(s) \in Seq(Nat) /\ Len(Tail(s)) = n - 1
      /\ \A k \in 1 .. n - 1 : Tail(s)[k] = s[k + 1]
  BY <1>1, <1>3, HeadTailProperties
<1>5. \A k \in 1 .. n - 1 : Tail(s)[k] = r[k]
  BY <1>1, <1>2, <1>4
<1>6. Tail(s) = r
  BY <1>2, <1>4, <1>5, SeqEqual
<1> QED BY <1>1, <1>3, <1>6 DEF s, r

(* In every reachable state the stamps of the list are consecutive. *)
LEMMA StampsConsecutive ==
  ASSUME IInv
  PROVE  Stamps = Consecutive(taken, Len(event_queue))
BY DEF IInv, QueueInv, StampInv, Stamps, Consecutive

LEMMA StampsConsecutiveNext ==
  ASSUME IInv'
  PROVE  Stamps' = Consecutive(taken', Len(event_queue'))
BY DEF IInv, QueueInv, StampInv, Stamps, Consecutive

(* A step that EventFifo does not see. *)
LEMMA Invisible ==
  ASSUME IInv, IInv', UNCHANGED <<event_queue, taken, Linked, Serving>>
  PROVE  UNCHANGED Fifo!vars
<1>1. Stamps' = Stamps
  BY StampsConsecutive, StampsConsecutiveNext
<1> QED BY <1>1 DEF Fifo!vars, Stamps, Serving

(* A runner that stays inside, or outside, its request. *)
LEMMA ServingMove ==
  ASSUME TypeOK, NEW t \in Threads, NEW x,
         pc' = [pc EXCEPT ![t] = x], UNCHANGED queue_start_time,
         x \in InRequest <=> pc[t] \in InRequest
  PROVE  Serving' = Serving
BY DEF Serving, TypeOK

(* Every step of EventQueue is a step of EventFifo or invisible to it. *)
LEMMA Simulation ==
  ASSUME IInv, IInv', [Next]_vars
  PROVE  [Fifo!Next]_(Fifo!vars)
<1>t. /\ TypeOK /\ pc \in [Threads -> RunPcs] /\ taken \in Nat
      /\ queue_start_time \in [Threads -> Nat]
      /\ event_queue \in Seq(Slots) /\ Len(event_queue) \in Nat
      /\ generated \in Nat /\ slot \in Slots
  BY LenProperties DEF IInv, TypeOK
<1>q. FullInv /\ StampInv /\ HeadInv /\ DistinctEvents /\ MutexInv
  BY DEF IInv, QueueInv
<1>s. Stamps = Consecutive(taken, Len(event_queue))
      /\ Stamps' = Consecutive(taken', Len(event_queue'))
  BY StampsConsecutive, StampsConsecutiveNext
<1> USE DEF GenGoto, Goto, Lock, Unlock, genVars, runVars, listVars, countVars
<1>1. CASE GeneratorStep
  <2>1. CASE GenLink
    <3>1. /\ gen_pc = "link" /\ gen_pc' = "count"
          /\ event_queue' = Append(event_queue, slot)
          /\ UNCHANGED <<generated, taken, pc, queue_start_time>>
      BY <2>1 DEF GenLink
    <3>2. Linked' = Linked + 1 /\ Linked = taken + Len(event_queue)
      BY <3>1, <1>q, <1>t DEF Linked, StampInv
    <3>3. Len(event_queue') = Len(event_queue) + 1
      BY <3>1, <1>t, AppendProperties
    <3>4. Len(event_queue) < MAX_QUEUE_LEN
      BY <3>1, <1>q DEF FullInv
    <3>5. Stamps' = Append(Stamps, Linked + 1)
      <4>1. Linked + 1 = taken + Len(event_queue) + 1
        BY <3>2
      <4> QED BY <4>1, <3>1, <3>3, <1>s, <1>t, ConsecutiveAppend
    <3>6. Len(Stamps) = Len(event_queue)
      BY <1>s, <1>t, ConsecutiveSeq
    <3>7. Serving' = Serving
      BY <3>1 DEF Serving
    <3>8. Fifo!Put
      BY <3>2, <3>4, <3>5, <3>6, <3>7 DEF Fifo!Put, Stamps, Serving
    <3> QED BY <3>8 DEF Fifo!Next
  <2>2. CASE GenSignal
    <3>1. UNCHANGED <<event_queue, taken, Linked, queue_start_time>>
      BY <2>2 DEF GenSignal, Linked
    <3>2. Serving' = Serving
      <4>1. CASE UNCHANGED pc
        BY <4>1, <3>1 DEF Serving
      <4>2. ASSUME NEW t \in Waiting, pc' = [pc EXCEPT ![t] = "relock"]
            PROVE  Serving' = Serving
        <5>1. t \in Threads /\ pc[t] = "wait"
          BY <4>2 DEF Waiting
        <5> QED BY <5>1, <4>2, <3>1, <1>t, ServingMove DEF InRequest
      <4> QED BY <2>2, <4>1, <4>2 DEF GenSignal
    <3> QED BY <3>1, <3>2, Invisible
  <2>3. CASE GenInit
    <3>1. event_queue' = event_queue
      BY <2>3, <1>q DEF GenInit, FullInv
    <3>2. UNCHANGED <<taken, Linked, Serving>>
      BY <2>3 DEF GenInit, Linked, Serving
    <3> QED BY <3>1, <3>2, Invisible
  <2>4. CASE GenStamp
    <3>1. UNCHANGED <<event_queue, taken, Linked, Serving>>
      BY <2>4, <1>t DEF GenStamp, Linked, Serving
    <3> QED BY <3>1, Invisible
  <2>5. CASE GenLock \/ GenCount \/ GenUnlock \/ GenReturn \/ GenAdvance
             \/ GenCancel
    <3>1. UNCHANGED <<event_queue, taken, Linked, Serving>>
      BY <2>5 DEF GenLock, GenCount, GenUnlock, GenReturn, GenAdvance, GenCancel,
                  Linked, Serving
    <3> QED BY <3>1, Invisible
  <2> QED BY <1>1, <2>1, <2>2, <2>3, <2>4, <2>5 DEF GeneratorStep
<1>2. ASSUME NEW t \in Threads, RunnerStep(t)
      PROVE  [Fifo!Next]_(Fifo!vars)
  <2>a. ASSUME NEW x, pc' = [pc EXCEPT ![t] = x],
               x \in InRequest <=> pc[t] \in InRequest,
               UNCHANGED <<event_queue, taken, gen_pc, generated,
                           queue_start_time>>
        PROVE  [Fifo!Next]_(Fifo!vars)
    <3>1. Serving' = Serving
      BY <2>a, <1>t, ServingMove
    <3>2. Linked' = Linked
      BY <2>a DEF Linked
    <3> QED BY <2>a, <3>1, <3>2, Invisible
  <2>b. ASSUME NEW x, pc' = [pc EXCEPT ![t] = x],
               x \notin InRequest, pc[t] \in InRequest,
               UNCHANGED <<event_queue, taken, gen_pc, generated,
                           queue_start_time>>
        PROVE  [Fifo!Next]_(Fifo!vars)
    <3>1. Linked' = Linked /\ Stamps' = Stamps
      BY <2>b, <1>s DEF Linked
    <3>2. Serving' = [Serving EXCEPT ![t] = 0]
      BY <2>b, <1>t DEF Serving
    <3>3. Serving[t] # 0
      <4>1. queue_start_time[t] \in 1 .. taken
        BY <2>b, <1>q DEF DistinctEvents
      <4>2. Serving[t] = queue_start_time[t]
        BY <2>b DEF Serving
      <4> QED BY <4>1, <4>2, <1>t
    <3>4. Fifo!Finish(t)
      BY <3>1, <3>2, <3>3 DEF Fifo!Finish, Serving, Stamps
    <3> QED BY <3>4 DEF Fifo!Next
  <2> USE DEF InRequest
  <2>1. CASE CheckFull(t)
    <3>1. CASE queue_is_full
      BY <2>1, <3>1, <2>a DEF CheckFull
    <3>2. CASE ~queue_is_full
      BY <2>1, <3>2, <2>a DEF CheckFull
    <3> QED BY <3>1, <3>2
  <2>2. CASE Acquire(t)
    BY <2>2, <2>a DEF Acquire
  <2>3. CASE CondWait(t)
    BY <2>3, <2>a DEF CondWait
  <2>4. CASE TakeHead(t)
    <3>1. event_queue # << >>
      <4>1. gen_pc # "count"
        BY <2>4, <1>q, EventQueueAssumption DEF TakeHead, MutexInv
      <4>2. Len(event_queue) # 0
        <5>1. event_queue_length \in Nat /\ event_queue_length # 0
          BY <2>4, <1>t DEF TakeHead, TypeOK
        <5> QED BY <5>1, <4>1, <1>q DEF FullInv
      <4> QED BY <4>2
    <3>2. /\ pc' = [pc EXCEPT ![t] = "unlink"] /\ pc[t] = "test"
          /\ queue_start_time' =
               [queue_start_time EXCEPT ![t] = queue_array[Head(event_queue)]]
          /\ UNCHANGED <<event_queue, taken, gen_pc, generated>>
      BY <2>4, <3>1, Zenon DEF TakeHead
    <3>3. Serving' = Serving
      BY <3>2, <1>t DEF Serving
    <3>4. Linked' = Linked
      BY <3>2 DEF Linked
    <3> QED BY <3>2, <3>3, <3>4, Invisible
  <2>5. CASE Unlink(t)
    <3>1. /\ pc[t] = "unlink" /\ pc' = [pc EXCEPT ![t] = "unlock"]
          /\ event_queue' = Tail(event_queue)
          /\ taken' = taken + 1
          /\ UNCHANGED <<gen_pc, generated, queue_start_time>>
      BY <2>5 DEF Unlink
    <3>2. event_queue # << >> /\ queue_start_time[t] = taken + 1
      BY <3>1, <1>q DEF HeadInv
    <3>3. /\ Len(event_queue) > 0
          /\ Len(event_queue') = Len(event_queue) - 1
      BY <3>1, <3>2, <1>t, HeadTailProperties
    <3>4. /\ Stamps # << >>
          /\ Head(Stamps) = taken + 1
          /\ Stamps' = Tail(Stamps)
      <4> DEFINE n == Len(event_queue)
                 C == Consecutive(taken, n)
      <4>1. C # << >> /\ Head(C) = taken + 1
            /\ Tail(C) = Consecutive(taken + 1, n - 1)
        BY <3>3, <1>t, ConsecutiveTail
      <4>2. Stamps = C /\ Stamps' = Consecutive(taken + 1, n - 1)
        BY <3>1, <3>3, <1>s, Zenon
      <4> HIDE DEF C
      <4> QED BY <4>1, <4>2, Zenon
    <3>5. Serving[t] = 0
      BY <3>1 DEF Serving
    <3>6. Serving' = [Serving EXCEPT ![t] = taken + 1]
      BY <3>1, <3>2, <1>t DEF Serving
    <3>7. Linked' = Linked
      BY <3>1 DEF Linked
    <3>8. Serving' = [Serving EXCEPT ![t] = Head(Stamps)]
      BY <3>4, <3>6
    <3>9. Fifo!Get(t)
      BY <3>4, <3>5, <3>7, <3>8 DEF Fifo!Get, Stamps, Serving
    <3> QED BY <3>9 DEF Fifo!Next
  <2>6. CASE Release(t)
    BY <2>6, <2>a DEF Release
  <2>7. CASE GetRequest(t)
    <3>1. CASE dispensed >= MaxRequests
      BY <2>7, <3>1, <2>a DEF GetRequest
    <3>2. CASE ~(dispensed >= MaxRequests)
      BY <2>7, <3>2, <2>a DEF GetRequest
    <3> QED BY <3>1, <3>2
  <2>8. CASE ExecuteOk(t)
    BY <2>8, <2>a DEF ExecuteOk
  <2>9. CASE ExecuteFail(t)
    BY <2>9, <2>b DEF ExecuteFail
  <2>10. CASE LockLeave(t)
    BY <2>10, <2>a DEF LockLeave
  <2>11. CASE Leave(t)
    BY <2>11, <2>b DEF Leave
  <2>12. CASE LoopTest(t)
    <3>1. /\ pc[t] = "limit"
          /\ \E x \in {"done", "check"} : pc' = [pc EXCEPT ![t] = x]
          /\ UNCHANGED <<event_queue, taken, gen_pc, generated,
                         queue_start_time>>
      BY <2>12, Zenon DEF LoopTest
    <3>2. PICK x \in {"done", "check"} : pc' = [pc EXCEPT ![t] = x]
      BY <3>1
    <3> QED BY <3>1, <3>2, <2>a
  <2> QED
    BY <1>2, <2>1, <2>2, <2>3, <2>4, <2>5, <2>6, <2>7, <2>8, <2>9, <2>10,
       <2>11, <2>12
    DEF RunnerStep
<1>3. ASSUME NEW t \in Threads, SpuriousWake(t)
      PROVE  [Fifo!Next]_(Fifo!vars)
  <2>1. Serving' = Serving
    BY <1>3, <1>t, ServingMove DEF SpuriousWake, InRequest
  <2>2. UNCHANGED <<event_queue, taken, Linked>>
    BY <1>3 DEF SpuriousWake, Linked
  <2> QED BY <2>1, <2>2, Invisible
<1>4. CASE Expire \/ UNCHANGED vars
  <2>1. UNCHANGED <<event_queue, taken, Linked, Serving>>
    BY <1>4 DEF Expire, vars, Linked, Serving
  <2> QED BY <2>1, Invisible
<1> QED BY <1>1, <1>2, <1>3, <1>4 DEF Next, Finished

(* The tx-rate mode is a bounded first-in first-out queue of events, each  *)
(* of which one runner serves.                                             *)
THEOREM ImplementsFifo == Spec => FifoSpec
<1>1. Init => Fifo!Init
  <2> SUFFICES ASSUME Init PROVE Fifo!Init
    OBVIOUS
  <2>1. Len(event_queue) = 0 /\ taken = 0
    BY DEF Init
  <2>2. Linked = 0
    BY DEF Init, Linked
  <2>3. \A t \in Threads : pc[t] \notin InRequest
    BY DEF Init, InRequest
  <2>4. Stamps = << >>
    BY <2>1 DEF Stamps
  <2> QED BY <2>2, <2>3, <2>4 DEF Fifo!Init, Stamps
<1>2. IInv /\ IInv' /\ [Next]_vars => [Fifo!Next]_(Fifo!vars)
  BY Simulation
<1> QED BY <1>1, <1>2, InductiveInvariant, PTL DEF Spec, FifoSpec, Fifo!Spec
=============================================================================
