--------------------------- MODULE RequestsProofs ---------------------------
(***************************************************************************)
(* What Requests promises, for any number of runners, requests, reports    *)
(* and checkpoints: the cumulative reports of the memory test divide the   *)
(* transfer, the tests that keep their limits keep them exactly, and the   *)
(* others exceed them by no more than is said.                             *)
(***************************************************************************)
EXTENDS Requests, ThreadLemmas

(* The numbers, and the places of the runners in the loop of the test. *)
TypesInv ==
  /\ cfg \in Configs
  /\ pc \in [Threads -> {"get", "count", "exec", "yield", "lock", "store",
                    "done"}]
  /\ \A t \in Threads : /\ pc[t] = "count" => cfg.test = "cpu"
                        /\ pc[t] = "yield" => cfg.test = "threads"
                        /\ pc[t] \in {"lock", "store"} => cfg.test = "mutex"
  /\ stage \in {"start", "run", "done", "failed"}
  /\ left \in [Threads -> Int]
  /\ loaded \in [Threads -> Nat]
  /\ req_performed \in Nat /\ global_var \in Nat /\ total_bytes \in Nat
  /\ granted \in Nat /\ rounds \in Nat /\ reported \in Nat
  /\ checkpoints \in Nat

(* The bytes handed out. *)
Transferred == granted * cfg.block

(* A checkpoint holds exec_mutex from its report until it has cleared what *)
(* it reported, and meanwhile nothing is counted; run_test prints and      *)
(* clears without the mutex, but when the runners have ended.              *)
PrintersInv ==
  /\ clearing \in SUBSET {"checkpoint", "master"}
  /\ overlap \in BOOLEAN
  /\ clearing # {} => cfg.test = "memory"
  /\ "checkpoint" \in clearing => exec_mutex = "checkpoint"
  /\ "master" \in clearing =>
       stage = "run" /\ \A t \in Threads : pc[t] = "done"
  /\ stage \in {"start", "failed"} => clearing = {}

(* Until run_test has printed nothing is reported twice, and afterwards    *)
(* nothing is missing.                                                     *)
PartitionInv ==
  /\ PrintersInv
  /\ cfg.test = "memory" =>
       IF stage = "done" \/ "master" \in clearing
         THEN /\ reported >= Transferred
              /\ ~overlap => reported = Transferred
              /\ stage = "done" => total_bytes = 0
         ELSE /\ reported + (IF clearing = {} THEN total_bytes ELSE 0)
                   = Transferred
              /\ ~overlap

(* When a run is over all runners are, and each of them saw the limit or   *)
(* the end of the time.                                                    *)
DoneInv ==
  /\ expired \in BOOLEAN
  /\ stage = "done" => \A t \in Threads : pc[t] = "done"
  /\ req_performed <= granted
  /\ cfg.test \in {"cpu", "threads"} =>
       \A t \in Threads : pc[t] = "done" => expired \/ granted >= max_requests

(* The runners between the test and the increment are counted in advance.  *)
CpuInv ==
  cfg.test = "cpu" /\ max_requests > 0 =>
    /\ req_performed = granted
    /\ granted + Cardinality(At(Threads, pc, {"count"}))
         <= max_requests + Cardinality(Threads) - 1

ThreadsInv ==
  cfg.test = "threads" /\ max_requests > 0 =>
    req_performed = granted /\ granted <= max_requests

(* The rounds of one request of the mutex test, and those a runner has     *)
(* still to make.                                                          *)
Rounds == IF cfg.locks = 0 THEN UINT ELSE cfg.locks

Rest ==
  [t \in Threads |->
     IF pc[t] = "done" THEN 0
     ELSE IF pc[t] = "get" THEN Rounds
     ELSE IF left[t] = 0 THEN UINT ELSE left[t]]

MutexInv ==
  cfg.test = "mutex" =>
    /\ granted + Cardinality(At(Threads, pc, {"get"})) = Cardinality(Threads)
    /\ \A t \in Threads : left[t] \in 0 .. UINT - 1
    /\ rounds + Tally(Threads, Rest) = Cardinality(Threads) * Rounds
    /\ rounds < UINT =>
         /\ global_var <= rounds
         /\ rounds > 0 => global_var > 0
         /\ \A t \in Threads : loaded[t] <= rounds

(* Between two checkpoints the memory test transfers at most its total     *)
(* size in whole blocks.                                                   *)
MemoryInv ==
  cfg.test = "memory" =>
    /\ \E k \in Nat : total_bytes = k * cfg.block
    /\ total_bytes <= RoundUp(cfg.total, cfg.block)
    /\ stage # "done" /\ "master" \notin clearing =>
         reported <= checkpoints * RoundUp(cfg.total, cfg.block)
    /\ Transferred <= (checkpoints + 1) * RoundUp(cfg.total, cfg.block)

(* The inductive invariant of every run, ... *)
IInv == TypesInv /\ PartitionInv /\ DoneInv

(* ... and, beside it, that of the runs whose limits make sense. *)
LimitInv == CpuInv /\ ThreadsInv /\ MutexInv /\ MemoryInv
-----------------------------------------------------------------------------
(* The options are of the type of the test. *)
LEMMA ConfigFacts ==
  ASSUME TypesInv
  PROVE  /\ cfg.test \in {"cpu", "threads", "mutex", "memory"}
         /\ cfg.test = "threads" => cfg.yields \in Nat /\ cfg.locks \in Nat \ {0}
         /\ cfg.test = "mutex" => cfg.locks \in Nat
         /\ cfg.test = "memory" => cfg.block \in Nat /\ cfg.total \in Nat
BY RequestsAssumption DEF TypesInv, Config

(* Arithmetic on unsigned ints. *)
LEMMA ModFacts ==
  ASSUME NEW x \in Int
  PROVE  /\ x % UINT \in 0 .. UINT - 1
         /\ x \in 0 .. UINT - 1 => x % UINT = x
         /\ x \in Nat => x % UINT <= x
BY RequestsAssumption

(* A runner takes the steps of the test only. *)
LEMMA StepsByTest ==
  ASSUME TypesInv, NEW t \in Threads, RunnerStep(t)
  PROVE  /\ stage = "run" /\ pc[t] # "done"
         /\ UNCHANGED <<cfg, stage, expired, exec_mutex, clearing, checkpoints>>
         /\ \A u \in Threads : u # t => pc'[u] = pc[u]
         /\ cfg.test = "cpu" =>
              CpuTest(t) \/ CpuCount(t) \/ cpu_execute_request(t)
         /\ cfg.test = "threads" =>
              \/ ThreadsGet(t) \/ ThreadsLock(t) \/ ThreadsUnlock(t)
              \/ ThreadsDone(t)
         /\ cfg.test = "mutex" =>
              MutexGet(t) \/ MutexPick(t) \/ MutexLock(t) \/ MutexUnlock(t)
         /\ cfg.test = "memory" => MemoryGet(t) \/ memory_execute_request(t)
<1>1. /\ stage = "run" /\ pc[t] # "done"
      /\ UNCHANGED <<cfg, stage, expired, exec_mutex, clearing, checkpoints>>
  BY DEF RunnerStep, CpuTest, CpuCount, cpu_execute_request, ThreadsGet,
     ThreadsLock, ThreadsUnlock, ThreadsDone, MutexGet, MutexPick, MutexLock,
     MutexUnlock, MemoryGet, memory_execute_request, Goto, Executed, UnchangedByLoop
<1>2. \A u \in Threads : u # t => pc'[u] = pc[u]
  <2>1. \E to : pc' = [pc EXCEPT ![t] = to]
    BY DEF RunnerStep, CpuTest, CpuCount, cpu_execute_request, ThreadsGet,
       ThreadsLock, ThreadsUnlock, ThreadsDone, MutexGet, MutexPick, MutexLock,
       MutexUnlock, MemoryGet, memory_execute_request, Goto, Executed
  <2> QED BY <2>1 DEF TypesInv
<1>3. /\ CpuCount(t) => pc[t] = "count"
      /\ ThreadsUnlock(t) => pc[t] = "yield"
      /\ MutexLock(t) => pc[t] = "lock"
      /\ MutexUnlock(t) => pc[t] = "store"
  BY DEF CpuCount, ThreadsUnlock, MutexLock, MutexUnlock, Goto, Executed
<1>4. /\ CpuCount(t) => cfg.test = "cpu"
      /\ ThreadsUnlock(t) => cfg.test = "threads"
      /\ MutexLock(t) \/ MutexUnlock(t) => cfg.test = "mutex"
  BY <1>3 DEF TypesInv
<1>5. /\ CpuTest(t) \/ cpu_execute_request(t) => cfg.test = "cpu"
      /\ ThreadsGet(t) \/ ThreadsLock(t) \/ ThreadsDone(t) =>
           cfg.test = "threads"
      /\ MutexGet(t) \/ MutexPick(t) => cfg.test = "mutex"
      /\ MemoryGet(t) \/ memory_execute_request(t) => cfg.test = "memory"
  BY DEF CpuTest, cpu_execute_request, ThreadsGet, ThreadsLock, ThreadsDone,
     MutexGet, MutexPick, MemoryGet, memory_execute_request
<1> QED BY <1>1, <1>2, <1>4, <1>5 DEF RunnerStep

(* What a step of the cpu test does to the place and the numbers. *)
LEMMA CpuFacts ==
  ASSUME TypesInv, NEW t \in Threads, RunnerStep(t), cfg.test = "cpu"
  PROVE  /\ UNCHANGED <<workVars, statVars>>
         /\ \/ /\ pc[t] = "get" /\ pc' = [pc EXCEPT ![t] = "done"]
               /\ LimitReached
               /\ UNCHANGED <<req_performed, granted>>
            \/ /\ pc[t] = "get" /\ pc' = [pc EXCEPT ![t] = "count"]
               /\ ~LimitReached
               /\ UNCHANGED <<req_performed, granted>>
            \/ /\ pc[t] = "count" /\ pc' = [pc EXCEPT ![t] = "exec"]
               /\ req_performed' = (req_performed + 1) % UINT
               /\ granted' = granted + 1
            \/ /\ pc[t] = "exec" /\ pc' = [pc EXCEPT ![t] = "done"]
               /\ expired
               /\ UNCHANGED <<req_performed, granted>>
            \/ /\ pc[t] = "exec" /\ pc' = [pc EXCEPT ![t] = "get"]
               /\ UNCHANGED <<req_performed, granted>>
<1>1. CASE CpuTest(t)
  BY <1>1, Zenon DEF CpuTest, Goto
<1>2. CASE CpuCount(t)
  BY <1>2, Zenon DEF CpuCount, Goto
<1>3. CASE cpu_execute_request(t)
  BY <1>3, Zenon DEF cpu_execute_request, Executed, Goto
<1> QED BY <1>1, <1>2, <1>3, StepsByTest, Zenon

(* The same for the threads test. *)
LEMMA ThreadsFacts ==
  ASSUME TypesInv, NEW t \in Threads, RunnerStep(t), cfg.test = "threads"
  PROVE  /\ UNCHANGED <<statVars, global_var, loaded, rounds>>
         /\ left' \in [Threads -> Int]
         /\ \/ /\ pc[t] = "get" /\ pc' = [pc EXCEPT ![t] = "done"]
               /\ LimitReached
               /\ UNCHANGED <<req_performed, granted>>
            \/ /\ pc[t] = "get" /\ pc' = [pc EXCEPT ![t] = "exec"]
               /\ ~LimitReached
               /\ req_performed' = (req_performed + 1) % UINT
               /\ granted' = granted + 1
            \/ /\ pc[t] = "exec" /\ pc' = [pc EXCEPT ![t] = "yield"]
               /\ UNCHANGED <<req_performed, granted>>
            \/ /\ pc[t] = "yield" /\ pc' = [pc EXCEPT ![t] = "exec"]
               /\ UNCHANGED <<req_performed, granted>>
            \/ /\ pc[t] = "exec" /\ pc' = [pc EXCEPT ![t] = "done"]
               /\ expired
               /\ UNCHANGED <<req_performed, granted>>
            \/ /\ pc[t] = "exec" /\ pc' = [pc EXCEPT ![t] = "get"]
               /\ UNCHANGED <<req_performed, granted>>
<1>1. left' \in [Threads -> Int]
  <2>1. CASE ThreadsGet(t)
    BY <2>1, ConfigFacts DEF ThreadsGet, TypesInv
  <2>2. CASE ThreadsUnlock(t)
    BY <2>2 DEF ThreadsUnlock, TypesInv
  <2>3. CASE ThreadsLock(t) \/ ThreadsDone(t)
    BY <2>3 DEF ThreadsLock, ThreadsDone, TypesInv, workVars
  <2> QED BY <2>1, <2>2, <2>3, StepsByTest
<1>2. CASE ThreadsGet(t)
  BY <1>1, <1>2, Zenon DEF ThreadsGet, Goto
<1>3. CASE ThreadsLock(t)
  BY <1>1, <1>3, Zenon DEF ThreadsLock, Goto
<1>4. CASE ThreadsUnlock(t)
  BY <1>1, <1>4, Zenon DEF ThreadsUnlock, Goto
<1>5. CASE ThreadsDone(t)
  BY <1>1, <1>5, Zenon DEF ThreadsDone, Executed, Goto, workVars
<1> QED BY <1>2, <1>3, <1>4, <1>5, StepsByTest, Zenon

(* The same for the mutex test. *)
LEMMA MutexFacts ==
  ASSUME TypesInv, NEW t \in Threads, RunnerStep(t), cfg.test = "mutex"
  PROVE  /\ UNCHANGED <<statVars, req_performed>>
         /\ \/ /\ pc[t] = "get" /\ pc' = [pc EXCEPT ![t] = "exec"]
               /\ left' = [left EXCEPT ![t] = cfg.locks]
               /\ granted' = granted + 1
               /\ UNCHANGED <<global_var, loaded, rounds>>
            \/ /\ pc[t] = "exec" /\ pc' = [pc EXCEPT ![t] = "lock"]
               /\ UNCHANGED <<granted, left, global_var, loaded, rounds>>
            \/ /\ pc[t] = "lock" /\ pc' = [pc EXCEPT ![t] = "store"]
               /\ loaded' = [loaded EXCEPT ![t] = global_var]
               /\ UNCHANGED <<granted, left, global_var, rounds>>
            \/ /\ pc[t] = "store"
               /\ pc' = [pc EXCEPT ![t] = IF (left[t] - 1) % UINT > 0
                                            THEN "exec" ELSE "done"]
               /\ global_var' = (loaded[t] + 1) % UINT
               /\ left' = [left EXCEPT ![t] = (left[t] - 1) % UINT]
               /\ rounds' = rounds + 1
               /\ loaded' = [loaded EXCEPT ![t] = 0]
               /\ UNCHANGED granted
<1>1. CASE MutexGet(t)
  BY <1>1, Zenon DEF MutexGet, Goto
<1>2. CASE MutexLock(t)
  BY <1>2, Zenon DEF MutexLock, Goto
<1>3. CASE MutexUnlock(t)
  <2>1. 1 # 0
    OBVIOUS
  <2> QED BY <1>3, <2>1, Zenon DEF MutexUnlock, Goto, Executed
<1>4. CASE MutexPick(t)
  BY <1>4, Zenon DEF MutexPick, Goto
<1> QED BY <1>1, <1>2, <1>3, <1>4, StepsByTest, Zenon

(* The same for the memory test. *)
LEMMA MemoryFacts ==
  ASSUME TypesInv, NEW t \in Threads, RunnerStep(t), cfg.test = "memory"
  PROVE  /\ UNCHANGED <<req_performed, reported, overlap, workVars>>
         /\ \/ /\ pc[t] = "get" /\ pc' = [pc EXCEPT ![t] = "done"]
               /\ UNCHANGED <<total_bytes, granted>>
            \/ /\ pc[t] = "get" /\ pc' = [pc EXCEPT ![t] = "exec"]
               /\ exec_mutex = NoThread
               /\ total_bytes < cfg.total
               /\ total_bytes' = total_bytes + cfg.block
               /\ granted' = granted + 1
            \/ /\ pc[t] = "exec"
               /\ \E to \in {"done", "get"} : pc' = [pc EXCEPT ![t] = to]
               /\ UNCHANGED <<total_bytes, granted>>
<1>1. CASE MemoryGet(t)
  BY <1>1, Zenon DEF MemoryGet, Goto
<1>2. CASE memory_execute_request(t)
  BY <1>2, Zenon DEF memory_execute_request, Executed, Goto, statVars
<1> QED BY <1>1, <1>2, StepsByTest, Zenon

(* The steps of the other threads.  They take no request; the statistics   *)
(* change when a thread prints and when it clears.                         *)
OtherStep ==
  \/ TestInit \/ Expire \/ PrintIntermediate
  \/ CheckpointPrint \/ CheckpointReset \/ CheckpointCancelled
  \/ FinalPrint \/ FinalReset \/ TestDone

(* What a step does that prints, and one that clears. *)
Prints(self) ==
  /\ cfg.test = "memory"
  /\ self \notin clearing /\ clearing' = clearing \cup {self}
  /\ reported' = reported + total_bytes
  /\ overlap' = (overlap \/ clearing # {})
  /\ UNCHANGED <<stage, expired, total_bytes>>

Clears(self) ==
  /\ self \in clearing /\ clearing' = clearing \ {self}
  /\ total_bytes' = 0
  /\ UNCHANGED <<expired, checkpoints, reported, overlap>>

(* What each of these steps does to the numbers. *)
LEMMA OtherFacts ==
  ASSUME OtherStep
  PROVE  /\ UNCHANGED <<cfg, pc, req_performed, granted, left, loaded,
                        global_var, rounds>>
         /\ \/ /\ stage = "start" /\ stage' \in {"run", "failed"}
               /\ UNCHANGED <<expired, exec_mutex, clearing, checkpoints,
                              total_bytes, reported, overlap>>
            \/ /\ stage = "run" /\ stage' = "run"
               /\ UNCHANGED <<exec_mutex, clearing, checkpoints, total_bytes,
                              reported, overlap>>
               /\ expired' = expired \/ expired' = TRUE
            \/ /\ stage \in {"run", "done"} /\ Prints("checkpoint")
               /\ exec_mutex = NoThread /\ exec_mutex' = "checkpoint"
               /\ checkpoints' = checkpoints + 1
            \/ /\ Clears("checkpoint") /\ stage' = stage
               /\ exec_mutex' = NoThread
            \/ /\ stage = "done" /\ stage' = stage
               /\ clearing' = clearing \ {"checkpoint"}
               /\ UNCHANGED <<expired, exec_mutex, checkpoints, total_bytes,
                              reported, overlap>>
            \/ /\ stage = "run" /\ Prints("master")
               /\ \A t \in Threads : pc[t] = "done"
               /\ UNCHANGED <<exec_mutex, checkpoints>>
            \/ /\ Clears("master") /\ stage' = "done"
               /\ exec_mutex' = exec_mutex
            \/ /\ stage = "run" /\ stage' = "done" /\ cfg.test # "memory"
               /\ \A t \in Threads : pc[t] = "done"
               /\ UNCHANGED <<expired, exec_mutex, clearing, checkpoints,
                              total_bytes, reported, overlap>>
<1>1. CASE TestInit
  <2>1. stage' \in {"run", "failed"}
    BY <1>1, Zenon DEF TestInit, cpu_init, threads_prepare, mutex_init,
       memory_init, AllocateLocks, Begin
  <2> QED BY <1>1, <2>1, Zenon DEF TestInit, statVars
<1>2. CASE Expire
  BY <1>2, Zenon DEF Expire, statVars, workVars
<1>3. CASE PrintIntermediate
  BY <1>3, Zenon DEF PrintIntermediate, workVars
<1>4. CASE CheckpointPrint
  BY <1>4, Zenon DEF CheckpointPrint, PrintStats, Prints, workVars
<1>5. CASE CheckpointReset
  BY <1>5, Zenon DEF CheckpointReset, Clear, Clears, workVars
<1>6. CASE CheckpointCancelled
  BY <1>6, Zenon DEF CheckpointCancelled, statVars, workVars
<1>7. CASE FinalPrint
  BY <1>7, Zenon DEF FinalPrint, RunnersEnded, PrintStats, Prints, workVars
<1>8. CASE FinalReset
  BY <1>8, Zenon DEF FinalReset, Clear, Clears, workVars
<1>9. CASE TestDone
  BY <1>9, Zenon DEF TestDone, RunnersEnded, statVars
<1> QED
  BY <1>1, <1>2, <1>3, <1>4, <1>5, <1>6, <1>7, <1>8, <1>9 DEF OtherStep
-----------------------------------------------------------------------------
(* One request more is one block more. *)
LEMMA OneMore ==
  ASSUME NEW g \in Nat, NEW b \in Nat
  PROVE  (g + 1) * b = g * b + b /\ g * b \in Nat
OBVIOUS

(* A runner keeps the types, ... *)
LEMMA RunnerTypes ==
  ASSUME TypesInv, NEW t \in Threads, RunnerStep(t)
  PROVE  TypesInv'
<1> USE StepsByTest
<1>1. cfg' = cfg /\ stage' = stage /\ checkpoints' = checkpoints
  OBVIOUS
<1>2. /\ (req_performed + 1) % UINT \in Nat
      /\ (loaded[t] + 1) % UINT \in Nat
      /\ (left[t] - 1) % UINT \in Int
  BY ModFacts, RequestsAssumption DEF TypesInv
<1>3. CASE cfg.test = "cpu"
  BY <1>1, <1>2, <1>3, CpuFacts DEF TypesInv, workVars, statVars
<1>4. CASE cfg.test = "threads"
  BY <1>1, <1>2, <1>4, ThreadsFacts DEF TypesInv, statVars
<1>5. CASE cfg.test = "mutex"
  <2>1. cfg.locks \in Nat
    BY <1>5, ConfigFacts
  <2> QED BY <1>1, <1>2, <1>5, <2>1, MutexFacts DEF TypesInv, statVars
<1>6. CASE cfg.test = "memory"
  <2>1. cfg.block \in Nat
    BY <1>6, ConfigFacts
  <2> QED BY <1>1, <1>6, <2>1, MemoryFacts DEF TypesInv, workVars
<1> QED BY <1>3, <1>4, <1>5, <1>6, ConfigFacts

(* ... the partition of the bytes, ... *)
LEMMA RunnerPartition ==
  ASSUME TypesInv, PartitionInv, NEW t \in Threads, RunnerStep(t)
  PROVE  PartitionInv'
<1>1. /\ UNCHANGED <<cfg, stage, clearing, exec_mutex>>
      /\ stage = "run" /\ pc[t] # "done"
  BY StepsByTest
<1>2. "master" \notin clearing
  BY <1>1 DEF PartitionInv, PrintersInv
<1>3. overlap' = overlap
  BY DEF RunnerStep, CpuTest, CpuCount, cpu_execute_request, ThreadsGet,
     ThreadsLock, ThreadsUnlock, ThreadsDone, MutexGet, MutexPick, MutexLock,
     MutexUnlock, MemoryGet, memory_execute_request, statVars
<1>4. PrintersInv'
  BY <1>1, <1>2, <1>3 DEF PartitionInv, PrintersInv
<1>5. ASSUME cfg.test = "memory"
      PROVE  reported' + (IF clearing = {} THEN total_bytes' ELSE 0) =
               granted' * cfg.block
  <2>1. /\ reported + (IF clearing = {} THEN total_bytes ELSE 0) =
             granted * cfg.block
        /\ cfg.block \in Nat /\ granted \in Nat /\ total_bytes \in Nat
        /\ reported \in Nat
    BY <1>1, <1>2, <1>5, ConfigFacts DEF PartitionInv, TypesInv, Transferred
  <2>2. CASE UNCHANGED <<total_bytes, granted>>
    BY <1>5, <2>1, <2>2, MemoryFacts
  <2>3. CASE /\ exec_mutex = NoThread /\ reported' = reported
             /\ total_bytes' = total_bytes + cfg.block
             /\ granted' = granted + 1
    <3>1. clearing = {}
      BY <1>2, <2>3, RequestsAssumption DEF PartitionInv, PrintersInv
    <3>2. reported + total_bytes = granted * cfg.block
      BY <2>1, <3>1
    <3>3. (granted + 1) * cfg.block = granted * cfg.block + cfg.block
      BY <2>1, OneMore
    <3>4. reported + (total_bytes + cfg.block) = (granted + 1) * cfg.block
      BY <2>1, <3>2, <3>3
    <3> QED BY <2>3, <3>1, <3>4
  <2> QED BY <1>5, <2>2, <2>3, MemoryFacts
<1>6. cfg.test = "memory" => ~overlap
  BY <1>1, <1>2 DEF PartitionInv
<1> QED
  BY <1>1, <1>2, <1>3, <1>4, <1>5, <1>6, Zenon DEF PartitionInv, Transferred

(* ... and stops only when it may. *)
LEMMA RunnerDone ==
  ASSUME TypesInv, DoneInv, NEW t \in Threads, RunnerStep(t)
  PROVE  DoneInv'
<1> USE StepsByTest
<1>1. UNCHANGED <<cfg, stage, expired>> /\ stage # "done"
  OBVIOUS
<1>2. /\ req_performed \in Nat /\ granted \in Nat
      /\ req_performed <= granted /\ max_requests \in Nat
      /\ (req_performed + 1) % UINT \in Nat
      /\ (req_performed + 1) % UINT <= req_performed + 1
  <2>1. req_performed \in Nat /\ granted \in Nat /\ req_performed <= granted
    BY DEF TypesInv, DoneInv
  <2> QED BY <2>1, ModFacts, RequestsAssumption
<1>3. req_performed' <= granted' /\ granted' >= granted
  <2>1. CASE cfg.test = "cpu"
    BY <1>2, <2>1, CpuFacts
  <2>2. CASE cfg.test = "threads"
    BY <1>2, <2>2, ThreadsFacts
  <2>3. CASE cfg.test = "mutex"
    BY <1>2, <2>3, MutexFacts
  <2>4. CASE cfg.test = "memory"
    BY <1>2, <2>4, MemoryFacts
  <2> QED BY <2>1, <2>2, <2>3, <2>4, ConfigFacts
<1>4. granted' \in Nat
  BY RunnerTypes DEF TypesInv
<1>5. ASSUME cfg.test \in {"cpu", "threads"}, NEW u \in Threads,
             pc'[u] = "done"
      PROVE  expired \/ granted' >= max_requests
  <2>1. CASE u # t
    <3>1. pc[u] = "done"
      BY <1>5, <2>1
    <3>2. expired \/ granted >= max_requests
      BY <1>5, <3>1 DEF DoneInv
    <3> QED BY <1>2, <1>3, <1>4, <3>2
  <2>2. CASE u = t
    <3>1. expired \/ (LimitReached /\ granted' = granted)
      <4>1. CASE cfg.test = "cpu"
        BY <1>5, <2>2, <4>1, CpuFacts DEF TypesInv
      <4>2. CASE cfg.test = "threads"
        BY <1>5, <2>2, <4>2, ThreadsFacts DEF TypesInv
      <4> QED BY <1>5, <4>1, <4>2
    <3>2. LimitReached => req_performed >= max_requests
      BY DEF LimitReached
    <3>3. \A a, b, c \in Nat : a >= c /\ a <= b => b >= c
      OBVIOUS
    <3> QED BY <1>2, <3>1, <3>2, <3>3
  <2> QED BY <2>1, <2>2
<1> QED BY <1>1, <1>3, <1>5, Zenon DEF DoneInv

(* The other threads keep the partition. *)
LEMMA OtherPrinters ==
  ASSUME IInv, OtherStep
  PROVE  PrintersInv'
<1>1. /\ clearing \in SUBSET {"checkpoint", "master"}
      /\ overlap \in BOOLEAN
      /\ clearing # {} => cfg.test = "memory"
      /\ "checkpoint" \in clearing => exec_mutex = "checkpoint"
      /\ "master" \in clearing =>
           stage = "run" /\ \A t \in Threads : pc[t] = "done"
      /\ stage \in {"start", "failed"} => clearing = {}
  BY DEF IInv, PartitionInv, PrintersInv
<1>2. pc' = pc /\ cfg' = cfg /\ "checkpoint" # NoThread
  BY OtherFacts, RequestsAssumption
<1>3. overlap' \in BOOLEAN
  <2>1. overlap' = overlap \/ overlap' = (overlap \/ clearing # {})
    BY OtherFacts, Zenon DEF Prints, Clears
  <2> QED BY <1>1, <2>1, Zenon
<1>4. CASE UNCHANGED <<exec_mutex, clearing>>
  <2>1. \/ stage' = stage \/ clearing = {}
        \/ stage = "run" /\ stage' = "done"
    <3>1. \/ stage' = stage \/ stage = "start" \/ Clears("master")
          \/ stage = "run" /\ stage' = "done"
      BY OtherFacts, Zenon DEF Prints
    <3>2. ~Clears("master")
      BY <1>4 DEF Clears
    <3> QED BY <1>1, <3>1, <3>2
  <2>2. stage = "run" /\ stage' = "done" => "master" \notin clearing
    <3>1. ASSUME stage = "run", stage' = "done", "master" \in clearing
          PROVE  FALSE
      <4>1. cfg.test # "memory"
        BY <1>4, <3>1, OtherFacts DEF Prints, Clears
      <4>2. cfg.test = "memory"
        BY <1>1, <3>1
      <4> QED BY <4>1, <4>2
    <3> QED BY <3>1
  <2> QED BY <1>1, <1>2, <1>3, <1>4, <2>1, <2>2 DEF PrintersInv
<1>5. CASE /\ stage \in {"run", "done"} /\ Prints("checkpoint")
           /\ exec_mutex' = "checkpoint"
  BY <1>1, <1>2, <1>3, <1>5 DEF PrintersInv, Prints
<1>6. CASE Clears("checkpoint") /\ stage' = stage
  BY <1>1, <1>2, <1>3, <1>6 DEF PrintersInv, Clears
<1>7. CASE /\ stage = "done" /\ stage' = stage
           /\ clearing' = clearing \ {"checkpoint"}
  BY <1>1, <1>2, <1>3, <1>7 DEF PrintersInv
<1>8. CASE /\ stage = "run" /\ Prints("master") /\ exec_mutex' = exec_mutex
           /\ \A t \in Threads : pc[t] = "done"
  BY <1>1, <1>2, <1>3, <1>8 DEF PrintersInv, Prints
<1>9. CASE Clears("master") /\ stage' = "done" /\ exec_mutex' = exec_mutex
  BY <1>1, <1>2, <1>3, <1>9 DEF PrintersInv, Clears
<1> QED BY <1>4, <1>5, <1>6, <1>7, <1>8, <1>9, OtherFacts, Zenon

(* What has been reported, by the state of the final report. *)
LEMMA OtherPartition ==
  ASSUME IInv, OtherStep
  PROVE  PartitionInv'
<1>1. PrintersInv /\ PrintersInv'
  BY OtherPrinters DEF IInv, PartitionInv
<1>2. UNCHANGED <<cfg, granted>>
  BY OtherFacts
<1>3. Transferred' = Transferred
  BY <1>2 DEF Transferred
<1>4. SUFFICES
        ASSUME cfg.test = "memory"
        PROVE  IF stage' = "done" \/ "master" \in clearing'
                 THEN /\ reported' >= Transferred
                      /\ ~overlap' => reported' = Transferred
                      /\ stage' = "done" => total_bytes' = 0
                 ELSE /\ reported' + (IF clearing' = {} THEN total_bytes' ELSE 0)
                           = Transferred
                      /\ ~overlap'
  BY <1>1, <1>2, <1>3 DEF PartitionInv
<1>5. /\ reported \in Nat /\ total_bytes \in Nat /\ Transferred \in Nat
      /\ reported + 0 = reported
  <2>1. /\ reported \in Nat /\ total_bytes \in Nat /\ granted \in Nat
        /\ cfg.block \in Nat
    BY <1>4, ConfigFacts DEF IInv, TypesInv
  <2> QED BY <2>1, OneMore DEF Transferred
<1>6. IF stage = "done" \/ "master" \in clearing
        THEN /\ reported >= Transferred
             /\ ~overlap => reported = Transferred
             /\ stage = "done" => total_bytes = 0
        ELSE /\ reported + (IF clearing = {} THEN total_bytes ELSE 0)
                  = Transferred
             /\ ~overlap
  BY <1>4 DEF IInv, PartitionInv
<1>7. CASE /\ UNCHANGED <<clearing, total_bytes, reported, overlap>>
           /\ stage' # "done" /\ stage # "done"
  BY <1>6, <1>7
<1>8. CASE Prints("checkpoint") \/ Prints("master")
  <2>1. PICK self \in {"checkpoint", "master"} : Prints(self)
    BY <1>8
  <2>2. /\ reported' = reported + total_bytes /\ total_bytes' = total_bytes
        /\ stage' = stage /\ clearing' = clearing \cup {self}
        /\ overlap' = (overlap \/ clearing # {})
    BY <2>1 DEF Prints
  <2>3. CASE stage = "done"
    <3>1. reported' = reported /\ total_bytes' = 0 /\ reported >= Transferred
      BY <1>5, <1>6, <2>2, <2>3
    <3>2. ~overlap' => ~overlap
      BY <2>2
    <3> QED BY <1>6, <2>2, <2>3, <3>1, <3>2
  <2>4. CASE stage # "done" /\ "master" \in clearing
    <3>1. reported' >= Transferred
      BY <1>5, <1>6, <2>2, <2>4
    <3>2. overlap'
      <4>1. clearing # {}
        BY <2>4
      <4> QED BY <2>2, <4>1, Zenon
    <3> QED BY <2>2, <2>4, <3>1, <3>2
  <2>5. CASE stage # "done" /\ "master" \notin clearing /\ clearing = {}
    <3>1. reported' = Transferred /\ clearing' # {}
      BY <1>6, <2>2, <2>5
    <3>2. ~overlap'
      <4>1. ~overlap
        BY <1>6, <2>5
      <4> QED BY <2>2, <2>5, <4>1, Zenon
    <3>3. reported' >= Transferred /\ reported' + 0 = Transferred
      BY <1>5, <3>1
    <3> QED BY <2>2, <2>5, <3>1, <3>2, <3>3
  <2>6. CASE stage # "done" /\ "master" \notin clearing /\ clearing # {}
    <3>1. self = "master"
      BY <1>1, <2>1, <2>6 DEF Prints, PrintersInv
    <3>2. reported' >= Transferred
      BY <1>5, <1>6, <2>2, <2>6
    <3>3. overlap'
      BY <2>2, <2>6, Zenon
    <3> QED BY <2>2, <2>6, <3>1, <3>2, <3>3
  <2> QED BY <2>3, <2>4, <2>5, <2>6
<1>9. CASE Clears("checkpoint") /\ stage' = stage
  <2>1. /\ total_bytes' = 0 /\ reported' = reported /\ overlap' = overlap
        /\ clearing # {} /\ clearing' = clearing \ {"checkpoint"}
    BY <1>9 DEF Clears
  <2>2. "master" \in clearing' <=> "master" \in clearing
    BY <2>1
  <2> QED BY <1>5, <1>6, <1>9, <2>1, <2>2
<1>10. CASE /\ stage = "done" /\ stage' = stage
            /\ UNCHANGED <<total_bytes, reported, overlap>>
  BY <1>6, <1>10
<1>11. CASE Clears("master") /\ stage' = "done"
  BY <1>6, <1>11 DEF Clears
<1> QED
  BY <1>1, <1>4, <1>7, <1>8, <1>9, <1>10, <1>11, OtherFacts, Zenon DEF
     PrintersInv

(* So do the other threads. *)
LEMMA OtherIInv ==
  ASSUME IInv, OtherStep
  PROVE  IInv'
<1>1. TypesInv'
  <2>1. /\ stage' \in {"start", "run", "done", "failed"}
        /\ checkpoints' \in Nat /\ total_bytes' \in Nat /\ reported' \in Nat
    <3>1. /\ stage \in {"start", "run", "done", "failed"}
          /\ checkpoints \in Nat /\ total_bytes \in Nat /\ reported \in Nat
      BY DEF IInv, TypesInv
    <3>2. stage' \in {"start", "run", "done", "failed"}
      BY <3>1, OtherFacts, Zenon DEF Prints, Clears
    <3>3. checkpoints' \in {checkpoints, checkpoints + 1}
      BY OtherFacts, Zenon DEF Prints, Clears
    <3>4. total_bytes' \in {total_bytes, 0}
      BY OtherFacts, Zenon DEF Prints, Clears
    <3>5. reported' \in {reported, reported + total_bytes}
      BY OtherFacts, Zenon DEF Prints, Clears
    <3> QED BY <3>1, <3>2, <3>3, <3>4, <3>5
  <2>2. UNCHANGED <<cfg, pc, req_performed, granted, left, loaded, global_var,
                    rounds>>
    BY OtherFacts
  <2> QED BY <2>1, <2>2 DEF IInv, TypesInv
<1>2. PartitionInv'
  BY OtherPartition
<1>3. DoneInv'
  <2>1. UNCHANGED <<cfg, pc, req_performed, granted>>
    BY OtherFacts
  <2>2. expired' = expired \/ expired' = TRUE
    BY OtherFacts, Zenon DEF Prints, Clears
  <2>3. stage' = "done" => \A t \in Threads : pc[t] = "done"
    <3>1. "master" \in clearing => \A t \in Threads : pc[t] = "done"
      BY DEF IInv, PartitionInv, PrintersInv
    <3>2. stage = "done" => \A t \in Threads : pc[t] = "done"
      BY DEF IInv, DoneInv
    <3>3. \/ stage' # "done" \/ stage' = stage \/ "master" \in clearing
          \/ \A t \in Threads : pc[t] = "done"
      BY OtherFacts DEF Prints, Clears
    <3> QED BY <3>1, <3>2, <3>3
  <2> QED BY <2>1, <2>2, <2>3, Zenon DEF IInv, DoneInv
<1> QED BY <1>1, <1>2, <1>3 DEF IInv

(* The first inductive invariant holds initially, before any init. *)
LEMMA InitIInv == Init => IInv
<1> SUFFICES ASSUME Init PROVE IInv
  OBVIOUS
<1>1. TypesInv
  BY DEF Init, TypesInv
<1>2. PartitionInv
  <2>1. cfg.test = "memory" => cfg.block \in Nat
    BY <1>1, ConfigFacts
  <2>2. \A b \in Nat : 0 + 0 = 0 * b
    OBVIOUS
  <2>3. /\ clearing = {} /\ overlap = FALSE /\ stage = "start"
        /\ reported = 0 /\ total_bytes = 0 /\ granted = 0
    BY Zenon DEF Init
  <2>4. cfg.test = "memory" =>
          reported + (IF clearing = {} THEN total_bytes ELSE 0) = Transferred
    BY <2>1, <2>2, <2>3 DEF Transferred
  <2>5. stage # "done" /\ "master" \notin clearing /\ "checkpoint" \notin clearing
    BY <2>3
  <2>6. PrintersInv
    BY <2>3, <2>5, Zenon DEF PrintersInv
  <2> QED BY <2>3, <2>4, <2>5, <2>6, Zenon DEF PartitionInv
<1>3. DoneInv
  <2>1. expired = FALSE
    BY Zenon DEF Init
  <2>2. stage # "done" /\ \A t \in Threads : pc[t] # "done"
    BY DEF Init
  <2>3. req_performed <= granted
    BY DEF Init
  <2> QED BY <2>1, <2>2, <2>3, Zenon DEF DoneInv
<1> QED BY <1>1, <1>2, <1>3 DEF IInv

(* Every step keeps it. *)
LEMMA NextIInv == IInv /\ [Next]_vars => IInv'
<1> SUFFICES ASSUME IInv, [Next]_vars PROVE IInv'
  OBVIOUS
<1>1. ASSUME NEW t \in Threads, RunnerStep(t) PROVE IInv'
  BY <1>1, RunnerTypes, RunnerPartition, RunnerDone DEF IInv
<1>2. CASE OtherStep
  BY <1>2, OtherIInv
<1>3. CASE UNCHANGED vars
  BY <1>3 DEF vars, statVars, workVars, IInv, TypesInv, PartitionInv,
     PrintersInv, Transferred, DoneInv
<1> QED BY <1>1, <1>2, <1>3 DEF Next, OtherStep, Terminated

(* The first inductive invariant holds throughout. *)
THEOREM Invariance == Spec => []IInv
BY InitIInv, NextIInv, PTL DEF Spec

(* memory_print_stats: however the runners, the reports and the            *)
(* checkpoints interleave, every block that memory_get_request hands out   *)
(* is in exactly one cumulative report or still in total_bytes until       *)
(* run_test prints the last report; then every block was reported, and     *)
(* twice only if a checkpoint was between its print and its clear when     *)
(* run_test printed, or came while run_test was between its own.           *)
THEOREM Partition == Spec => []ReportsPartition
<1>1. IInv => ReportsPartition
  BY DEF IInv, PartitionInv, PrintersInv, ReportsPartition, Transferred
<1> QED BY <1>1, Invariance, PTL
-----------------------------------------------------------------------------
(* The runners at a place, when runner t takes a step. *)
LEMMA PcCount ==
  ASSUME NEW P, NEW t \in Threads, \A u \in Threads : u # t => pc'[u] = pc[u]
  PROVE  Cardinality(At(Threads, pc', P)) =
           Cardinality(At(Threads, pc, P)) + (IF pc'[t] \in P THEN 1 ELSE 0)
                                           - (IF pc[t] \in P THEN 1 ELSE 0)
BY CountMoves, RequestsAssumption

(* Their number, before and after. *)
LEMMA PcNat ==
  ASSUME NEW P
  PROVE  /\ Cardinality(At(Threads, pc, P)) \in Nat
         /\ Cardinality(At(Threads, pc', P)) \in Nat
         /\ Cardinality(Threads) \in Nat /\ Cardinality(Threads) > 0
         /\ Cardinality(At(Threads, pc', P)) <= Cardinality(Threads)
         /\ Cardinality(At(Threads, pc, P)) = 0 <=>
              \A t \in Threads : pc[t] \notin P
<1>1. Cardinality(Threads) # 0
  BY FS_EmptySet, RequestsAssumption
<1> QED BY <1>1, CountNat, CountZero, RequestsAssumption

(* The counter of the cpu test. *)
LEMMA CpuPreserved ==
  ASSUME LimitsFit, IInv, CpuInv, NEW t \in Threads, RunnerStep(t)
  PROVE  CpuInv'
<1> DEFINE C == Cardinality(At(Threads, pc, {"count"}))
           D == Cardinality(At(Threads, pc', {"count"}))
           N == Cardinality(Threads)
<1>1. SUFFICES ASSUME cfg.test = "cpu", max_requests > 0
               PROVE  req_performed' = granted'
                        /\ granted' + D <= max_requests + N - 1
  BY StepsByTest DEF CpuInv, At, IInv
<1>2. /\ req_performed = granted /\ granted + C <= max_requests + N - 1
      /\ granted \in Nat /\ max_requests \in Nat
  BY <1>1, RequestsAssumption DEF CpuInv, IInv, TypesInv
<1>3. C \in Nat /\ D \in Nat /\ N \in Nat /\ N > 0 /\ D <= N
  BY PcNat
<1>4. D = C + (IF pc'[t] \in {"count"} THEN 1 ELSE 0)
            - (IF pc[t] \in {"count"} THEN 1 ELSE 0)
  BY PcCount, StepsByTest DEF IInv
<1>5. pc[t] = "count" => C # 0
  BY PcNat
<1>6. max_requests + N <= UINT
  BY DEF LimitsFit
<1> HIDE DEF C, D, N
<1>7. CASE /\ pc[t] = "count" /\ pc' = [pc EXCEPT ![t] = "exec"]
           /\ req_performed' = (req_performed + 1) % UINT
           /\ granted' = granted + 1
  <2>1. pc'[t] = "exec"
    BY <1>7 DEF IInv, TypesInv
  <2>2. D = C + 0 - 1
    BY <1>4, <1>7, <2>1
  <2>3. granted + 1 <= max_requests + N - 1
    BY <1>2, <1>3, <1>5, <1>7
  <2>4. granted + 1 \in 0 .. UINT - 1
    BY <1>2, <1>3, <1>6, <2>3, RequestsAssumption
  <2>5. (req_performed + 1) % UINT = granted + 1
    BY <1>2, <2>4, ModFacts
  <2> QED BY <1>2, <1>3, <1>7, <2>2, <2>5
<1>8. CASE /\ pc[t] = "get" /\ pc' = [pc EXCEPT ![t] = "count"]
           /\ ~LimitReached
           /\ UNCHANGED <<req_performed, granted>>
  <2>1. granted < max_requests
    BY <1>1, <1>2, <1>8 DEF LimitReached
  <2> QED BY <1>2, <1>3, <1>8, <2>1
<1>9. CASE /\ pc[t] # "count" /\ UNCHANGED <<req_performed, granted>>
           /\ \E to \in {"done", "get"} : pc' = [pc EXCEPT ![t] = to]
  <2>1. pc'[t] # "count"
    BY <1>9 DEF IInv, TypesInv
  <2>2. D = C + 0 - 0
    BY <1>4, <1>9, <2>1
  <2> QED BY <1>2, <1>3, <1>9, <2>2
<1> QED BY <1>1, <1>7, <1>8, <1>9, CpuFacts DEF IInv

(* That of the threads test, which tests and counts inside one mutex. *)
LEMMA ThreadsPreserved ==
  ASSUME LimitsFit, IInv, ThreadsInv, NEW t \in Threads, RunnerStep(t)
  PROVE  ThreadsInv'
<1>1. SUFFICES ASSUME cfg.test = "threads", max_requests > 0
               PROVE  req_performed' = granted' /\ granted' <= max_requests
  BY StepsByTest DEF ThreadsInv, IInv
<1>2. /\ req_performed = granted /\ granted <= max_requests
      /\ granted \in Nat /\ max_requests \in Nat
  BY <1>1, RequestsAssumption DEF ThreadsInv, IInv, TypesInv
<1>3. max_requests < UINT
  <2>1. /\ max_requests + Cardinality(Threads) <= UINT
        /\ Cardinality(Threads) \in Nat /\ Cardinality(Threads) > 0
    BY PcNat DEF LimitsFit
  <2> QED BY <1>2, <2>1, RequestsAssumption
<1>4. CASE UNCHANGED <<req_performed, granted>>
  BY <1>2, <1>4
<1>5. CASE /\ ~LimitReached /\ granted' = granted + 1
           /\ req_performed' = (req_performed + 1) % UINT
  <2>1. granted < max_requests
    BY <1>1, <1>2, <1>5 DEF LimitReached
  <2>2. granted + 1 \in 0 .. UINT - 1
    BY <1>2, <1>3, <2>1, RequestsAssumption
  <2>3. (req_performed + 1) % UINT = granted + 1
    BY <1>2, <2>2, ModFacts
  <2> QED BY <1>2, <1>5, <2>1, <2>3
<1> QED BY <1>1, <1>4, <1>5, ThreadsFacts DEF IInv

(* The rest of a runner, before and after a step. *)
LEMMA RestFacts ==
  ASSUME LimitsFit, IInv, MutexInv, NEW t \in Threads, RunnerStep(t),
         cfg.test = "mutex"
  PROVE  /\ Rounds \in 1 .. UINT /\ Rounds' = Rounds
         /\ \A u \in Threads : left'[u] \in 0 .. UINT - 1
         /\ \A u \in Threads : Rest[u] \in 0 .. UINT /\ Rest'[u] \in 0 .. UINT
         /\ \A u \in Threads : u # t => Rest'[u] = Rest[u]
         /\ rounds' = rounds => Rest'[t] = Rest[t]
         /\ rounds' # rounds => Rest[t] = Rest'[t] + 1
<1>1. cfg.locks \in 0 .. UINT - 1 /\ UINT \in Nat \ {0} /\ cfg' = cfg
  <2>1. cfg.locks \in Nat /\ cfg.locks < UINT /\ cfg' = cfg
    BY ConfigFacts, StepsByTest DEF IInv, TypesInv, LimitsFit
  <2> QED BY <2>1, RequestsAssumption
<1>2. Rounds \in 1 .. UINT /\ Rounds' = Rounds
  BY <1>1 DEF Rounds
<1>3. \A u \in Threads : left[u] \in 0 .. UINT - 1
  BY DEF MutexInv
<1>4. /\ (left[t] - 1) % UINT \in 0 .. UINT - 1
      /\ left[t] > 0 => (left[t] - 1) % UINT = left[t] - 1
      /\ left[t] = 0 => (left[t] - 1) % UINT = UINT - 1
  <2>1. left[t] - 1 \in Int
    BY <1>1, <1>3
  <2>2. left[t] > 0 => left[t] - 1 \in 0 .. UINT - 1
    BY <1>1, <1>3
  <2>3. (0 - 1) % UINT = UINT - 1
    BY <1>1
  <2> QED BY <2>1, <2>2, <2>3, ModFacts
<1>5. \A u \in Threads : u # t => left'[u] = left[u] /\ pc'[u] = pc[u]
  BY MutexFacts, StepsByTest DEF IInv, TypesInv
<1>6. \/ /\ pc[t] = "get" /\ pc'[t] = "exec" /\ left'[t] = cfg.locks
         /\ rounds' = rounds
      \/ /\ pc[t] = "exec" /\ pc'[t] = "lock" /\ left'[t] = left[t]
         /\ rounds' = rounds
      \/ /\ pc[t] = "lock" /\ pc'[t] = "store" /\ left'[t] = left[t]
         /\ rounds' = rounds
      \/ /\ pc[t] = "store" /\ left'[t] = (left[t] - 1) % UINT
         /\ pc'[t] = IF (left[t] - 1) % UINT > 0 THEN "exec" ELSE "done"
         /\ rounds' = rounds + 1
  BY MutexFacts DEF IInv, TypesInv
<1>7. \A u \in Threads : left'[u] \in 0 .. UINT - 1
  BY <1>1, <1>3, <1>4, <1>5, <1>6
<1>8. ASSUME NEW u \in Threads
      PROVE  /\ Rest[u] = IF pc[u] = "done" THEN 0
                          ELSE IF pc[u] = "get" THEN Rounds
                          ELSE IF left[u] = 0 THEN UINT ELSE left[u]
             /\ Rest'[u] = IF pc'[u] = "done" THEN 0
                           ELSE IF pc'[u] = "get" THEN Rounds
                           ELSE IF left'[u] = 0 THEN UINT ELSE left'[u]
  BY <1>2 DEF Rest
<1>9. \A u \in Threads : Rest[u] \in 0 .. UINT /\ Rest'[u] \in 0 .. UINT
  BY <1>1, <1>2, <1>3, <1>7, <1>8
<1>10. \A u \in Threads : u # t => Rest'[u] = Rest[u]
  BY <1>5, <1>8
<1>11. rounds' = rounds => Rest'[t] = Rest[t]
  <2>1. rounds \in Nat
    BY DEF IInv, TypesInv
  <2>2. Rounds = IF cfg.locks = 0 THEN UINT ELSE cfg.locks
    BY DEF Rounds
  <2> QED BY <1>6, <1>8, <2>1, <2>2
<1>12. rounds' # rounds => Rest[t] = Rest'[t] + 1
  <2>1. SUFFICES ASSUME rounds' # rounds PROVE Rest[t] = Rest'[t] + 1
    OBVIOUS
  <2>2. PICK x \in 0 .. UINT - 1 : x = (left[t] - 1) % UINT
    BY <1>4
  <2>3. /\ pc[t] = "store" /\ left'[t] = x
        /\ pc'[t] = IF x > 0 THEN "exec" ELSE "done"
    BY <1>6, <2>1, <2>2
  <2>4. Rest[t] = IF left[t] = 0 THEN UINT ELSE left[t]
    BY <1>8, <2>3
  <2>5. Rest'[t] = x
    <3>1. CASE x > 0
      BY <1>8, <2>3, <3>1
    <3>2. CASE x = 0
      BY <1>8, <2>3, <3>2
    <3> QED BY <2>2, <3>1, <3>2
  <2>6. Rest[t] = x + 1
    <3>1. left[t] \in 0 .. UINT - 1
      BY <1>3
    <3> QED BY <1>1, <1>4, <2>2, <2>4, <3>1
  <2> QED BY <2>5, <2>6
<1> QED BY <1>2, <1>7, <1>9, <1>10, <1>11, <1>12

(* Those of the mutex test: a round made is a round less to make. *)
LEMMA MutexPreserved ==
  ASSUME LimitsFit, IInv, MutexInv, NEW t \in Threads, RunnerStep(t)
  PROVE  MutexInv'
<1> DEFINE C == Cardinality(At(Threads, pc, {"get"}))
           D == Cardinality(At(Threads, pc', {"get"}))
           N == Cardinality(Threads)
<1>1. SUFFICES
        ASSUME cfg.test = "mutex"
        PROVE  /\ granted' + D = N
               /\ \A u \in Threads : left'[u] \in 0 .. UINT - 1
               /\ rounds' + Tally(Threads, Rest') = N * Rounds'
               /\ rounds' < UINT =>
                    /\ global_var' <= rounds'
                    /\ rounds' > 0 => global_var' > 0
                    /\ \A u \in Threads : loaded'[u] <= rounds'
  <2>1. cfg' = cfg
    BY StepsByTest DEF IInv
  <2>2. CASE cfg.test # "mutex"
    BY <2>1, <2>2 DEF MutexInv
  <2>3. CASE cfg.test = "mutex"
    BY <2>3 DEF MutexInv, At, Tally, Units, Rest
  <2> QED BY <2>2, <2>3
<1>2. /\ granted + C = N /\ granted \in Nat /\ rounds \in Nat
      /\ global_var \in Nat /\ UINT \in Nat \ {0}
      /\ \A u \in Threads : loaded[u] \in Nat
      /\ rounds + Tally(Threads, Rest) = N * Rounds
      /\ rounds < UINT =>
           /\ global_var <= rounds
           /\ rounds > 0 => global_var > 0
           /\ \A u \in Threads : loaded[u] <= rounds
  BY <1>1, RequestsAssumption DEF MutexInv, IInv, TypesInv
<1>3. granted' + D = N
  <2>1. C \in Nat /\ D \in Nat /\ N \in Nat
    BY PcNat
  <2>2. D = C + (IF pc'[t] \in {"get"} THEN 1 ELSE 0)
              - (IF pc[t] \in {"get"} THEN 1 ELSE 0)
    BY PcCount, StepsByTest DEF IInv
  <2>3. \/ pc[t] = "get" /\ pc'[t] = "exec" /\ granted' = granted + 1
        \/ pc[t] # "get" /\ pc'[t] # "get" /\ granted' = granted
    BY <1>1, MutexFacts DEF IInv, TypesInv
  <2> HIDE DEF C, D, N
  <2>4. CASE pc[t] = "get" /\ pc'[t] = "exec" /\ granted' = granted + 1
    <3>1. D = C + 0 - 1
      BY <2>2, <2>4
    <3> QED BY <1>2, <2>1, <2>4, <3>1
  <2>5. CASE pc[t] # "get" /\ pc'[t] # "get" /\ granted' = granted
    <3>1. D = C + 0 - 0
      BY <2>2, <2>5
    <3> QED BY <1>2, <2>1, <2>5, <3>1
  <2> QED BY <2>3, <2>4, <2>5
<1>4. rounds' + Tally(Threads, Rest') = N * Rounds'
  <2>1. PICK v, w : v = Rest /\ w = Rest'
    OBVIOUS
  <2>2. /\ \A u \in Threads : v[u] \in 0 .. UINT
        /\ \A u \in Threads : w[u] \in 0 .. UINT
        /\ \A u \in Threads : u # t => v[u] = w[u]
        /\ rounds' = rounds => w[t] = v[t]
        /\ rounds' # rounds => v[t] = w[t] + 1
        /\ Rounds' = Rounds
    BY <1>1, <2>1, RestFacts
  <2>3. /\ rounds + Tally(Threads, v) = N * Rounds
        /\ Rounds \in Nat /\ N * Rounds \in Nat
    <3>1. Rounds \in 1 .. UINT /\ N \in Nat
      BY <1>1, RestFacts, PcNat
    <3>2. Rounds \in Nat
      BY <1>2, <3>1
    <3> QED BY <1>2, <2>1, <3>1, <3>2
  <2>4. Tally(Threads, v) \in Nat /\ Tally(Threads, w) \in Nat
    BY <1>2, <2>2, TallyNat, RequestsAssumption
  <2>5. CASE rounds' = rounds
    <3>1. \A u \in Threads : v[u] = w[u]
      BY <2>2, <2>5
    <3>2. Tally(Threads, v) = Tally(Threads, w)
      BY <3>1, TallySame
    <3> QED BY <2>1, <2>2, <2>3, <2>5, <3>2
  <2>6. CASE rounds' # rounds
    <3>1. rounds' = rounds + 1
      BY <1>1, <2>6, MutexFacts DEF IInv
    <3>2. v[t] = w[t] + 1
      BY <2>2, <2>6
    <3>3. UINT \in Nat /\ IsFiniteSet(Threads)
      BY RequestsAssumption
    <3>4. \A u \in Threads : v[u] \in 0 .. UINT /\ w[u] \in 0 .. UINT
      BY <2>2
    <3>5. \A u \in Threads : u # t => v[u] = w[u]
      BY <2>2
    <3>6. Tally(Threads, v) = Tally(Threads, w) + 1
      BY ONLY <3>2, <3>3, <3>4, <3>5, TallyIncrement, t \in Threads
    <3>7. (rounds + 1) + Tally(Threads, w) = N * Rounds
      BY <1>2, <2>3, <2>4, <3>6
    <3> QED BY <2>1, <2>2, <3>1, <3>7
  <2> QED BY <2>5, <2>6
<1>5. \A u \in Threads : left'[u] \in 0 .. UINT - 1
  BY <1>1, RestFacts
<1>6. ASSUME rounds' < UINT
      PROVE  /\ global_var' <= rounds'
             /\ rounds' > 0 => global_var' > 0
             /\ \A u \in Threads : loaded'[u] <= rounds'
  <2>1. CASE UNCHANGED <<global_var, loaded, rounds>>
    BY <1>2, <1>6, <2>1
  <2>2. CASE /\ loaded' = [loaded EXCEPT ![t] = global_var]
             /\ UNCHANGED <<global_var, rounds>>
    BY <1>2, <1>6, <2>2 DEF IInv, TypesInv
  <2>3. CASE /\ global_var' = (loaded[t] + 1) % UINT
             /\ rounds' = rounds + 1
             /\ loaded' = [loaded EXCEPT ![t] = 0]
    <3>1. rounds < UINT
      BY <1>2, <1>6, <2>3
    <3>2. loaded[t] <= rounds /\ loaded[t] \in Nat
      BY <1>2, <3>1
    <3>3. loaded[t] + 1 \in 0 .. UINT - 1
      BY <1>2, <1>6, <2>3, <3>2
    <3>4. global_var' = loaded[t] + 1
      BY <2>3, <3>3, ModFacts
    <3>5. \A u \in Threads : loaded'[u] = 0 \/ loaded'[u] = loaded[u]
      BY <2>3 DEF IInv, TypesInv
    <3>6. \A u \in Threads : loaded'[u] <= rounds'
      BY <1>2, <2>3, <3>1, <3>5
    <3> QED BY <1>2, <2>3, <3>2, <3>4, <3>6
  <2> QED BY <1>1, <2>1, <2>2, <2>3, MutexFacts DEF IInv
<1> QED BY <1>3, <1>4, <1>5, <1>6
-----------------------------------------------------------------------------
(* Rounding up to a multiple: below n there is room for one m more. *)
LEMMA RoundUpFacts ==
  ASSUME NEW n \in Nat, NEW m \in Nat, m > 0
  PROVE  /\ RoundUp(n, m) \in Nat
         /\ \A k \in Nat : k * m < n => (k + 1) * m <= RoundUp(n, m)
<1> DEFINE q == (n + m - 1) \div m
<1>1. q \in Nat /\ q * m >= n
  OBVIOUS
<1> HIDE DEF q
<1>2. ASSUME NEW k \in Nat, k * m < n
      PROVE  (k + 1) * m <= q * m
  <2>1. k < q
    <3>1. \A a, b \in Nat : a <= b => a * m <= b * m
      OBVIOUS
    <3>2. k * m \in Nat /\ q * m \in Nat
      BY <1>1
    <3>3. ~(q <= k)
      BY <1>1, <1>2, <3>1, <3>2
    <3> QED BY <1>1, <3>3
  <2>2. k + 1 <= q
    BY <1>1, <2>1
  <2>3. \A a, b \in Nat : a <= b => a * m <= b * m
    OBVIOUS
  <2> QED BY <1>1, <2>2, <2>3
<1>3. q * m \in Nat
  BY <1>1
<1> QED BY <1>2, <1>3 DEF RoundUp, q

(* The counter of the memory test, a multiple of the block size. *)
LEMMA MemoryPreserved ==
  ASSUME LimitsFit, IInv, MemoryInv, NEW t \in Threads, RunnerStep(t)
  PROVE  MemoryInv'
<1> DEFINE R == RoundUp(cfg.total, cfg.block)
<1>1. /\ UNCHANGED <<cfg, stage, clearing, checkpoints>> /\ stage = "run"
      /\ pc[t] # "done"
  BY StepsByTest DEF IInv
<1>2. "master" \notin clearing
  BY <1>1 DEF IInv, PartitionInv, PrintersInv
<1>3. SUFFICES
        ASSUME cfg.test = "memory"
        PROVE  /\ \E k \in Nat : total_bytes' = k * cfg.block
               /\ total_bytes' <= R
               /\ reported' = reported
               /\ Transferred' <= (checkpoints + 1) * R
  BY <1>1 DEF MemoryInv
<1>4. reported' = reported
  BY <1>3, MemoryFacts DEF IInv
<1>5. CASE UNCHANGED <<total_bytes, granted>>
  BY <1>1, <1>3, <1>4, <1>5 DEF MemoryInv, Transferred
<1>6. CASE /\ exec_mutex = NoThread /\ total_bytes < cfg.total
           /\ total_bytes' = total_bytes + cfg.block
  <2>1. cfg.block \in Nat /\ cfg.block > 0 /\ cfg.total \in Nat
    BY <1>3, ConfigFacts DEF IInv, TypesInv, LimitsFit
  <2>2. PICK k \in Nat : total_bytes = k * cfg.block
    BY <1>3 DEF MemoryInv
  <2>3. total_bytes' = (k + 1) * cfg.block
    <3>1. (k + 1) * cfg.block = k * cfg.block + cfg.block
      BY <2>1, OneMore
    <3> QED BY <1>6, <2>2, <3>1
  <2>4. (k + 1) * cfg.block <= RoundUp(cfg.total, cfg.block)
    BY <1>6, <2>1, <2>2, RoundUpFacts
  <2>5. k + 1 \in Nat
    OBVIOUS
  <2>6. Transferred' = reported + total_bytes'
    <3>1. PartitionInv'
      BY RunnerPartition DEF IInv
    <3>2. clearing = {}
      BY <1>2, <1>6, RequestsAssumption DEF IInv, PartitionInv, PrintersInv
    <3> QED BY <1>1, <1>3, <1>4, <3>1, <3>2 DEF PartitionInv
  <2>7. /\ reported <= checkpoints * R
        /\ reported \in Nat /\ checkpoints \in Nat /\ R \in Nat
        /\ total_bytes' \in Nat
    <3>1. reported <= checkpoints * R
      BY <1>1, <1>2, <1>3 DEF MemoryInv
    <3>2. total_bytes' \in Nat
      BY RunnerTypes DEF IInv, TypesInv
    <3> QED BY <2>1, <3>1, <3>2, RoundUpFacts DEF IInv, TypesInv
  <2>8. total_bytes' <= R
    BY <2>3, <2>4
  <2> HIDE DEF R
  <2>9. (checkpoints + 1) * R = checkpoints * R + R /\ checkpoints * R \in Nat
    BY <2>7, OneMore
  <2>10. Transferred' <= (checkpoints + 1) * R
    <3>1. \A a, b, c, d \in Nat : a <= c /\ b <= d => a + b <= c + d
      OBVIOUS
    <3>2. reported + total_bytes' <= checkpoints * R + R
      BY <2>7, <2>8, <2>9, <3>1
    <3> QED BY <2>6, <2>9, <3>2
  <2> QED BY <1>4, <2>3, <2>5, <2>8, <2>10
<1> QED BY <1>3, <1>5, <1>6, MemoryFacts DEF IInv

(* A report adds what was counted since the last checkpoint. *)
LEMMA MemoryReports ==
  ASSUME LimitsFit, IInv, MemoryInv, OtherStep
  PROVE  MemoryInv'
<1> DEFINE R == RoundUp(cfg.total, cfg.block)
<1>0. Transferred' = Transferred /\ cfg' = cfg
  BY OtherFacts DEF Transferred
<1>1. SUFFICES
        ASSUME cfg.test = "memory"
        PROVE  /\ \E k \in Nat : total_bytes' = k * cfg.block
               /\ total_bytes' <= R
               /\ stage' # "done" /\ "master" \notin clearing' =>
                    reported' <= checkpoints' * R
               /\ Transferred <= (checkpoints' + 1) * R
  BY <1>0 DEF MemoryInv
<1>2. /\ cfg.block \in Nat /\ R \in Nat /\ Transferred \in Nat
      /\ total_bytes \in Nat /\ reported \in Nat /\ checkpoints \in Nat
  <2>1. /\ cfg.block \in Nat /\ cfg.block > 0 /\ cfg.total \in Nat
        /\ granted \in Nat
    BY <1>1, ConfigFacts DEF IInv, TypesInv, LimitsFit
  <2> QED BY <2>1, RoundUpFacts, OneMore DEF IInv, TypesInv, Transferred
<1>3. /\ \E k \in Nat : total_bytes = k * cfg.block
      /\ total_bytes <= R
      /\ stage # "done" /\ "master" \notin clearing =>
           reported <= checkpoints * R
      /\ Transferred <= (checkpoints + 1) * R
  BY <1>1 DEF MemoryInv
<1>4. /\ \E k \in Nat : 0 = k * cfg.block
      /\ 0 <= R
      /\ (checkpoints + 1) * R = checkpoints * R + R
      /\ (checkpoints + 1 + 1) * R = checkpoints * R + R + R
      /\ checkpoints * R \in Nat
  <2>1. 0 = 0 * cfg.block /\ 0 \in Nat
    BY <1>2
  <2>2. 0 <= R
    BY <1>2
  <2>3. checkpoints + 1 \in Nat
    BY <1>2
  <2> QED BY <1>2, <2>1, <2>2, <2>3, OneMore
<1> HIDE DEF R
<1>5. Transferred <= (checkpoints + 1 + 1) * R
  BY <1>2, <1>3, <1>4
<1>6. CASE /\ UNCHANGED <<total_bytes, reported, checkpoints, clearing>>
           /\ stage # "done"
  BY <1>3, <1>6
<1>7. CASE Prints("checkpoint") /\ checkpoints' = checkpoints + 1
  <2>1. /\ reported' = reported + total_bytes /\ total_bytes' = total_bytes
        /\ stage' = stage
        /\ "master" \in clearing' <=> "master" \in clearing
    BY <1>7 DEF Prints
  <2>2. stage # "done" /\ "master" \notin clearing =>
          reported + total_bytes <= (checkpoints + 1) * R
    BY <1>2, <1>3, <1>4
  <2> QED BY <1>3, <1>5, <1>7, <2>1, <2>2
<1>8. CASE Clears("checkpoint") /\ stage' = stage
  <2>1. /\ total_bytes' = 0 /\ reported' = reported
        /\ checkpoints' = checkpoints
        /\ "master" \in clearing' <=> "master" \in clearing
    BY <1>8 DEF Clears
  <2> QED BY <1>3, <1>4, <1>8, <2>1
<1>9. CASE /\ stage = "done" /\ stage' = stage
           /\ UNCHANGED <<checkpoints, total_bytes, reported>>
  BY <1>3, <1>9
<1>10. CASE Prints("master") /\ checkpoints' = checkpoints
  BY <1>3, <1>10 DEF Prints
<1>11. CASE Clears("master") /\ stage' = "done"
  BY <1>3, <1>4, <1>11 DEF Clears
<1> QED
  BY <1>1, <1>6, <1>7, <1>8, <1>9, <1>10, <1>11, OtherFacts, Zenon
-----------------------------------------------------------------------------
(* The second inductive invariant holds initially. *)
LEMMA InitLimits == LimitsFit /\ Init => LimitInv
<1> SUFFICES ASSUME LimitsFit, Init PROVE LimitInv
  OBVIOUS
<1> DEFINE N == Cardinality(Threads)
<1>1. /\ granted = 0 /\ req_performed = 0 /\ rounds = 0 /\ global_var = 0
      /\ total_bytes = 0 /\ reported = 0 /\ checkpoints = 0 /\ stage = "start"
      /\ \A t \in Threads : pc[t] = "get" /\ left[t] = 0 /\ loaded[t] = 0
  BY DEF Init
<1>2. N \in Nat /\ N > 0 /\ max_requests \in Nat /\ UINT \in Nat \ {0}
  BY PcNat, RequestsAssumption
<1>3. CpuInv
  <2>1. Cardinality(At(Threads, pc, {"count"})) = 0
    BY <1>1, PcNat
  <2> HIDE DEF N
  <2>2. 0 + 0 <= max_requests + N - 1
    BY <1>2
  <2> QED BY <1>1, <2>1, <2>2 DEF CpuInv, N
<1>4. ThreadsInv
  BY <1>1, <1>2 DEF ThreadsInv
<1>5. MutexInv
  <2>1. SUFFICES ASSUME cfg.test = "mutex" PROVE MutexInv
    BY DEF MutexInv
  <2>2. At(Threads, pc, {"get"}) = Threads
    BY <1>1 DEF At
  <2>3. Rounds \in Nat
    <3>1. cfg.locks \in Nat
      BY <2>1, InitIInv, ConfigFacts DEF IInv
    <3> QED BY <1>2, <3>1 DEF Rounds
  <2>4. Tally(Threads, Rest) = N * Rounds
    <3>1. \A t \in Threads : Rest[t] = Rounds
      BY <1>1 DEF Rest
    <3> QED BY <2>3, <3>1, TallyConstant, RequestsAssumption
  <2>5. N * Rounds \in Nat
    BY <1>2, <2>3
  <2> HIDE DEF N
  <2>6. 0 + N = N /\ 0 + N * Rounds = N * Rounds
    BY <1>2, <2>5
  <2>7. \A t \in Threads : left[t] \in 0 .. UINT - 1
    BY <1>1, <1>2
  <2> QED BY <1>1, <2>2, <2>4, <2>6, <2>7 DEF MutexInv, N
<1>6. MemoryInv
  <2>1. SUFFICES ASSUME cfg.test = "memory" PROVE MemoryInv
    BY DEF MemoryInv
  <2>2. cfg.block \in Nat /\ cfg.block > 0 /\ cfg.total \in Nat
    BY <2>1, InitIInv, ConfigFacts DEF IInv, TypesInv, LimitsFit
  <2>3. RoundUp(cfg.total, cfg.block) \in Nat
    BY <2>2, RoundUpFacts
  <2>4. /\ 0 = 0 * cfg.block /\ 0 <= RoundUp(cfg.total, cfg.block)
        /\ 0 <= 0 * RoundUp(cfg.total, cfg.block)
        /\ 0 <= (0 + 1) * RoundUp(cfg.total, cfg.block)
    BY <2>2, <2>3
  <2>5. Transferred = 0
    BY <1>1, <2>4 DEF Transferred
  <2> QED BY <1>1, <2>4, <2>5 DEF MemoryInv
<1> QED BY <1>3, <1>4, <1>5, <1>6 DEF LimitInv

(* Every step keeps it. *)
LEMMA NextLimits ==
  ASSUME LimitsFit, IInv, LimitInv, [Next]_vars
  PROVE  LimitInv'
<1> USE DEF LimitInv
<1>1. ASSUME NEW t \in Threads, RunnerStep(t) PROVE LimitInv'
  BY <1>1, CpuPreserved, ThreadsPreserved, MutexPreserved, MemoryPreserved
<1>2. CASE OtherStep
  <2>1. UNCHANGED <<cfg, pc, req_performed, granted, left, loaded, global_var,
                    rounds>>
    BY <1>2, OtherFacts
  <2>2. CpuInv' /\ ThreadsInv' /\ MutexInv'
    BY <2>1 DEF CpuInv, ThreadsInv, MutexInv, Rounds, Rest, At, Tally, Units
  <2> QED BY <1>2, <2>2, MemoryReports
<1>3. CASE UNCHANGED vars
  BY <1>3 DEF vars, statVars, workVars, CpuInv, ThreadsInv, MutexInv,
     MemoryInv, Transferred, Rounds, Rest, At, Tally, Units
<1> QED BY <1>1, <1>2, <1>3 DEF Next, OtherStep, Terminated

(* How far a test may go beyond its limit: the cpu test, which tests its   *)
(* counter outside the mutex that protects the increment, by one request   *)
(* for every other runner; the memory test by its total size for every     *)
(* checkpoint, which clears the counter that ends it.                      *)
OvershootBounded ==
  /\ cfg.test = "cpu" /\ max_requests > 0 =>
       granted <= max_requests + Cardinality(Threads) - 1
  /\ cfg.test = "memory" =>
       granted * cfg.block
         <= (checkpoints + 1) * RoundUp(cfg.total, cfg.block)

(* What the two invariants say of the limits. *)
LEMMA LimitsHold ==
  ASSUME LimitsFit, IInv, LimitInv
  PROVE  LimitsExact /\ OvershootBounded
<1> DEFINE N == Cardinality(Threads)
<1>1. N \in Nat /\ N > 0 /\ max_requests \in Nat /\ UINT \in Nat \ {0}
  BY PcNat, RequestsAssumption
<1>2. granted \in Nat /\ rounds \in Nat /\ checkpoints \in Nat
  BY DEF IInv, TypesInv
<1>3. cfg.test = "cpu" /\ max_requests > 0 =>
        granted <= max_requests + N - 1
  <2>1. Cardinality(At(Threads, pc, {"count"})) \in Nat
    BY PcNat
  <2>2. cfg.test = "cpu" /\ max_requests > 0 =>
          granted + Cardinality(At(Threads, pc, {"count"}))
            <= max_requests + N - 1
    BY DEF LimitInv, CpuInv
  <2> HIDE DEF N
  <2> QED BY <1>1, <1>2, <2>1, <2>2
<1>4. cfg.test = "threads" /\ max_requests > 0 => granted <= max_requests
  BY DEF LimitInv, ThreadsInv
<1>5. cfg.test = "mutex" => granted <= N
  <2>1. Cardinality(At(Threads, pc, {"get"})) \in Nat
    BY PcNat
  <2>2. cfg.test = "mutex" =>
          granted + Cardinality(At(Threads, pc, {"get"})) = N
    BY DEF LimitInv, MutexInv
  <2> HIDE DEF N
  <2> QED BY <1>1, <1>2, <2>1, <2>2
<1>6. cfg.test = "memory" =>
        granted * cfg.block <= (checkpoints + 1) * RoundUp(cfg.total, cfg.block)
  BY DEF LimitInv, MemoryInv, Transferred
<1>7. ASSUME stage = "done", ~expired, cfg.test \in {"cpu", "threads"}
      PROVE  granted >= max_requests
  <2>1. PICK t \in Threads : TRUE
    BY RequestsAssumption
  <2> QED BY <1>7, <2>1 DEF IInv, DoneInv
<1>8. ASSUME stage = "done", cfg.test = "mutex"
      PROVE  /\ rounds = N * Rounds
             /\ rounds < UINT => global_var \in 1 .. rounds
  <2>1. \A t \in Threads : Rest[t] = 0
    BY <1>8 DEF IInv, DoneInv, Rest
  <2>2. Tally(Threads, Rest) = 0
    BY <2>1, TallyZero
  <2>3. rounds = N * Rounds
    <3>1. rounds + Tally(Threads, Rest) = N * Rounds
      BY <1>8 DEF LimitInv, MutexInv
    <3> QED BY <1>2, <2>2, <3>1
  <2>4. rounds > 0
    <3>1. cfg.locks \in Nat
      BY <1>8, ConfigFacts DEF IInv
    <3>2. Rounds \in Nat /\ Rounds > 0
      BY <1>1, <3>1 DEF Rounds
    <3> HIDE DEF N
    <3>3. \A a, b \in Nat : a > 0 /\ b > 0 => a * b > 0
      OBVIOUS
    <3> QED BY <1>1, <2>3, <3>2, <3>3
  <2>5. rounds < UINT => global_var <= rounds /\ global_var > 0
    BY <1>8, <2>4 DEF LimitInv, MutexInv
  <2>6. global_var \in Nat
    BY DEF IInv, TypesInv
  <2> QED BY <1>2, <2>3, <2>5, <2>6
<1>9. cfg.test = "memory" /\ checkpoints = 0 =>
        granted * cfg.block <= RoundUp(cfg.total, cfg.block)
  <2>1. cfg.test = "memory" => RoundUp(cfg.total, cfg.block) \in Nat
    BY ConfigFacts, RoundUpFacts DEF IInv, TypesInv, LimitsFit
  <2>2. \A x \in Nat : (0 + 1) * x = x
    OBVIOUS
  <2> QED BY <1>6, <2>1, <2>2
<1> QED
  BY <1>3, <1>4, <1>5, <1>6, <1>7, <1>8, <1>9 DEF LimitsExact,
     OvershootBounded, Rounds

(* The two inductive invariants together. *)
LEMMA LimitsInvariant ==
  ASSUME LimitsFit
  PROVE  Spec => [](IInv /\ LimitInv)
<1>1. Init => IInv /\ LimitInv
  BY InitIInv, InitLimits
<1>2. IInv /\ LimitInv /\ [Next]_vars => (IInv /\ LimitInv)'
  BY NextIInv, NextLimits
<1> QED BY <1>1, <1>2, PTL DEF Spec

(* threads_get_request and mutex_get_request keep their limits exactly,    *)
(* for any number of threads, memory_get_request until a checkpoint; no    *)
(* runner of the cpu or threads test that has seen the limit leaves        *)
(* anything undone; and the mutex test makes each of its rounds.           *)
THEOREM LimitsKept ==
  ASSUME LimitsFit
  PROVE  Spec => []LimitsExact
<1>1. IInv /\ LimitInv => LimitsExact
  BY LimitsHold
<1> QED BY <1>1, LimitsInvariant, PTL

(* cpu_get_request and memory_get_request hand out more than their limits, *)
(* but no more than one request per other runner, and the total size once  *)
(* more per checkpoint.                                                    *)
THEOREM Overshoot ==
  ASSUME LimitsFit
  PROVE  Spec => []OvershootBounded
<1>1. IInv /\ LimitInv => OvershootBounded
  BY LimitsHold
<1> QED BY <1>1, LimitsInvariant, PTL
=============================================================================
