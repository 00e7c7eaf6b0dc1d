------------------------------ MODULE Requests ------------------------------
(***************************************************************************)
(* The four tests that need no external service: cpu, threads, mutex and   *)
(* memory.  Each hands out requests from counters its runners share, and   *)
(* executes them on mutexes or buffers they share.  One behaviour is one   *)
(* run of one of the tests, chosen with its options in the initial state,  *)
(* from its init to its done function; for the memory test the reporting   *)
(* and checkpoint threads of sysbench.c print statistics meanwhile, the    *)
(* latter until run_test cancels it, which it does last.                   *)
(*                                                                         *)
(* A critical section is one step, unless another thread uses its data     *)
(* without the mutex: then each access is a step of its own.  The thread   *)
(* life cycle around the request loop is in RunTest.                       *)
(***************************************************************************)
EXTENDS Integers, FiniteSets

CONSTANTS
  Threads,       \* the runner threads
  Configs,       \* the tests with their options, see Config
  max_requests,  \* --max-requests, 0 for no limit
  MaxReports,    \* bound on the intermediate reports
  MaxCheckpoints,\* bound on the report checkpoints
  UINT,          \* 2^w for the w bits of unsigned int
  NoThread       \* the holder of a free mutex

(* The test to run with the options the command line gave it. *)
Config ==
  [test : {"cpu"}, prime : Int]
    \cup [test : {"threads"}, yields : Nat, locks : Nat \ {0}]
    \cup [test : {"mutex"}, num : Nat \ {0}, loops : Nat, locks : Nat]
    \cup [test : {"memory"}, block : Nat, total : Nat,
          scope : {"global", "local", "invalid"},
          oper : {"read", "write", "none", "invalid"},
          access : {"seq", "rnd", "invalid"}]

ASSUME RequestsAssumption ==
  /\ IsFiniteSet(Threads) /\ Threads # {}
  /\ \A c \in Configs : c \in Config
  /\ max_requests \in Nat
  /\ MaxReports \in Nat
  /\ MaxCheckpoints \in Nat
  /\ UINT \in Nat \ {0}
  /\ NoThread \notin Threads \cup {"checkpoint"}

VARIABLES
  cfg,            \* the test and its options
  stage,          \* of the test: "start", "run", "done", or "failed"
  pc,             \* where each runner is in its request loop
  expired,        \* --max-time has passed
  locks,          \* the mutexes of the threads and mutex tests: index -> holder
  exec_mutex,     \* its holder
  clearing,       \* who has printed the numbers and not yet cleared them
  buffers,        \* the buffers allocated: runners', or NoThread's for all
  req_performed,  \* the request counter of the cpu and threads tests
  left,           \* rounds of its request a runner still has to make
  lock_num,       \* the mutex a runner's request works on
  global_var,     \* the counter of the mutex test
  loaded,         \* the value a runner has loaded for its increment
  total_ops, total_bytes, last_bytes, \* the statistics of the memory test
  reports,        \* intermediate reports printed so far
  checkpoints,    \* checkpoints begun so far
  granted,        \* history: requests handed out
  rounds,         \* history: increments of global_var completed
  reported,       \* history: bytes the cumulative reports have shown
  overlap         \* history: two of them printed before either had cleared

statVars == <<total_ops, total_bytes, last_bytes, reported, overlap>>
workVars == <<locks, lock_num, left, global_var, loaded, rounds>>
vars == <<cfg, stage, pc, expired, exec_mutex, clearing, buffers, req_performed,
          reports, checkpoints, granted, statVars, workVars>>

Init ==
  /\ cfg \in Configs
  /\ stage = "start"
  /\ pc = [t \in Threads |-> "get"]
  /\ expired = FALSE
  /\ locks = << >>
  /\ exec_mutex = NoThread
  /\ clearing = {}
  /\ buffers = {}
  /\ req_performed = 0
  /\ left = [t \in Threads |-> 0]
  /\ lock_num = [t \in Threads |-> 0]
  /\ global_var = 0
  /\ loaded = [t \in Threads |-> 0]
  /\ total_ops = 0 /\ total_bytes = 0 /\ last_bytes = 0
  /\ reports = 0
  /\ checkpoints = 0
  /\ granted = 0
  /\ rounds = 0
  /\ reported = 0
  /\ overlap = FALSE
-----------------------------------------------------------------------------
(* init and prepare *)

(* What an init function comes to: the run begins, or the program ends. *)
Begin(ok) == stage' = IF ok THEN "run" ELSE "failed"

cpu_init ==
  /\ cfg.test = "cpu"
  /\ Begin(cfg.prime > 0)
  /\ UNCHANGED <<locks, buffers>>

(* n free mutexes, or none if they cannot be allocated. *)
AllocateLocks(n) ==
  \E ok \in BOOLEAN :
    /\ Begin(ok)
    /\ locks' = IF ok THEN [i \in 0 .. n - 1 |-> NoThread] ELSE << >>
    /\ UNCHANGED buffers

(* threads_init only reads the options. *)
threads_prepare == cfg.test = "threads" /\ AllocateLocks(cfg.locks)

mutex_init == cfg.test = "mutex" /\ AllocateLocks(cfg.num)

(* The buffers that the scope asks for are allocated one after the other:  *)
(* the first failure ends the program with those before it.                *)
memory_init ==
  LET wanted == IF cfg.scope = "global" THEN {NoThread} ELSE Threads
      valid == /\ cfg.block % 4 = 0
               /\ cfg.scope # "invalid"
               /\ cfg.oper # "invalid"
               /\ cfg.access # "invalid"
  IN
  /\ cfg.test = "memory"
  /\ \/ ~valid /\ Begin(FALSE) /\ UNCHANGED buffers
     \/ valid /\ Begin(TRUE) /\ buffers' = wanted
     \/ /\ valid /\ Begin(FALSE)
        /\ \E got \in SUBSET wanted : got # wanted /\ buffers' = got
  /\ UNCHANGED locks

TestInit ==
  /\ stage = "start"
  /\ \/ cpu_init \/ threads_prepare \/ mutex_init \/ memory_init
  /\ UNCHANGED <<cfg, pc, expired, exec_mutex, clearing, req_performed, left, lock_num,
                 global_var, loaded, rounds, reports, checkpoints, granted,
                 statVars>>
-----------------------------------------------------------------------------
(* The request loop of a runner *)

Goto(t, from, to) ==
  /\ stage = "run"
  /\ pc[t] = from
  /\ pc' = [pc EXCEPT ![t] = to]

(* Faulty: one request too many. *)
LimitReachedLate == max_requests > 0 /\ req_performed > max_requests

LimitReached == max_requests > 0 /\ req_performed >= max_requests

UnchangedByLoop ==
  UNCHANGED <<cfg, stage, expired, exec_mutex, clearing, buffers, reports, checkpoints>>

(* The limit is tested without the mutex ... *)
CpuTest(t) ==
  /\ cfg.test = "cpu"
  /\ Goto(t, "get", IF LimitReached THEN "done" ELSE "count")
  /\ UnchangedByLoop
  /\ UNCHANGED <<req_performed, granted, workVars, statVars>>

(* ... that the increment takes. *)
CpuCount(t) ==
  /\ Goto(t, "count", "exec")
  /\ req_performed' = (req_performed + 1) % UINT
  /\ granted' = granted + 1
  /\ UnchangedByLoop
  /\ UNCHANGED <<workVars, statVars>>

ThreadsGet(t) ==
  /\ cfg.test = "threads"
  /\ \/ /\ LimitReached
        /\ Goto(t, "get", "done")
        /\ UNCHANGED <<lock_num, left, req_performed, granted>>
     \/ /\ ~LimitReached
        /\ Goto(t, "get", "exec")
        /\ lock_num' = [lock_num EXCEPT ![t] = req_performed % cfg.locks]
        /\ left' = [left EXCEPT ![t] = cfg.yields]
        /\ req_performed' = (req_performed + 1) % UINT
        /\ granted' = granted + 1
  /\ exec_mutex = NoThread
  /\ UnchangedByLoop
  /\ UNCHANGED <<locks, global_var, loaded, rounds, statVars>>

(* The mutex test never runs out of requests. *)
MutexGet(t) ==
  /\ cfg.test = "mutex"
  /\ Goto(t, "get", "exec")
  /\ left' = [left EXCEPT ![t] = cfg.locks]
  /\ granted' = granted + 1
  /\ UnchangedByLoop
  /\ UNCHANGED <<req_performed, locks, lock_num, global_var, loaded, rounds,
                 statVars>>

MemoryGet(t) ==
  /\ cfg.test = "memory"
  /\ exec_mutex = NoThread
  /\ \/ /\ total_bytes >= cfg.total
        /\ Goto(t, "get", "done")
        /\ UNCHANGED <<total_ops, total_bytes, granted>>
     \/ /\ total_bytes < cfg.total
        /\ Goto(t, "get", "exec")
        /\ total_ops' = (total_ops + 1) % UINT
        /\ total_bytes' = total_bytes + cfg.block
        /\ granted' = granted + 1
  /\ UnchangedByLoop
  /\ UNCHANGED <<req_performed, last_bytes, reported, overlap, workVars>>

(* The end of the loop: an executed request, or one that returned an error,*)
(* which ends this thread only; --max-time ends it too.                    *)
Executed(t, from, rc) ==
  Goto(t, from, IF rc # 0 \/ expired THEN "done" ELSE "get")

(* The prime numbers are counted in local variables only. *)
cpu_execute_request(t) ==
  /\ cfg.test = "cpu"
  /\ Executed(t, "exec", 0)
  /\ UnchangedByLoop
  /\ UNCHANGED <<req_performed, granted, workVars, statVars>>

(* thread_yields rounds of lock, yield and unlock. *)
ThreadsLock(t) ==
  /\ cfg.test = "threads"
  /\ left[t] > 0
  /\ Goto(t, "exec", "yield")
  /\ locks[lock_num[t]] = NoThread
  /\ locks' = [locks EXCEPT ![lock_num[t]] = t]
  /\ UnchangedByLoop
  /\ UNCHANGED <<req_performed, granted, lock_num, left, global_var, loaded,
                 rounds, statVars>>

(* Faulty: the rounds are not counted. *)
ThreadsUnlockUncounted(t) ==
  /\ Goto(t, "yield", "exec")
  /\ locks' = [locks EXCEPT ![lock_num[t]] = NoThread]
  /\ UnchangedByLoop
  /\ UNCHANGED <<req_performed, granted, lock_num, left, global_var, loaded,
                 rounds, statVars>>

ThreadsUnlock(t) ==
  /\ Goto(t, "yield", "exec")
  /\ locks' = [locks EXCEPT ![lock_num[t]] = NoThread]
  /\ left' = [left EXCEPT ![t] = @ - 1]
  /\ UnchangedByLoop
  /\ UNCHANGED <<req_performed, granted, lock_num, global_var, loaded, rounds,
                 statVars>>

ThreadsDone(t) ==
  /\ cfg.test = "threads"
  /\ left[t] = 0
  /\ Executed(t, "exec", 0)
  /\ UnchangedByLoop
  /\ UNCHANGED <<req_performed, granted, workVars, statVars>>

(* One round of the mutex test: a random mutex is chosen, free or not, ... *)
MutexPick(t) ==
  /\ cfg.test = "mutex"
  /\ Goto(t, "exec", "lock")
  /\ \E i \in DOMAIN locks : lock_num' = [lock_num EXCEPT ![t] = i]
  /\ UnchangedByLoop
  /\ UNCHANGED <<req_performed, granted, locks, left, global_var, loaded,
                 rounds, statVars>>

(* ... and locked, and a counter that all of the mutexes share is loaded   *)
(* and stored.                                                             *)
MutexLock(t) ==
  /\ Goto(t, "lock", "store")
  /\ locks[lock_num[t]] = NoThread
  /\ locks' = [locks EXCEPT ![lock_num[t]] = t]
  /\ loaded' = [loaded EXCEPT ![t] = global_var]
  /\ UnchangedByLoop
  /\ UNCHANGED <<req_performed, granted, lock_num, left, global_var, rounds,
                 statVars>>

(* The store, the unlock and the countdown, which wraps if the request     *)
(* asked for no round at all; the request over, the runner ends.           *)
MutexUnlock(t) ==
  LET more == (left[t] - 1) % UINT IN
  /\ IF more > 0 THEN Goto(t, "store", "exec") ELSE Executed(t, "store", 1)
  /\ global_var' = (loaded[t] + 1) % UINT
  /\ locks' = [locks EXCEPT ![lock_num[t]] = NoThread]
  /\ left' = [left EXCEPT ![t] = more]
  /\ rounds' = rounds + 1
  /\ loaded' = [loaded EXCEPT ![t] = 0]
  /\ UnchangedByLoop
  /\ UNCHANGED <<req_performed, granted, lock_num, statVars>>

(* A random access knows no "none" operation: the request fails. *)
memory_execute_request(t) ==
  /\ cfg.test = "memory"
  /\ (IF cfg.scope = "global" THEN NoThread ELSE t) \in buffers
  /\ Executed(t, "exec", IF cfg.access = "rnd" /\ cfg.oper = "none" THEN 1 ELSE 0)
  /\ UnchangedByLoop
  /\ UNCHANGED <<req_performed, granted, workVars, statVars>>
-----------------------------------------------------------------------------
(* The other threads *)

RunnersEnded == \A t \in Threads : pc[t] = "done"

(* --max-time passes. *)
Expire ==
  /\ stage = "run" /\ ~expired
  /\ expired' = TRUE
  /\ UNCHANGED <<cfg, stage, pc, exec_mutex, clearing, buffers, req_performed, reports,
                 checkpoints, granted, statVars, workVars>>

(* SB_STAT_INTERMEDIATE: inside exec_mutex, and silenced by run_test before *)
(* it prints.                                                              *)
PrintIntermediate ==
  /\ cfg.test = "memory" /\ stage = "run"
  /\ "master" \notin clearing
  /\ reports < MaxReports
  /\ reports' = reports + 1
  /\ exec_mutex = NoThread
  /\ last_bytes' = total_bytes
  /\ UNCHANGED <<cfg, stage, pc, expired, exec_mutex, clearing, buffers,
                 req_performed, checkpoints, granted, total_ops, total_bytes,
                 reported, overlap, workVars>>

(* SB_STAT_CUMULATIVE prints first and then clears. *)
PrintStats(self) ==
  /\ cfg.test = "memory"
  /\ self \notin clearing
  /\ clearing' = clearing \cup {self}
  /\ reported' = reported + total_bytes
  /\ overlap' = (overlap \/ clearing # {})
  /\ UNCHANGED <<cfg, stage, pc, expired, buffers, req_performed, reports,
                 granted, total_ops, total_bytes, last_bytes, workVars>>

Clear(self) ==
  /\ self \in clearing
  /\ clearing' = clearing \ {self}
  /\ total_ops' = 0 /\ total_bytes' = 0
  /\ UNCHANGED <<cfg, pc, expired, buffers, req_performed, reports,
                 checkpoints, granted, last_bytes, reported, overlap, workVars>>

(* Faulty: the checkpoint thread prints without exec_mutex. *)
CheckpointPrintUnlocked ==
  /\ stage \in {"run", "done"}
  /\ UNCHANGED exec_mutex
  /\ checkpoints < MaxCheckpoints
  /\ checkpoints' = checkpoints + 1
  /\ PrintStats("checkpoint")

(* A checkpoint holds exec_mutex all the while. *)
CheckpointPrint ==
  /\ stage \in {"run", "done"}
  /\ exec_mutex = NoThread
  /\ exec_mutex' = "checkpoint"
  /\ checkpoints < MaxCheckpoints
  /\ checkpoints' = checkpoints + 1
  /\ PrintStats("checkpoint")

CheckpointReset ==
  /\ Clear("checkpoint")
  /\ exec_mutex' = NoThread
  /\ UNCHANGED stage

(* run_test has cancelled the checkpoint thread, which ends in its printf  *)
(* and keeps exec_mutex.                                                   *)
CheckpointCancelled ==
  /\ stage = "done"
  /\ "checkpoint" \in clearing
  /\ clearing' = clearing \ {"checkpoint"}
  /\ UNCHANGED <<cfg, stage, pc, expired, exec_mutex, buffers, req_performed,
                 reports, checkpoints, granted, statVars, workVars>>

(* run_test prints the final statistics when the runners have ended, and   *)
(* does not take exec_mutex for it: a checkpoint may be under way.         *)
FinalPrint ==
  /\ stage = "run" /\ RunnersEnded
  /\ PrintStats("master")
  /\ UNCHANGED <<exec_mutex, checkpoints>>

(* The memory test has no done function. *)
FinalReset ==
  /\ Clear("master")
  /\ stage' = "done"
  /\ UNCHANGED exec_mutex

(* The other tests have no statistics; their done functions destroy and    *)
(* free what init made.                                                    *)
TestDone ==
  /\ stage = "run" /\ RunnersEnded
  /\ cfg.test # "memory"
  /\ stage' = "done"
  /\ locks' = << >>
  /\ UNCHANGED <<cfg, pc, expired, exec_mutex, clearing, buffers,
                 req_performed, left, lock_num, global_var, loaded, rounds,
                 reports, checkpoints, granted, statVars>>

Terminated == stage \in {"done", "failed"} /\ UNCHANGED vars

RunnerStep(t) ==
  \/ CpuTest(t) \/ CpuCount(t) \/ cpu_execute_request(t)
  \/ ThreadsGet(t) \/ ThreadsLock(t) \/ ThreadsUnlock(t) \/ ThreadsDone(t)
  \/ MutexGet(t) \/ MutexPick(t) \/ MutexLock(t) \/ MutexUnlock(t)
  \/ MemoryGet(t) \/ memory_execute_request(t)

Next ==
  \/ TestInit
  \/ \E t \in Threads : RunnerStep(t)
  \/ Expire
  \/ PrintIntermediate
  \/ CheckpointPrint
  \/ CheckpointReset
  \/ CheckpointCancelled
  \/ FinalPrint
  \/ FinalReset
  \/ TestDone
  \/ Terminated

Spec == Init /\ [][Next]_vars

(* Threads are scheduled.  No report, and no time limit, is promised.      *)
Fairness ==
  /\ WF_vars(TestInit)
  /\ \A t \in Threads : WF_vars(RunnerStep(t))
  /\ WF_vars(CheckpointReset)
  /\ WF_vars(FinalPrint) /\ WF_vars(FinalReset)
  /\ WF_vars(TestDone)

FairSpec == Spec /\ Fairness
-----------------------------------------------------------------------------
RoundUp(n, m) == ((n + m - 1) \div m) * m

(* The limits make sense: the request counter of the cpu and threads tests *)
(* does not wrap before its limit (max_requests and num_threads are both   *)
(* read as ints that are not negative), neither does mutex_locks, and the  *)
(* blocks of the memory test are not empty, or it would never end.         *)
LimitsFit ==
  /\ max_requests + Cardinality(Threads) <= UINT
  /\ \A c \in Configs : c.test = "mutex" => c.locks < UINT
  /\ \A c \in Configs : c.test = "memory" => c.block > 0

(* The threads test hands out exactly max_requests, the mutex test one     *)
(* request per runner, and the memory test, as long as no checkpoint has   *)
(* cleared its counter, the total size in whole blocks.  A runner of the   *)
(* cpu or threads test that has seen the limit leaves nothing undone.  The *)
(* mutex test protects one counter with several mutexes, so that           *)
(* increments can be lost, but each round is made exactly once (with       *)
(* --mutex-locks=0, as many as an unsigned int has values).                *)
LimitsExact ==
  LET N == Cardinality(Threads) IN
  /\ cfg.test = "threads" /\ max_requests > 0 => granted <= max_requests
  /\ cfg.test = "mutex" => granted <= N
  /\ cfg.test = "memory" /\ checkpoints = 0 =>
       granted * cfg.block <= RoundUp(cfg.total, cfg.block)
  /\ stage = "done" /\ ~expired /\ cfg.test \in {"cpu", "threads"} =>
       granted >= max_requests
  /\ stage = "done" /\ cfg.test = "mutex" =>
       /\ rounds = N * (IF cfg.locks = 0 THEN UINT ELSE cfg.locks)
       /\ rounds < UINT => global_var \in 1 .. rounds

(* The cumulative reports of the memory test divide the transfer: until    *)
(* run_test prints the last one, every block handed out is in exactly one  *)
(* report or still in the counter, in spite of the runners that count      *)
(* while a checkpoint prints and clears; in the end every block was        *)
(* reported, and only once unless a checkpoint and the final report, which *)
(* does not wait for it, have met.                                         *)
ReportsPartition ==
  cfg.test = "memory" =>
    /\ stage = "run" /\ clearing = {} =>
         reported + total_bytes = granted * cfg.block
    /\ stage = "done" =>
         /\ total_bytes = 0
         /\ reported >= granted * cfg.block
         /\ ~overlap => reported = granted * cfg.block

(* The run ends, with a limit on the requests and however late the time    *)
(* limit: no set of runners blocks the others for good on the mutexes of   *)
(* the test, and a checkpoint's restart of the memory test is one of       *)
(* finitely many.                                                          *)
Finishes == <>(stage \in {"done", "failed"})

=============================================================================
