------------------------------ MODULE RunTest ------------------------------
(***************************************************************************)
(* The life of one test: run_test of sysbench.c as the master thread, the  *)
(* runner threads around their request loop, and the three helper threads  *)
(* (intermediate reports, event generator, report checkpoints) that        *)
(* run_test creates first and cancels last.                                *)
(*                                                                         *)
(* A mutex is its holder; one that was destroyed no longer excludes anyone *)
(* (pthread_mutex_lock fails and no caller looks at the result), and       *)
(* destroying a held mutex fails and leaves it as it is.  Cancellation is  *)
(* deferred: a cancelled thread ends at its next cancellation point and    *)
(* keeps the mutexes it holds.                                             *)
(***************************************************************************)
EXTENDS Integers, FiniteSets

CONSTANTS
  Threads,        \* the runner threads
  MaxRequests,    \* requests the test hands out before get_request says NULL
  MaxCheckpoints, \* bound on n_checkpoints
  Master,         \* the thread of run_test
  NoThread        \* the holder of a free mutex

Helpers == {"report", "eventgen", "checkpoints"}
Mutexes == {"thread_start", "exec", "report_interval"}
Everyone == Threads \cup Helpers \cup {Master}

ASSUME RunTestAssumption ==
  /\ IsFiniteSet(Threads)
  /\ Threads \cap Helpers = {}
  /\ MaxRequests \in Nat
  /\ MaxCheckpoints \in Nat
  /\ Master \notin Threads \cup Helpers
  /\ NoThread \notin Everyone

VARIABLES
  run_options,         \* what the command line and the test ask for
  master_pc,       \* where run_test is
  created,         \* the runner threads created so far
  exit_status,     \* of the process, once it has exited
  runner_pc,       \* where each runner is
  helper_pc,       \* where each helper is
  cancelled,       \* helpers with a cancellation request
  holder,          \* mutex -> the thread that holds it
  destroyed,       \* mutexes destroyed
  timers,          \* the state of exec_timer and of the cumulative timers
  report_interval, \* whether sb_globals.report_interval > 0
  num_running,     \* sb_globals.num_running
  error,           \* sb_globals.error
  dispensed,       \* requests handed out by the test's get_request
  interval,        \* whether the reporting thread's local interval_ns > 0
  checkpoint       \* the checkpoints thread's local i

masterVars == <<run_options, master_pc, created, exit_status, cancelled>>
helperLocals == <<interval, checkpoint>>
threadVars == <<runner_pc, helper_pc, helperLocals, dispensed>>
mutexVars  == <<holder, destroyed>>
globalVars == <<timers, report_interval, num_running, error>>
vars == <<masterVars, threadVars, mutexVars, globalVars>>

MasterPcs ==
  {"init", "prepare", "setup", "create_report", "create_eventgen",
   "create_checkpoints", "create_runners", "release", "join", "stop",
   "silence", "unlock", "cleanup", "stats", "destroy", "done",
   "cancel_report", "join_report", "destroy_interval", "cancel_eventgen",
   "join_eventgen", "cancel_checkpoints", "join_checkpoints", "return",
   "exited"}

RunnerPcs ==
  {"none", "init", "barrier", "loop", "request", "execute", "finish",
   "leave", "ended", "failed"}

HelperPcs ==
  {"none", "start", "barrier", "next", "sleep", "lock", "test", "print",
   "snapshot", "unlock", "spin", "ended"}

(* The runners num_running counts. *)
Running == {"loop", "request", "execute", "finish", "leave"}

(* The steps of run_test after it has joined the runners. *)
AfterJoin ==
  {"stop", "silence", "unlock", "cleanup", "stats", "destroy", "done",
   "cancel_report", "join_report", "destroy_interval", "cancel_eventgen",
   "join_eventgen", "cancel_checkpoints", "join_checkpoints", "return"}

(* The steps of run_test after it has silenced the intermediate reports. *)
AfterSilence == AfterJoin \ {"stop", "silence", "unlock"}

(* The options that matter: which helpers there are, and whether the test  *)
(* has a print_stats operation.                                            *)
Options ==
  [report : BOOLEAN, eventgen : BOOLEAN, n_checkpoints : 0 .. MaxCheckpoints,
   print_stats : BOOLEAN]

Wanted(h) ==
  CASE h = "report"      -> run_options.report
    [] h = "eventgen"    -> run_options.eventgen
    [] h = "checkpoints" -> run_options.n_checkpoints > 0

Init ==
  /\ run_options \in Options
  /\ master_pc = "init"
  /\ created = {}
  /\ exit_status = -1
  /\ runner_pc = [t \in Threads |-> "none"]
  /\ helper_pc = [h \in Helpers |-> "none"]
  /\ cancelled = {}
  /\ holder = [m \in Mutexes |-> NoThread]
  /\ destroyed = {}
  /\ timers = "none"
  /\ report_interval = run_options.report
  /\ num_running = 0
  /\ error = FALSE
  /\ dispensed = 0
  /\ interval = FALSE
  /\ checkpoint = 0
-----------------------------------------------------------------------------
(* pthread mutexes *)

CanLock(m) == m \in destroyed \/ holder[m] = NoThread

LockedBy(m, self) ==
  IF m \in destroyed THEN holder ELSE [holder EXCEPT ![m] = self]

UnlockedBy(m, self) ==
  IF holder[m] = self THEN [holder EXCEPT ![m] = NoThread] ELSE holder

DestroyedWith(ms) == destroyed \cup {m \in ms : holder[m] = NoThread}
-----------------------------------------------------------------------------
(* run_test, in the thread of main *)

MasterGoto(from, to) ==
  /\ master_pc = from
  /\ master_pc' = to
  /\ UNCHANGED exit_status

(* A step whose work leaves no trace in the state. *)
MasterMoves(from, to) ==
  /\ MasterGoto(from, to)
  /\ UNCHANGED <<run_options, created, cancelled, threadVars, mutexVars,
                 globalVars>>

MasterUnlocks(m, from, to) ==
  /\ MasterGoto(from, to)
  /\ holder' = UnlockedBy(m, Master)
  /\ UNCHANGED <<run_options, created, cancelled, threadVars, destroyed,
                 globalVars>>

MasterDestroys(ms, from, to) ==
  /\ MasterGoto(from, to)
  /\ destroyed' = DestroyedWith(ms)
  /\ UNCHANGED <<run_options, created, cancelled, threadVars, holder, globalVars>>

(* "return 1": main calls exit(1) and every thread is gone. *)
ReturnOne(from) ==
  /\ master_pc = from
  /\ master_pc' = "exited"
  /\ exit_status' = 1

(* The test's init operation, then the timers are initialized. *)
InitTest ==
  /\ \/ ReturnOne("init") /\ UNCHANGED timers
     \/ MasterGoto("init", "prepare") /\ timers' = "initialized"
  /\ UNCHANGED <<run_options, created, cancelled, threadVars, mutexVars,
                 report_interval, num_running, error>>

PrepareTest ==
  /\ ReturnOne("prepare") \/ MasterGoto("prepare", "setup")
  /\ UNCHANGED <<run_options, created, cancelled, threadVars, mutexVars,
                 globalVars>>

(* Faulty: the start mutex is initialized and not locked. *)
SetUpUnlocked ==
  /\ MasterGoto("setup", "create_report")
  /\ num_running' = 0
  /\ UNCHANGED <<run_options, created, cancelled, threadVars, mutexVars, timers,
                 report_interval, error>>

(* Initialize the mutexes and hold the one every thread starts with. *)
SetUp ==
  /\ MasterGoto("setup", "create_report")
  /\ holder' = LockedBy("thread_start", Master)
  /\ num_running' = 0
  /\ UNCHANGED <<run_options, created, cancelled, threadVars, destroyed, timers,
                 report_interval, error>>

(* pthread_create of a helper, if the options ask for it. *)
CreateHelper(h, from, to) ==
  /\ \/ Wanted(h) /\ ReturnOne(from) /\ UNCHANGED helper_pc
     \/ /\ Wanted(h)
        /\ MasterGoto(from, to)
        /\ helper_pc' = [helper_pc EXCEPT ![h] = "start"]
     \/ ~Wanted(h) /\ MasterGoto(from, to) /\ UNCHANGED helper_pc
  /\ UNCHANGED <<run_options, created, cancelled, runner_pc, helperLocals,
                 dispensed, mutexVars, globalVars>>

CreateHelpers ==
  \/ CreateHelper("report", "create_report", "create_eventgen")
  \/ CreateHelper("eventgen", "create_eventgen", "create_checkpoints")
  \/ CreateHelper("checkpoints", "create_checkpoints", "create_runners")

(* The next runner is created, unless a runner has already failed to       *)
(* initialize or pthread_create fails.                                     *)
CreateRunner ==
  /\ created # Threads
  /\ \/ ReturnOne("create_runners") /\ UNCHANGED <<created, runner_pc>>
     \/ /\ ~error
        /\ MasterGoto("create_runners", "create_runners")
        /\ \E t \in Threads \ created :
             /\ created' = created \cup {t}
             /\ runner_pc' = [runner_pc EXCEPT ![t] = "init"]
  /\ UNCHANGED <<run_options, cancelled, helper_pc, helperLocals, dispensed,
                 mutexVars, globalVars>>

(* All runners exist: start the timers. *)
StartTimers ==
  /\ created = Threads
  /\ MasterGoto("create_runners", "release")
  /\ timers' = "running"
  /\ UNCHANGED <<run_options, created, cancelled, threadVars, mutexVars,
                 report_interval, num_running, error>>

ReleaseThreads == MasterUnlocks("thread_start", "release", "join")

(* Faulty: one runner is not joined. *)
JoinRunnersButOne ==
  /\ \E u \in Threads : \A t \in Threads \ {u} :
       runner_pc[t] \in {"ended", "failed"}
  /\ MasterMoves("join", "stop")

JoinRunners ==
  /\ \A t \in Threads : runner_pc[t] \in {"ended", "failed"}
  /\ MasterMoves("join", "stop")

StopTimers ==
  /\ MasterGoto("stop", "silence")
  /\ timers' = "stopped"
  /\ UNCHANGED <<run_options, created, cancelled, threadVars, mutexVars,
                 report_interval, num_running, error>>

(* Silence the intermediate reports, under report_interval_mutex. *)
Silence ==
  /\ MasterGoto("silence", "unlock")
  /\ CanLock("report_interval")
  /\ holder' = LockedBy("report_interval", Master)
  /\ report_interval' = FALSE
  /\ UNCHANGED <<run_options, created, cancelled, threadVars, destroyed, timers,
                 num_running, error>>

UnlockInterval == MasterUnlocks("report_interval", "unlock", "cleanup")

(* The test's cleanup operation. *)
CleanupTest ==
  /\ ReturnOne("cleanup") \/ MasterGoto("cleanup", "stats")
  /\ UNCHANGED <<run_options, created, cancelled, threadVars, mutexVars,
                 globalVars>>

(* The test's cumulative print_stats, unless there was an error; it takes  *)
(* none of the mutexes.                                                    *)
PrintStats == MasterMoves("stats", "destroy")

(* rnd_mutex, which no thread holds across a step, goes with these two. *)
DestroyMutexes == MasterDestroys({"exec", "thread_start"}, "destroy", "done")

(* The test's done operation. *)
TestDone == MasterMoves("done", "cancel_report")

(* pthread_cancel and pthread_join of a helper, if it was created. *)
CancelHelper(h, from, joining, to) ==
  /\ IF Wanted(h)
       THEN MasterGoto(from, joining) /\ cancelled' = cancelled \cup {h}
       ELSE MasterGoto(from, to) /\ UNCHANGED cancelled
  /\ UNCHANGED <<run_options, created, threadVars, mutexVars, globalVars>>

JoinHelper(h, joining, to) ==
  /\ helper_pc[h] = "ended"
  /\ MasterMoves(joining, to)

StopReports ==
  \/ CancelHelper("report", "cancel_report", "join_report", "destroy_interval")
  \/ JoinHelper("report", "join_report", "destroy_interval")

DestroyInterval ==
  MasterDestroys({"report_interval"}, "destroy_interval", "cancel_eventgen")

StopEventgen ==
  \/ CancelHelper("eventgen", "cancel_eventgen", "join_eventgen",
                  "cancel_checkpoints")
  \/ JoinHelper("eventgen", "join_eventgen", "cancel_checkpoints")

StopCheckpoints ==
  \/ CancelHelper("checkpoints", "cancel_checkpoints", "join_checkpoints",
                  "return")
  \/ JoinHelper("checkpoints", "join_checkpoints", "return")

(* "return sb_globals.error != 0": main exits with 1, or prints the global *)
(* statistics, frees the per-thread timers (log_done) and exits with 0.    *)
Return ==
  /\ master_pc = "return"
  /\ master_pc' = "exited"
  /\ exit_status' = IF error THEN 1 ELSE 0
  /\ UNCHANGED <<run_options, created, cancelled, threadVars, mutexVars,
                 globalVars>>
-----------------------------------------------------------------------------
(* runner_thread *)

RunnerGoto(t, from, to) ==
  /\ master_pc # "exited"
  /\ runner_pc[t] = from
  /\ runner_pc' = [runner_pc EXCEPT ![t] = to]

RunnerMoves(t, from, to) ==
  /\ RunnerGoto(t, from, to)
  /\ UNCHANGED <<masterVars, helper_pc, helperLocals, dispensed, mutexVars,
                 globalVars>>

(* A runner counts itself in or out, inside thread_start_mutex. *)
RunnerCounts(t, n, from, to) ==
  /\ RunnerGoto(t, from, to)
  /\ CanLock("thread_start")
  /\ num_running' = num_running + n
  /\ UNCHANGED <<masterVars, helper_pc, helperLocals, dispensed, mutexVars,
                 timers, report_interval, error>>

(* Faulty: a failed thread_init goes unnoticed. *)
ThreadInitUnnoticed(t) ==
  \/ RunnerMoves(t, "init", "barrier")
  \/ RunnerMoves(t, "init", "failed")

(* The test's thread_init; a failure is a global error. *)
ThreadInit(t) ==
  /\ \/ RunnerGoto(t, "init", "barrier") /\ UNCHANGED error
     \/ RunnerGoto(t, "init", "failed") /\ error' = TRUE
  /\ UNCHANGED <<masterVars, helper_pc, helperLocals, dispensed, mutexVars,
                 timers, report_interval, num_running>>

(* The barrier: lock, num_running++, unlock. *)
PassBarrier(t) == RunnerCounts(t, 1, "barrier", "loop")

(* The test's get_request, under exec_mutex. *)
LockRequest(t) ==
  /\ RunnerGoto(t, "loop", "request")
  /\ CanLock("exec")
  /\ holder' = LockedBy("exec", t)
  /\ UNCHANGED <<masterVars, helper_pc, helperLocals, dispensed, destroyed,
                 globalVars>>

(* A NULL request ends the loop. *)
GetRequest(t) ==
  /\ LET null == dispensed >= MaxRequests IN
       /\ RunnerGoto(t, "request", IF null THEN "finish" ELSE "execute")
       /\ dispensed' = IF null THEN dispensed ELSE dispensed + 1
  /\ holder' = UnlockedBy("exec", t)
  /\ UNCHANGED <<masterVars, helper_pc, helperLocals, destroyed, globalVars>>

(* The request is executed; it goes on until a global error or the time    *)
(* limit.                                                                  *)
ExecuteOk(t) ==
  \/ ~error /\ RunnerMoves(t, "execute", "loop")
  \/ RunnerMoves(t, "execute", "finish")

(* The request fails: the loop ends.  SQL scripts raise the global error   *)
(* as well, the other tests do not.                                        *)
ExecuteFail(t) ==
  /\ RunnerGoto(t, "execute", "finish")
  /\ error' \in {error, TRUE}
  /\ UNCHANGED <<masterVars, helper_pc, helperLocals, dispensed, mutexVars,
                 timers, report_interval, num_running>>

ThreadDone(t) == RunnerMoves(t, "finish", "leave")

Leave(t) == RunnerCounts(t, -1, "leave", "ended")
-----------------------------------------------------------------------------
(* The helper threads *)

HelperGoto(h, from, to) ==
  /\ master_pc # "exited"
  /\ helper_pc[h] = from
  /\ helper_pc' = [helper_pc EXCEPT ![h] = to]

HelperMoves(h, from, to) ==
  /\ HelperGoto(h, from, to)
  /\ UNCHANGED <<masterVars, runner_pc, helperLocals, dispensed, mutexVars,
                 globalVars>>

HelperLocks(h, m, from, to) ==
  /\ HelperGoto(h, from, to)
  /\ CanLock(m)
  /\ holder' = LockedBy(m, h)
  /\ UNCHANGED <<masterVars, runner_pc, helperLocals, dispensed, destroyed,
                 globalVars>>

HelperUnlocks(h, m, from, to) ==
  /\ HelperGoto(h, from, to)
  /\ holder' = UnlockedBy(m, h)
  /\ UNCHANGED <<masterVars, runner_pc, helperLocals, dispensed, destroyed,
                 globalVars>>

(* The reporting thread copies report_interval into its interval_ns; the   *)
(* reporting threads return at once if the test cannot print_stats.        *)
HelperStart(h) ==
  /\ HelperGoto(h, "start",
       IF h # "eventgen" /\ ~run_options.print_stats THEN "ended" ELSE "barrier")
  /\ interval' = IF h = "report" THEN report_interval ELSE interval
  /\ UNCHANGED <<masterVars, runner_pc, checkpoint, dispensed, mutexVars,
                 globalVars>>

(* Lock and unlock the start mutex. *)
HelperBarrier(h) ==
  /\ CanLock("thread_start")
  /\ HelperMoves(h, "barrier", IF h = "checkpoints" THEN "next" ELSE "sleep")

(* usleep, and the printf calls of the reports, are cancellation points. *)
HelperCancelled(h) ==
  /\ h \in cancelled
  /\ \E p \in {"sleep", "print", "snapshot"} : HelperMoves(h, p, "ended")

(* usleep ends. *)
HelperWake(h) ==
  /\ h \notin cancelled
  /\ HelperMoves(h, "sleep", IF h = "eventgen" THEN "unlock" ELSE "lock")

(* The generator has queued an event: it returns if the queue is full. *)
EventgenQueued ==
  \E to \in {"sleep", "ended"} : HelperMoves("eventgen", "unlock", to)

(* report_thread_proc *)

ReportLock == HelperLocks("report", "report_interval", "lock", "test")

(* Faulty: the reporting thread does not look at report_interval. *)
ReportTestIgnored == HelperMoves("report", "test", "print")

ReportTest ==
  HelperMoves("report", "test", IF report_interval THEN "print" ELSE "unlock")

(* print_stats(SB_STAT_INTERMEDIATE) moves its last_* values forward under *)
(* exec_mutex.                                                             *)
ReportPrint == HelperLocks("report", "exec", "print", "snapshot")

ReportSnapshot == HelperUnlocks("report", "exec", "snapshot", "unlock")

(* Unlock and compute the next pause: the loop that skips the missed       *)
(* reports adds interval_ns until the sum has passed the clock.            *)
ReportUnlock ==
  HelperUnlocks("report", "report_interval", "unlock",
                IF interval THEN "sleep" ELSE "spin")

(* With an interval_ns of 0 that loop never ends, and has no cancellation  *)
(* point.                                                                  *)
ReportSpin ==
  /\ master_pc # "exited"
  /\ helper_pc["report"] = "spin"
  /\ UNCHANGED vars

(* checkpoints_thread_proc *)

(* The next checkpoint: none left, already in the past, or sleep for it. *)
CheckpointNext ==
  /\ \/ /\ checkpoint = run_options.n_checkpoints
        /\ HelperGoto("checkpoints", "next", "ended")
        /\ UNCHANGED checkpoint
     \/ /\ checkpoint < run_options.n_checkpoints
        /\ \/ /\ HelperGoto("checkpoints", "next", "next")
              /\ checkpoint' = checkpoint + 1
           \/ /\ HelperGoto("checkpoints", "next", "sleep")
              /\ UNCHANGED checkpoint
  /\ UNCHANGED <<masterVars, runner_pc, interval, dispensed, mutexVars,
                 globalVars>>

CheckpointLock == HelperLocks("checkpoints", "exec", "lock", "print")

(* print_stats(SB_STAT_CUMULATIVE) and print_global_stats. *)
CheckpointPrint == HelperMoves("checkpoints", "print", "unlock")

(* Faulty: exec_mutex is not released. *)
CheckpointKeepsLock ==
  /\ HelperGoto("checkpoints", "unlock", "next")
  /\ checkpoint' = checkpoint + 1
  /\ UNCHANGED <<masterVars, runner_pc, interval, dispensed, mutexVars,
                 globalVars>>

CheckpointUnlock ==
  /\ HelperGoto("checkpoints", "unlock", "next")
  /\ holder' = UnlockedBy("exec", "checkpoints")
  /\ checkpoint' = checkpoint + 1
  /\ UNCHANGED <<masterVars, runner_pc, interval, dispensed, destroyed,
                 globalVars>>
-----------------------------------------------------------------------------
MasterStep ==
  \/ InitTest \/ PrepareTest \/ SetUp \/ CreateHelpers \/ CreateRunner
  \/ StartTimers \/ ReleaseThreads \/ JoinRunners \/ StopTimers \/ Silence
  \/ UnlockInterval \/ CleanupTest \/ PrintStats \/ DestroyMutexes \/ TestDone
  \/ StopReports \/ DestroyInterval \/ StopEventgen \/ StopCheckpoints
  \/ Return

RunnerStep(t) ==
  \/ ThreadInit(t) \/ PassBarrier(t) \/ LockRequest(t) \/ GetRequest(t)
  \/ ExecuteOk(t) \/ ExecuteFail(t) \/ ThreadDone(t) \/ Leave(t)

ReportStep ==
  \/ ReportLock \/ ReportTest \/ ReportPrint \/ ReportSnapshot \/ ReportUnlock
  \/ ReportSpin

CheckpointStep ==
  \/ CheckpointNext \/ CheckpointLock \/ CheckpointPrint \/ CheckpointUnlock

HelperStep(h) ==
  \/ HelperStart(h) \/ HelperBarrier(h) \/ HelperCancelled(h) \/ HelperWake(h)
  \/ h = "report" /\ ReportStep
  \/ h = "eventgen" /\ EventgenQueued
  \/ h = "checkpoints" /\ CheckpointStep

Exited == master_pc = "exited" /\ UNCHANGED vars

Next ==
  \/ MasterStep
  \/ \E t \in Threads : RunnerStep(t)
  \/ \E h \in Helpers : HelperStep(h)
  \/ Exited

Spec == Init /\ [][Next]_vars

(* Every thread that can run is scheduled.  Two mutexes are taken again    *)
(* and again by the reporting thread, with a sleep in between during which *)
(* they are free: a thread that waits for one of them gets it.             *)
Fairness ==
  /\ WF_vars(MasterStep) /\ SF_vars(Silence)
  /\ \A t \in Threads : WF_vars(RunnerStep(t)) /\ SF_vars(LockRequest(t))
  /\ \A h \in Helpers : WF_vars(HelperStep(h))

FairSpec == Spec /\ Fairness
-----------------------------------------------------------------------------
(* Properties *)

(* Every variable has its type; in particular the index of the checkpoints *)
(* thread stays within the list of checkpoints.                            *)
TypeOK ==
  /\ run_options \in Options
  /\ master_pc \in MasterPcs
  /\ created \in SUBSET Threads
  /\ exit_status \in -1 .. 1
  /\ runner_pc \in [Threads -> RunnerPcs]
  /\ helper_pc \in [Helpers -> HelperPcs]
  /\ cancelled \in SUBSET Helpers
  /\ holder \in [Mutexes -> Everyone \cup {NoThread}]
  /\ destroyed \in SUBSET Mutexes
  /\ timers \in {"none", "initialized", "running", "stopped"}
  /\ report_interval \in BOOLEAN
  /\ num_running \in Int
  /\ error \in BOOLEAN
  /\ dispensed \in 0 .. MaxRequests
  /\ interval \in BOOLEAN
  /\ checkpoint \in 0 .. MaxCheckpoints

(* Once run_test has silenced the intermediate reports, no such report is  *)
(* under way or will begin: the cumulative statistics are the last word,   *)
(* and the test's done operation frees nothing a report still reads.       *)
SilentReports ==
  master_pc \in AfterSilence =>
    helper_pc["report"] \notin {"print", "snapshot"}

(* The threads between the lock and the unlock of a mutex.  (The start     *)
(* mutex is only ever locked and unlocked again, but for run_test.)        *)
Inside(m) ==
  CASE m = "exec" ->
         {t \in Threads : runner_pc[t] = "request"}
           \cup {h \in {"report"} : helper_pc[h] = "snapshot"}
           \cup {h \in {"checkpoints"} : helper_pc[h] \in {"print", "unlock"}}
    [] m = "report_interval" ->
         {h \in {"report"} :
            helper_pc[h] \in {"test", "print", "snapshot", "unlock"}}
           \cup {x \in {Master} : master_pc = "unlock"}

(* exec_mutex and report_interval_mutex exclude: a request is handed out,  *)
(* a report moves its last values and a checkpoint prints and resets one   *)
(* at a time, although run_test destroys exec_mutex while the checkpoints  *)
(* thread still goes on to lock it, after which it excludes nobody.        *)
SectionsExclusive ==
  \A m \in {"exec", "report_interval"} : \A x, y \in Inside(m) : x = y

(* Exit status 0, which also means that the per-thread timers were freed,  *)
(* is given only if every runner was started, none failed to initialize    *)
(* and no thread is left.                                                  *)
ExitStatusTruthful ==
  exit_status = 0 =>
    /\ \A t \in Threads : runner_pc[t] = "ended"
    /\ \A h \in Helpers : helper_pc[h] \in {"none", "ended"}
    /\ num_running = 0

(* The barrier: no runner enters its loop before every runner was created. *)
BarrierHolds ==
  [][\A t \in Threads :
       runner_pc[t] = "barrier" /\ runner_pc'[t] = "loop" =>
         created = Threads]_vars

(* The process exits, with one exception: run_test is never stuck behind a *)
(* thread it joins or a mutex it needs, unless the reporting thread was    *)
(* scheduled for the first time only after the reports had been silenced.  *)
ExitsUnlessReportLate ==
  <>(\/ master_pc = "exited"
     \/ helper_pc["report"] = "spin" /\ master_pc \in AfterSilence)

=============================================================================
