# A TLA+ verification of sysbench 0.5

This directory models sysbench (`src/sysbench-0.5/sysbench`) and the compiler,
virtual machine and garbage collector of the Lua interpreter it embeds, checks
the models with TLC and proves theorems about them with TLAPS. The rest of the
repository is a collection of MySQL notes, SQL dumps and shell scripts without
a program of its own. Paths below are relative to `src/sysbench-0.5/sysbench`.

## 1. The system

| Part | State it keeps | Operations | Interacts with |
|---|---|---|---|
| **main and init** (`sysbench.c`) | the command line, `sb_globals` | parse, register, dispatch a command, init | options, tests, drivers |
| **Options** (`sb_options.c`) | the set of options | registration, set, list values, sizes, configuration files | main, every test |
| **run_test** (`sysbench.c` 731-917) | `threads`, the global timers, `report_interval`, `error` | init, prepare, create threads, open the barrier, join, stop timers, silence reports, cleanup, final statistics, cancel helpers | every thread, the test's operations |
| **Runner threads** (461-558) | `num_running`, `concurrency` | thread_init, barrier, request loop, thread_done | the test, the event queue |
| **Event queue** (tx-rate mode; 490-548, 560-625) | `queue_array`, `event_queue`, `event_queue_length`, `queue_is_full`, a mutex and a condition variable | stamp, link, signal; wait, unlink | generator and runners |
| **Reporting thread** (629-675) | its interval and deadlines | sleep, lock `report_interval_mutex`, `print_stats(SB_STAT_INTERMEDIATE)` | run_test, the test's statistics |
| **Checkpoint thread** (679-723) | its index | sleep, lock `exec_mutex`, cumulative and global statistics, reset | the test's statistics, the logger |
| **Forced shutdown** (183-206) | `forced_shutdown_in_progress` | SIGALRM handler: stop timers, log, print, `log_done`, exit | everything |
| **Logger** (`sb_logger.c`), **timers** (`sb_timer.c`), **percentile** (`sb_percentile.c`) | handlers, duplicate filter, per-thread event timers, histogram | log text, event start and stop, merge, print, reset | every thread |
| **Random numbers** (`sysbench.c` 1115-1342) | seed, the permutation of unique numbers | uniform, gaussian, special, pareto, uniq, str | scripts |
| **Database layer** (`db_driver.c`) | per-thread counters, `last_*` values, bulk-insert buffer | connect, prepare, execute, query, statistics, bulk insert | Lua scripts, drivers |
| **Drivers** (`drivers/*`) | connections, statements, results | connect, prepare, bind, execute, query, fetch (unused), close, error classification, reconnect | database layer, servers |
| **Lua scripting** (`scripting/script_lua.c`) | one Lua state per thread, `nevents` | load, thread and event functions, restart of an event, the `db_*` functions | database layer, interpreter |
| **Lua interpreter** (`scripting/lua/src`) | function prototypes; stack, frames, upvalues; heap, marks, lists of the collector | compile, execute, collect | scripting |
| **Tests** (`tests/*`) | request counters, positions, files, buffers, mutexes | get_request, execute_request, print_stats; fileio also prepare and cleanup | run_test |
| **Windows shims** (`sb_win.c`) | three events per condition variable, `once` controls | wait, signal, broadcast, once | event queue, drivers |

### What is hard in this code

- The event queue is a list through a ring of static slots, with a counter
  beside the list, a flag that is read without the lock, and one
  `pthread_cond_signal` per event for several waiters. On Windows the condition
  variable itself is built from events that do not count.
- The start barrier is a mutex the master holds while it creates threads;
  helper threads are created before the runners, are cancelled after the test
  has been torn down, and share mutexes that are destroyed before they end; any
  operation and any `pthread_create` can fail part-way.
- Statistics are summed, printed and reset by threads that do not stop the
  threads that update them; a signal handler takes the same mutexes.
- Request counters are tested and incremented in different critical sections,
  in one (`threads`) or in none (Lua).
- The final fsync is handed out while writes are in flight; asynchronous
  requests complete in any order.
- A server may refuse a command, roll a transaction back or drop the connection
  at every call; five drivers classify that in five ways, and the script's event
  is restarted.
- The compiler of Lua is one pass: it patches instructions it emitted before it
  knew what they were for. Its collector is incremental: the program changes the
  heap between the steps that mark it.

`PROJECT.json` lists these as hazards, each at its line.

### What makes each part correct

- Event queue: every event is served once and in order; a slot is not reused
  while it is queued; no event stays queued while a runner that could serve it
  sleeps; when the queue overflows everyone stops.
- run_test: requests run only after all runners were created; the teardown
  happens when no runner and no intermediate report is active; the exit status
  tells of failures; the process exits.
- Statistics and logger: every event is reported in exactly one window, and what
  one report shows fits together.
- Tests: the number of requests is the number asked for; files are fsynced as
  often as asked; validation raises no false alarm; the run ends.
- Database layer: every row of a bulk insert is sent once; a query is counted if
  and only if the server performed it; no query is sent into an unread result; a
  lost connection is retried and the event restarted.
- Options and init: an option has the values of its last setting; the run is
  configured as asked or refused; random numbers are in their range.
- Interpreter: compiled code does what the script says; nothing reachable is
  freed, finalizers run once, garbage goes away.

## 2. Modules

| Module | Models | Composes |
|---|---|---|
| `EventQueue`, `EventFifo` | generator and runners in tx-rate mode; the FIFO they promise | `EventQueue` instantiates `EventFifo` |
| `RunTest` | `run_test`, runners around their loop, the three helpers | its "loop", "request", "execute" are the whole of `EventQueue`'s runner |
| `DbStats` | the counters of the database layer and their three readers | relies on what `RunTest` shows of the helpers |
| `OperLog` | logger, timers, percentile, forced shutdown | |
| `Requests` | cpu, threads, mutex and memory tests | |
| `FileIO` | fileio test | |
| `DbDrivers`, `SqlScript` | the drivers as functions; scripts, database layer and server on top of them | `SqlScript` extends `DbDrivers` |
| `SbRand`, `Startup` | generators as sets of results; command line, options, init, main | `Startup` extends `SbRand` |
| `WinThreads` | condition variable and `pthread_once` of the Windows build | under the protocol of `EventQueue` |
| `LuaCode`, `LuaParser`, `LuaVM`, `LuaSemantics` | code generator, parser, virtual machine; a reference evaluator | each extends the one before |
| `LuaGC` | garbage collector | |

`MC*` modules hold only the values of constants; `MCParts` puts three small parts
that share no state, `Startup`, `Requests` and `WinThreads`, side by side in one
run: a behaviour is one of one of them, under the fairness of its own module, while
the other two rest in an initial state. Definitions marked "Faulty" are
mutated forms of the definition they precede, bugs that the properties were
tried against; no specification uses them.

**EventQueue.** One action per statement that touches shared state:

| Model | Code |
|---|---|
| `GenInit`, `GenStamp`, `GenLock`, `GenLink`, `GenCount`, `GenSignal`, `GenUnlock`, `GenReturn`, `GenAdvance` | the generator, in order |
| `GenCancel` | `pthread_cancel` of the generator after the runners were joined; `usleep` is its only cancellation point |
| `CheckFull`, `Acquire`, `CondWait`, `TakeHead`, `Unlink`, `Release` | a runner taking an event |
| `GetRequest`, `ExecuteOk`, `ExecuteFail` | one request |
| `LockLeave`, `Leave`, `LoopTest` | the rest of the loop |
| `SpuriousWake`, `Expire` | the environment: `pthread_cond_wait` may return early, time passes |

The list is the sequence of the slot numbers it links, and the time stored in a
slot is the number of the event: the generator reads a monotonic clock, so the
two are ordered alike. Writes under the mutex are separate steps because
`queue_is_full` is read, and slots are stamped, without it. `generated` and
`taken` are history variables. `EventFifo` is the promise: a FIFO of at most
`Capacity` events that threads take, hold and finish. `EventQueue!FifoSpec` is
`EventFifo` with the list, read through the stamps, for the FIFO.

**RunTest.** A mutex is its holder; locking a destroyed mutex fails, and the
callers ignore the failure, so they go on without it; destroying a held mutex
fails and changes nothing (this is what glibc does with both). Cancellation is
deferred: a helper ends at its next cancellation point, `usleep` or the output
of a report, and keeps what it holds. `options` is chosen initially and covers
every combination of helpers, and tests with and without `print_stats`. Lock and
unlock with nothing observable in between (the barrier) is one step.

**DbStats.** A query ends in one of seven outcomes: a success is counted inside
the mutex of the runner's slot, an ignored error or a reconnect without it, a
fatal error not at all. `db_print_stats` is run by the reporting thread
(differences to the `last_*` values), the checkpoint thread (sums, then
`db_reset_stats`, inside `exec_mutex`), and the master when the runners have ended
and the reporting thread is silent. Increments are a load and a store, since the
resets do not take the mutex; differences are taken modulo `ULONG`.

**OperLog.** `timers`, `timers_copy` and the percentile, with the steps at which
`print_global_stats` copies, merges, resets and prints them under `timers_mutex`
(taken only if there are checkpoints). A timer also has the `queue_time` of its
event, which a checkpoint's reset takes from an event that runs across it, as the
code does. `interrupted` is the thread the SIGALRM handler runs on: it takes no
further step and keeps its mutexes. When the runners have ended, `run_test` turns
the alarm off and cancels the checkpoint thread (`MasterCancels`), which ends
wherever it prints, in `usleep` or in the middle of a report
(`CheckpointCancelled`), and may keep `text_mutex` if that was inside `log_text`;
a handler that stands on it goes with it (`HandlerCancelled`).

**Requests.** One behaviour is one run of one test. A critical section is one
step unless another thread uses its data without the mutex. `unsigned int`
wraps at `UINT`. A cumulative report of the memory test prints and then clears:
the checkpoint thread does so inside `exec_mutex` (`CheckpointPrint`,
`CheckpointReset`), `run_test` at the end without it (`FinalPrint`,
`FinalReset`), so that the two can meet, until the checkpoint thread is
cancelled.

**FileIO.** `phase` is the command under way, `disk` what the files hold, as
extents that are whole or torn. A read or write is two steps, so that two of
them can overlap on a block; an asynchronous one completes at any time after
(`AioComplete`). Request generation, fsync bookkeeping and statistics are one step
each, inside `exec_mutex`.

**DbDrivers, SqlScript.** `DbDrivers` has for every driver what its connect,
prepare, bind, execute, query and close return for an answer of the
server, and what they leave of the statement. `SqlScript` runs a script - a
sequence of `db_*` calls in `thread_init`, `event` and `thread_done` - on a
connection; every command may be answered by success, failure, a retriable
error or a lost connection (`Answers`), `MaxFaults` times. A call on a connection
or statement that is not there raises a Lua error (`CheckFails`). Rows that a
disconnect or a second bulk insert finds in the buffer are lost (`DropRows`).
`nevents` is loaded and stored in two steps.

**Startup, SbRand.** Arguments are tokens; a value is a number with a suffix or
text. One step per argument, then one per phase of `main`. `init` may also fail
for what the model does not have (memory). A generator is the set of numbers a
call can return, with the overflows of int and unsigned int, of which `INT_MAX`
gives the size, and C's truncation toward zero; where it divides by zero the
process is killed (`Killed`). The unique numbers of all ranges come from one
`seed`.

**WinThreads.** One step per Win32 call; `lock_waiting`'s critical sections are
one step. The generator signals or broadcasts.

**LuaCode, LuaParser, LuaVM, LuaSemantics.** Every function of `lcode.c` is an
operator from the function state to the next, every parsing function of
`lparser.c` one on the syntax tree of what it parses, and the virtual machine a
state machine with one action per group of instructions. `LuaSemantics`
evaluates the syntax tree directly, with no registers, jumps or instructions.
These modules use RECURSIVE operators and carry no theorem.

**LuaGC.** `g` is the `global_State` with objects, marks, lists and the sweep
position; `singlestep` may run between any two operations of the program, which
is what the debts and thresholds of the real collector allow in the worst case.
A C loop is a function `after` of the number of rounds made; the calls of
`reallymarkobject` to itself, no deeper than from an upvalue to a userdata to its
table, are `MarkUdata` and `MarkTable`. `sweeplist` is one step on the objects it
passes, since it never looks at one of them twice. `GCTM` calls a finalizer: it
pushes a frame, on which the program's operations go on, those that make objects
with finalizers included, and steps of the collector between them, until
`FinalizerReturns`. `lua_close` is `CloseBegins`, a `GCTM` for each udata with a
finalizer, and `CloseEnds`; meanwhile the collector takes no step, because `GCTM`
raises the threshold.

## 3. Runs

| Run | Bounds | Shows |
|---|---|---|
| `event_queue` | 2 runners, ring of 2, 4 requests, 1 spurious wake-up, time limit | slots are free when reused (`SlotFree`), the list holds the events not taken in order (`FifoOrder`), wake-ups suffice (`NoLostWakeup`, `NoStrandedWaiter`), everybody ends (`Termination`), the queue is a FIFO (`FifoSpec`) |
| `event_queue_concurrency` (violation) | 2 runners, 2 requests | `concurrency` is not the number of requests in progress (`ConcurrentRequests`) |
| `run_test` | 2 runners, 2 requests, at most 1 checkpoint, all combinations of helpers, every failure | no intermediate report after the silence, critical sections exclude although mutexes are destroyed early (`SectionsExclusive`), exit status 0 only after a whole run, the barrier, the process exits |
| `db_stats` | 2 runners, 2 queries, 2 intermediate reports, 1 checkpoint | reports never show more than was executed; without checkpoints the final report is exact and the intermediate ones divide the run |
| `start_tests_shims` | start: command lines of up to four arguments, 2 configuration files, ints of 8 bits; tests: 3 runners, limit of 2 requests, 12 option sets, 1 checkpoint; shims: 3 runners, 3 events, signal and broadcast | options as given, run as configured, random numbers in range and unique; how many requests each test makes (`LimitsExact`), the memory test's reports divide the transfer, the tests end; one initialisation, all events are taken |
| `oper_log` | 2 runners, 2 events, 2 ticks, 1 checkpoint, alarm at any time | every event is in one report, with all of its time, unless the report is cut short by the cancellation; a report fits together |
| `oper_log_shutdown` (violation) | 1 runner | a forced shutdown can wait for a mutex of the thread it interrupts |
| `fileio` | 2 runners, 2 files of 1 to 3 blocks (in one set of a block and a half), 18 option sets, 1 failing call, 1 checkpoint | fsync frequency, what is unsynced at the end, no false alarm of the validation, the run ends |
| `sql` | 2 threads, 2 events, 2 bad answers, 5 drivers, 6 scripts | events granted, rows of bulk inserts conserved, queries counted are performed, results read before the next query, the test ends |
| `lua_code` | some thousand scripts, 3 argument lists | compiled code does what the script means; the `lua_assert`s hold |
| `lua_gc` | 10 mixes of at most 3 objects, 4 to 8 operations, in finalizers too, a step of the collector between any two | nothing in use is freed, the tri-colour invariant, finalizers once, garbage goes away |
| `lua_gc_barrier` (violation) | a weak table and a udata with a finalizer | an assertion of the write barrier fails (`BarrierPhase`) |

Why the bounds are enough. With two runners one can be signalled while the other
overtakes it, and be created, fail, or stop while the other is at any other step;
a ring of two slots wraps, fills up and reuses slots; more requests than slots let
the ring wrap with runners still active, and fewer requests than events make
runners meet a NULL request; what the proofs cover has no bounds at all. In
`db_stats` two reports are needed for a difference to a stored value and two
runners for a reset to fall between two slots. In the tests of `start_tests_shims`
there are more runners than requests, so that they compete for the last one, and a
total size that is not a multiple of the block. In `oper_log` the percentile's
scale is shorter than the longest event. In `fileio` every mode meets every kind
of I/O it has code for; files of two blocks make positions wrap within and between
files. In `sql` a second bad answer can come while the first is being handled; a
packet holds six bytes, the head of the INSERT included, and a batch two rows, so
that rows of one and two bytes fill both, and a row of seven fits in no packet. In
the start every pair of settings is tried in both orders. The shims need three
runners: one woken, one waiting, one arriving. The limits of the Lua compiler
(registers, constants in an operand, items per flush) are lowered so that small
scripts reach them. Symmetry is used only where no property is temporal.

Fairness. Every thread that can run is scheduled: weak fairness of each thread
in `EventQueue`, `RunTest`, `Requests`, `FileIO`, `SqlScript` and `WinThreads`.
This suffices where every thread takes the mutexes a bounded number of times.
`RunTest` adds strong fairness for two lock operations, the master's of
`report_interval_mutex` and the runners' of `exec_mutex`: the reporting thread
takes both without end, but sleeps a whole interval between two reports while
they are free. `OperLog` needs it only to make sure that its counterexample is not
one of starvation. `FileIO` assumes that the kernel completes asynchronous
requests. `LuaGC` assumes that the state is closed or the collector keeps making
steps, which allocation brings about. Nothing is assumed of spurious wake-ups,
time limits, alarms, failures or bad answers.

Deadlock is checked except where the system may stop: `OperLog` and `FileIO`
(section 4) and `LuaGC` (the program's operations are bounded). In
`start_tests_shims` the runners of the shims wait when no more events come, which
`MCParts!Stopped` allows.

## 4. Exceptions the properties make

The properties hold with the exceptions they name; each is what the code does.

1. `sysbench.c` 122-123 calls `--forced-shutdown` the time "to wait after
   --max-time before forcing shutdown"; the handler locks mutexes of the thread
   it interrupts (run `oper_log_shutdown`). A forced report shares
   `timers_copy` with one under way (`ReportSound`).
2. `sysbench.h` 223-224 calls `concurrency` the "number of concurrent requests";
   the `break` at `sysbench.c` 529-530 skips the decrement after a failed one, so
   that the runner is counted until the test ends (run `event_queue_concurrency`).
   What holds is `ConcurrencyAccounting`.
3. `sysbench.c` 167 says that `thread_start_mutex` is "used to start test with all
   threads ready"; it waits for their creation, not for their `thread_init`.
4. `sysbench.c` 894 delays the cancellation of the reporting threads "to avoid
   mutex lock leaks"; the checkpoint thread can still be cancelled with
   `exec_mutex` or, inside `log_text`, `text_mutex` held, and the report it was
   printing is lost (`EventsConserved`). `exec_mutex` is destroyed (884-888) before
   that thread is cancelled (909-914): a checkpoint that comes due in between locks
   a destroyed mutex. `SectionsExclusive` says that nobody is left whom it had to
   exclude. An event that runs across a checkpoint loses its time in the queue
   (`sb_timer.c` 62).
5. `sysbench.c` 656-659: a reporting thread that reads `report_interval` for the
   first time after it was silenced never sleeps or ends, and `run_test` waits for it
   (`ExitsUnlessReportLate`).
6. `db_driver.c` 1023-1024 says that after a reset intermediate statistics are
   calculated from the current moment; a report that straddles the reset stores
   its old sums afterwards, and `last_reconnects` is not reset. The exact claims
   of `DbStats` are for runs without checkpoints.
7. `sysbench.c` 121 calls `--max-requests` the "limit for total number of requests",
   `sb_memory.c` 42 `--memory-total-size` the "total size of data to transfer". The
   cpu test can make one request more for every other runner, and the memory
   test transfers its total once more after every checkpoint: `LimitsExact` leaves
   these two upper limits out, and the theorem `Overshoot` bounds them. The final
   report of the memory test, printed without `exec_mutex`, can show bytes that a
   checkpoint under way has shown (`ReportsPartition`), and the mutex test can lose
   increments. Lua's `nevents` can be set back, so that more
   events run than asked for, with no bound that depends on the limit and the
   threads alone; never fewer, and the counter passes the limit by at most one for
   each other thread (`EventsGranted`).
8. fileio: the final fsync of a file can overtake a write of another thread
   (`UnsyncedInFlight`); validation mistakes the rewind of a single file for a
   gap, merged requests for torn blocks and, in files that are not made of whole
   blocks, pieces of two blocks for a damaged one: a random position is a multiple of
   the block size in all files together (`sb_fileio.c` 613-616), not in its own
   (`NoFalseAlarm`); after a failed
   asynchronous call a thread may wait for ever (`Finishes`).
9. Drivers: Oracle drops the error of an emulated statement; PostgreSQL and
   Oracle take the address `is_null` for the flag (`CountedPerformed`); a failed
   COMMIT of a bulk insert sends its rows again (`BulkConservation`); a MySQL
   statement detached by a reconnect fails for ever if all errors are ignored
   (`Livelock` in `Ends`).
10. `sb_rand_special` of a range of one number returns 0, `sb_rand_pareto` of
    numbers below zero, truncated toward zero, returns `b + 1`, and of more numbers
    than an int any; unique numbers of a range whose size is a multiple of
    `LARGE_PRIME` repeat early, and ranges of more numbers than an int have none;
    a range whose size, times 100 / (100 - `--rand-spec-res`) for the special
    distribution, wraps to 0 kills the process (`NumbersSound`).
11. Lua 5.1.1 compiles three kinds of expressions wrongly, which the scripts of
    `lua_code` leave out: a constant that decides a condition over a held jump
    (`HeldJump`), a minus before nil, true or false, and nil assigned to a parameter
    in the first instruction.
12. `sysbench.c` 151 calls `--config-file` a "File containing command line options",
    and `sb_options.c` 166 prints "=[on|off]" for a flag; a flag that a file turns
    off is on, since `opt_to_flag` only asks whether it has a value, while on the
    command line `off` removes it (`OptionsAsGiven`).
13. `db_driver.c` 223-226 means to refuse an unknown `--db-driver`; after its loop
    the pointer is the last driver of the list, which is used. Checkpoints half a
    word or more apart are sorted the wrong way round (`sysbench.c` 941). Of both
    `RunAsConfigured` says nothing.
14. `lgc.c` 665 asserts that a forward barrier runs in no collector phase but those
    that mark and sweep; a udata that awaits its finalizer, black since
    `marktmu`, can be reached through a weak table's key and changed in the finalize
    phase (run `lua_gc_barrier`). `MemorySafe` admits this one assertion; what the
    code does then is harmless. A udata with a finalizer that a finalizer makes
    while `lua_close` runs is freed without its call (`FinalizedOnce`).

Also noticed, without a property: `sysbench.h` 158-159 says that `prepare` is
called after the timers start and 167-168 that `cleanup` is called before they
stop; `run_test` does the opposite in both cases.

## 5. Proofs

The theorems hold for every value of the constants their module's assumption
allows: any finite set of threads, any number of requests, reports, checkpoints
and spurious wake-ups. Two theorems have a further hypothesis, `LimitsFit` of
`Requests` and `ResultsRead` of `SqlScript`, both given below. Each module
states its inductive invariant as a conjunction of named parts, all of which TLC
has checked; what the parts are needed for:

- `ThreadLemmas`. Facts about constants: how the number of threads at some
  points of the code changes when one thread moves, and sums over threads. A sum
  is the cardinality of a set of units (`Tally`), because the provers cannot
  reason about a recursive operator. `NumberInduction` and `SetInduction` are
  induction over the natural numbers and the subsets of a finite set, for a set
  instead of a predicate, from the least element of a set of numbers
  (`WFMin`): the induction theorems of the library take an operator as a
  parameter, which the provers cannot instantiate.

Two modules prove about several components: `SysbenchProofs` about `Startup` and
`RunTest`, which are `sysbench.c`, and `ScriptingProofs` about `SqlScript`, about
the collector of the interpreter that runs the scripts, `LuaGC`, and about the
`pthread_once` of `WinThreads`, with which the drivers are initialised.
`Startup`, `LuaGC` and `WinThreads` therefore have names of their own for their
specifications (`MainSpec`, `GCSpec`, `WinSpec`).

**The event queue.** `EventQueueProofs`. `EventQueueAssumption`: the set of
runners is finite, the ring has a slot, the names of the threads differ.

- Invariants. Those of the queue are not inductive by themselves: that the
  generator finds its slot free depends on the slots queued being the last ones
  it filled, which depends on the counter being the length of the list outside
  the critical sections, which depends on who holds the mutex. `IInv` conjoins
  `TypeOK` with `MutexInv` (a thread between lock and unlock is the holder),
  `FullInv` (the flag, the counter and the generator's position), `RingInv` (the
  k-th queued slot is the k-th before the generator's index, modulo the ring),
  `StampInv` (its stamp is `taken + k`), `HeadInv` (a runner about to unlink has
  read the head's stamp) and `QueueInv`. Its induction has one step per action;
  `TypeCorrect`, `SlotReuseSafe`, `FifoCorrect` and `EventsServedOnce` follow
  from it.
- Wake-ups. `WakeInv`, an induction on top of `IInv`:
  `NoWakeupLost`, `FullQueueStrandsNobody` and `ConcurrencyCorrect`, which is
  about the count the code keeps and not the one its comment promises (section 4).
- Refinement. `ImplementsFifo`: `GenLink` is the abstract put,
  `Unlink` the get, `Leave` and `ExecuteFail` the finish, everything else
  stutters.

**The test life cycle.** `SysbenchProofs`, second half. Safety hangs on where
`run_test` is, so `IInv` ties everything else to `master_pc`: who can be past the
barrier while `thread_start_mutex` is held (`ClosedInv`), that all runners have
ended once they were joined (`RunnersInv`), what may have been destroyed
(`DestroyedInv`), that a report under way holds `report_interval_mutex` and that
none is under way after `report_interval` was reset (`ReportInv`), which helpers
are gone (`HelpersInv`). `num_running` is the number of runners in their loop
(`RunningInv`). From it: `ReportsSilenced`, `ExitTruthful`, `TypeCorrect` and, as
an action property, `BarrierSafe`. `SectionsExclude` adds who is inside a section
of each mutex (`SectionInv`): while `exec_mutex` exists it is its holder, and once
it is destroyed only the checkpoints thread can still get there.

**The database layer.** `DbStatsProofs`. A total says nothing about a slot, and a
reader adds slots up one after the other while runners go on counting. `IInv`
therefore says that there are shares `own[t][f]`, what runner `t` has executed,
such that they add up to `executed`; that a slot is its runner's share until
something is reset, and never more (`SharesInv`); that a reader has summed no
more than the shares of the slots it has read, and the master exactly that
(`SumsInv`); that what was shown before is still ahead of the reporting thread or
in its sums, so that no difference wraps around (`IntervalsInv`); and that other
operations are transactions, queries of type OTHER or half a commit
(`CommitsInv`). The model keeps no shares; the existential quantifier stands for
the history variable. `SoundReports` holds with checkpoints, too; `ExactFinal`
and `IntervalsDivide` are, like the properties, about runs without.

**The four small tests.** `RequestsProofs`. `Partition` needs that a checkpoint
holds `exec_mutex` from its report to its reset, and of the final report, which
does not, that it may meet one checkpoint only. `LimitsKept` has an invariant for
each test: in the cpu test, where the limit is tested without the lock, those
between the test and the count are counted in advance (`CpuInv`); in the mutex
test the rounds made and the rounds left add up (`MutexInv`). `Overshoot` is the
bound on the two limits the code passes. The hypothesis of both is
`LimitsFit`: the limit plus the number of threads fits into the `unsigned int`
that counts requests, the mutex test's number of locks too, and a block has at
least one byte. Both numbers are non-negative `int` options, at most 2^31 - 1
each, so their sum fits; with a block of no bytes, or 2^32 locks, the test never
ends. TLC evaluates `LimitsFit` for the values of its run.

**The Windows shims.** `ScriptingProofs`, at the end. `InitialisedOnce`, from the three
states of `once_control`: while it is "inprogress" exactly one thread is in or
just past the routine and all others have not come or sleep.

**Scripts on a database.** `ScriptingProofs`, first part. One induction over all calls of a
script, with one invariant per concern. `EventsInv`: a thread between the test
and the store of `nevents` has read a number below the limit, and is counted in
advance, which bounds the counter. `BulkInv`: the rows are in one of three
places, and the buffer has room for the terminator. `StmtInv`: what a statement
can be under each driver, with what is counted ahead of the server
(`CountedPerformed` is not inductive without it: a detached statement, which
exists with MySQL only, is executed without the server). From it
`EventsBounded`, `RowsConserved` and `CountsPerformed`. `ResultsInSync` has the
hypothesis `ResultsRead`: in the script, a query or execution is followed by the
storing of its result. `sb_lua_db_query` does so itself; after `db_execute` it
is up to the script. TLC evaluates `ResultsRead` for the scripts of its run.

**The garbage collector.** `ScriptingProofs`, second part: `FinalizersRunOnce`,
for any addresses, any bounds on objects, operations and stack, and any
`GCSWEEPMAX`. `FinalizedOnce` is about a flag, two lists and a color that
different functions change, so `HeapInv` says how they go together: a userdata is
on the list or on the queue of those that wait, once (`Lists`), and the lists hold
allocated objects of the right type (`Sorted`); on the queue it is noted as
finalized and not called yet, and if it is noted and on the list again it was
called (`Called`); one on the list that is dead has no call to come (`Spared`).
The last part is what the sweep relies on, and it is `atomic` that must establish
it: after `luaC_separateudata` no white userdata has a call to come (`AllDue`),
and until the white is flipped nothing turns white except what is on the queue,
which `marktmu` whitens to mark it again (`Darker`). So every function that marks
has a lemma that it only darkens; the barriers, which run while the sweep does,
need less (`Kin`: nothing dies). Loops are recursive functions, and a lemma on
each is an induction over its rounds (`NumberInduction`). A finalizer is the
program going on, on a frame of its own, so its steps are the ones already
considered. `lua_close` separates all, calls all and frees all, which is the same
argument with `AllDue` of every userdata but those made meanwhile (`late`). TLC
has checked `HeapInv` as an invariant of the run `lua_gc`'s instance.

**The fileio test.** `FileIOProofs`, three inductions on top of each other.

- `GenInv`. A count modulo the frequency decides when a series of fsyncs is due,
  `is_dirty` and `fsynced_file` say how far it has come. `SeriesInv`: during a
  series the files behind `fsynced_file` have no writes and the others at most
  the frequency; between two, no file has more than the requests since the last
  one; the flag is clear only if no file has any. It needs the arithmetic of
  remainders (`ModStep`), proved from uniqueness of division. It implies
  `FsyncEvery` (`SyncedAsAsked`).
- `FinalInv`. A final fsync is handed out only when no more writes are, so
  writers of a file only become fewer; `Settled`: the fsync is still to be made,
  or it overtook a write, or nothing is unsynced and nobody writes. It also
  needs that no fsync is rejected and that every operation in the AIO queue is
  of a file of the test. It implies `UnsyncedInFlight` (`SyncedAtTheEnd`).
- `ReadsInv` and `SeqInv`. Where blocks are read and validated, every block of
  every file is whole from prepare on (`DiskInv`); active requests are blocks
  (`RequestInv`), claimed by their thread and by no other (`ClaimInv`), so no
  two of them overlap unless they are equal (`BlocksDisjoint`) and no write is
  torn (`TornInv`). Sequential requests end their file or are followed by the
  next piece (`Follows`). Together they imply `NoFalseAlarm`
  (`AlarmsJustified`).

**Logger, timers and percentile.** `OperLogProofs`. What is unreported is in the
runners' timers and, once a printer has reset them, in the copy it prints from, or
lost with a checkpoint thread that was cancelled there (`EventsInv`); with
checkpoints only one printer at a time can be there, since it holds `timers_mutex`
(`MutexInv`), without them only the master prints and the runners have ended
(`PrinterInv`). In every timer the sum of the times lies between the number of
events times the shortest and times the longest (`MeanInv`), which stopping an
event and merging two timers keep. The percentile is reset after the timers,
outside the section that copied them: its samples, with those of the runners that
have stopped their timer and not recorded yet, exceed the events measured by at
most one for each runner (`SamplesInv`, `CalculatedInv`). All of it holds until an
alarm interrupts a thread (`interrupted = NoThread => LiveInv`); after that the
handler shares `timers_copy` with the thread it stands on. From it
`EventsAreConserved` and `ReportsAreSound`.

**Command line, options and random numbers.** `SysbenchProofs`, first half.

- `LastSettingCounts`. `OptInv`: after any number of arguments every option is
  what the last of its settings makes it, and a setting read from a file reads as
  the argument would, but for flags turned off. A configuration file is one argument
  and many settings, so `ReadConfigFacts` is an induction over its lines.
- `ConfiguredRuns`. `qsort` may return any permutation its comparison agrees
  with, or any at all if there is none. If no two checkpoints are more than
  `INT_MAX` apart the comparison is the order of the numbers (`CompareFacts`), and
  every list has an ordered permutation (`SortExists`, by induction over its
  length). `ConfInv` carries that, and what `init` and `db_init` have refused, to
  the start of the run.
- `DrawsAreSound`. Every distribution stays in its range through the overflows of
  the ints (`DrawnInv`), but for the ranges named in section 4. The unique numbers
  are the multiples of `LARGE_PRIME` modulo the size of the range, at whatever
  draws of the common seed; two of them are equal only if the size divides the
  prime times their distance (`DrawsDiffer`), and so the distance itself
  (`PrimeSteps`). `SbRandAssumption` therefore has `LARGE_PRIME` prime, which
  2147483647 (`sysbench.c` 74) is, and `NumbersSound` leaves out ranges whose size
  is a multiple of it.

**What the proofs corrected.** Three properties that TLC had passed were false for
larger constants, and proof attempts showed it: a bound on the events that ran
in terms of limit and threads (a thread that sleeps between load and store can
set the counter back any number of times), `NoFalseAlarm` for files that are
not made of whole blocks (every option set with validation had whole blocks), and
the uniqueness of unique numbers for ranges whose size is a multiple of the prime.
The properties are now what holds, and the run `fileio` has an option set for
the second.

Only model-checked:

- liveness (`Termination`, `ExitsUnlessReportLate`, `TestsFinish`, `Ends` and the
  like), which is out of the prover's reach;
- the Lua compiler and virtual machine (`CompiledAsWritten`, `AssertsHold`), whose
  operators are RECURSIVE: compiling and evaluating follow the data;
- `MemorySafe` and `TriColour` of `LuaGC`. That the marks reach everything the
  program does is an induction over the paths of the heap and over the rounds of
  `propagateall`, which must be shown to be enough to empty the gray list.
  `HeapInv` has the part about lists and types that such a proof would start from.

## 6. Not modelled

- Lexer, the choice of a grammar rule by the next token and operator precedence
  (the parser's functions work on syntax trees), the hash part of tables, the
  C API as such, the standard libraries, dump and undump: sequential library
  code, vendored, that sysbench only calls.
- Metatables, coroutines, hooks, and the reallocation of the stack: no script of
  sysbench uses the first three; references into the stack are indices in the
  model, so that moving it changes nothing. Debts and thresholds of the collector
  are abstracted, prototypes and metatables are no objects of `LuaGC`.
- The probabilities of the random distributions: a generator is the set of its
  possible results. TLC has no floating point.
- The CRC of `crc32.c`, a table from zlib: `FileIO` uses a checksum as a function
  that tells whole blocks from others.
- Fetching rows (`db_fetch_row` and the drivers' functions under it), which
  nothing calls; init and done of the client libraries; the script's own prepare,
  cleanup and help functions, each one call; random strings.
- List macros that only build lists of options and tests: sequences in `Startup`.
- Timed waits on Windows, which sysbench does not use; message texts, layout of
  reports, usage texts; the memory accesses and arithmetic that are the load of
  the cpu and memory tests.
- An explicit `collectgarbage` in a finalizer that `lua_close` runs, finalizers that
  raise an error, and a gc method that a metatable gains or loses after the udata
  was made. Cancellation inside the warning of `sb_timer_split` for a timer that
  was stopped.
- The race on `elapsed` of a shared timer (`sysbench.c` 519): readings of the clock
  are event numbers in `EventQueue`.
