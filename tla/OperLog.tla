------------------------------ MODULE OperLog ------------------------------
(***************************************************************************)
(* The logger (sb_logger.c) with the timers (sb_timer.c) and the           *)
(* percentile (sb_percentile.c) it keeps: the runners start and stop the   *)
(* timer of every event, the checkpoint thread and, at the end, the master *)
(* print and reset what was measured, and every thread logs text through a *)
(* filter for duplicates.  SIGALRM, --forced-shutdown seconds after        *)
(* --max-time, runs its handler on top of whatever thread it interrupts.   *)
(*                                                                         *)
(* Time is a counter.  The percentile's logarithmic scale is replaced by   *)
(* one bucket per unit of time, which keeps the order and the clamping.    *)
(* Whoever is interrupted takes no further step and keeps its mutexes.     *)
(***************************************************************************)
EXTENDS Integers, FiniteSets, FiniteSetsExt

CONSTANTS
  Threads,        \* the runner threads
  MaxTime,        \* bound on the clock
  QueueMax,       \* bound on the time in the event queue; 0 without --tx-rate
  MaxEvents,      \* bound on the events
  MaxCheckpoints, \* bound on n_checkpoints
  RangeMax,       \* OPER_LOG_MAX_VALUE; OPER_LOG_MIN_VALUE is 0
  percentile_rank,\* --percentile
  NoThread        \* the holder of a free mutex, and nobody interrupted

Printers == {"checkpoint", "master", "handler"}
Callers == Threads \cup Printers
Buckets == 0 .. RangeMax
Longest == MaxTime + QueueMax
Infinity == Longest + 1  \* the initial min_time, larger than every time

ASSUME OperLogAssumption ==
  /\ IsFiniteSet(Threads) /\ Threads \cap Printers = {}
  /\ {MaxTime, QueueMax, MaxEvents, MaxCheckpoints} \subseteq Nat
  /\ RangeMax \in Nat \ {0}
  /\ percentile_rank \in 1 .. 100
  /\ NoThread \notin Callers

VARIABLES
  clock,
  n_checkpoints,  \* report checkpoints on the command line
  timers,         \* runner -> its event timer
  timers_copy,    \* the copy a printer works on
  timers_mutex,   \* its holder; only used with checkpoints
  value,          \* the event a runner has stopped and not yet recorded
  percentile,     \* bucket -> events
  pc,             \* where each caller is
  text_mutex,     \* its holder
  text_buf,       \* the last message
  text_cnt,       \* how often it was repeated since
  interrupted,    \* the caller SIGALRM interrupted, or NoThread
  report,         \* the last statistics printed
  events,         \* bound: events started
  taken,          \* checkpoints taken
  unreported      \* history: events stopped, and their total time, that no
                  \* report has shown

textVars == <<text_mutex, text_buf, text_cnt>>
timeVars == <<timers, timers_copy, timers_mutex, value, percentile, report,
              unreported>>
boundVars == <<clock, n_checkpoints, events, taken>>
vars == <<pc, interrupted, textVars, timeVars, boundVars>>

sb_timer_init ==
  [state |-> "INITIALIZED", time_start |-> 0, min_time |-> Infinity,
   max_time |-> 0, sum_time |-> 0, events |-> 0, queue_time |-> 0]

(* The reset leaves the state, and the start of a running event, alone. *)
sb_timer_reset(t) ==
  [t EXCEPT !.min_time = Infinity, !.max_time = 0, !.sum_time = 0,
            !.events = 0, !.queue_time = 0]

(* Starting a timer that runs only draws a warning. *)
sb_timer_start(t) == [t EXCEPT !.state = "RUNNING", !.time_start = clock]

sb_timer_update(t) == clock - t.time_start + t.queue_time

Lesser(a, b) == IF a < b THEN a ELSE b
Greater(a, b) == IF a > b THEN a ELSE b

(* Faulty: the shortest event is not kept. *)
sb_timer_stop_min(t) ==
  LET elapsed == sb_timer_update(t) IN
  [t EXCEPT !.state = "STOPPED", !.events = @ + 1, !.sum_time = @ + elapsed,
            !.min_time = elapsed, !.max_time = Greater(elapsed, @)]

sb_timer_stop(t) ==
  LET elapsed == sb_timer_update(t) IN
  [t EXCEPT !.state = "STOPPED", !.events = @ + 1, !.sum_time = @ + elapsed,
            !.min_time = Lesser(elapsed, @), !.max_time = Greater(elapsed, @)]

(* A sum of natural numbers, as the number of the units that make them up. *)
Sum(f) == Cardinality(UNION {{x} \X (0 .. f[x] - 1) : x \in DOMAIN f})

merge_timers(ts) ==
  [events |-> Sum([t \in Threads |-> ts[t].events]),
   sum_time |-> Sum([t \in Threads |-> ts[t].sum_time]),
   min_time |-> Min({ts[t].min_time : t \in Threads} \cup {Infinity}),
   max_time |-> Max({ts[t].max_time : t \in Threads} \cup {0})]

(* A value outside of the range is moved to its border. *)
Bucket(v) == Lesser(v, RangeMax)

sb_percentile_update(p, v) == [p EXCEPT ![Bucket(v)] = @ + 1]

(* The first bucket after the zeroth with the wanted share at or below it. *)
sb_percentile_calculate(p) ==
  LET nmax == (Sum(p) * percentile_rank + 50) \div 100
      UpTo(i) == Sum([j \in 0 .. i |-> p[j]])
  IN IF Sum(p) = 0 THEN 0
     ELSE Min({i \in Buckets \ {0} : UpTo(i) >= nmax} \cup {RangeMax + 1})

sb_percentile_reset == [b \in Buckets |-> 0]

NoReport == [events |-> 0, sum_time |-> 0, min_time |-> Infinity,
             max_time |-> 0, percentile |-> 0, samples |-> 0]

(* log_init: the text handler first, then the operations handler. *)
Init ==
  /\ clock = 0
  /\ n_checkpoints \in 0 .. MaxCheckpoints
  /\ timers = [t \in Threads |-> sb_timer_init]
  /\ timers_copy = timers
  /\ timers_mutex = NoThread
  /\ value = [t \in Threads |-> 0]
  /\ percentile = sb_percentile_reset
  /\ pc = [c \in Callers |->
             CASE c \in Threads -> "idle"
               [] c = "checkpoint" /\ n_checkpoints = 0 -> "done"
               [] OTHER -> "wait"]
  /\ text_mutex = NoThread
  /\ text_buf = "" /\ text_cnt = 0
  /\ interrupted = NoThread
  /\ report = NoReport
  /\ events = 0 /\ taken = 0
  /\ unreported = [events |-> 0, sum_time |-> 0]

Exited == pc["handler"] = "exit" \/ pc["master"] = "exit"

Goto(c, from, to) ==
  /\ c # interrupted /\ ~Exited
  /\ pc[c] = from
  /\ pc' = [pc EXCEPT ![c] = to]

Lockable(mutex) == n_checkpoints > 0 => mutex = NoThread
-----------------------------------------------------------------------------
(* log_text, down to text_handler_process *)

(* A message like the last one is counted; any other is printed, after the *)
(* number of those before it.                                              *)
log_text(m) ==
  /\ text_mutex = NoThread
  /\ text_buf' = m
  /\ text_cnt' = IF text_buf = m THEN text_cnt + 1 ELSE 0
  /\ UNCHANGED text_mutex

-----------------------------------------------------------------------------
(* oper_handler_process: the events of a runner *)

(* The next request.  With --tx-rate, the runner has waited for it in the  *)
(* queue, and sets the time without timers_mutex.                          *)
TakeEvent(t) ==
  /\ events < MaxEvents
  /\ Goto(t, "idle", "taken")
  /\ \E q \in 0 .. QueueMax :
       timers' = [timers EXCEPT ![t].queue_time = q]
  /\ events' = events + 1
  /\ UNCHANGED <<interrupted, textVars, timers_copy, timers_mutex, value,
                 percentile, report, unreported, clock, n_checkpoints,
                 taken>>

EventStart(t) ==
  /\ Goto(t, "taken", "started")
  /\ Lockable(timers_mutex)
  /\ timers' = [timers EXCEPT ![t] = sb_timer_start(@)]
  /\ UNCHANGED <<interrupted, textVars, timers_copy, timers_mutex, value,
                 percentile, report, unreported, boundVars>>

(* Faulty: the event is stopped without the mutex. *)
EventStopUnlocked(t) ==
  LET elapsed == sb_timer_update(timers[t]) IN
  /\ Goto(t, "started", "record")
  /\ timers' = [timers EXCEPT ![t] = sb_timer_stop(@)]
  /\ value' = [value EXCEPT ![t] = elapsed]
  /\ unreported' = [events |-> unreported.events + 1,
                    sum_time |-> unreported.sum_time + elapsed]
  /\ UNCHANGED <<interrupted, textVars, timers_copy, timers_mutex, percentile,
                 report, boundVars>>

EventStop(t) ==
  LET elapsed == sb_timer_update(timers[t]) IN
  /\ Goto(t, "started", "record")
  /\ Lockable(timers_mutex)
  /\ timers' = [timers EXCEPT ![t] = sb_timer_stop(@)]
  /\ value' = [value EXCEPT ![t] = elapsed]
  /\ unreported' = [events |-> unreported.events + 1,
                    sum_time |-> unreported.sum_time + elapsed]
  /\ UNCHANGED <<interrupted, textVars, timers_copy, timers_mutex, percentile,
                 report, boundVars>>

(* The percentile has a mutex of its own, and timers_mutex is released. *)
EventRecord(t) ==
  /\ Goto(t, "record", "idle")
  /\ percentile' = sb_percentile_update(percentile, value[t])
  /\ value' = [value EXCEPT ![t] = 0]
  /\ UNCHANGED <<interrupted, textVars, timers, timers_copy, timers_mutex,
                 report, unreported, boundVars>>

(* There is no further request, or an error, or --max-time has expired,    *)
(* which is logged.                                                        *)
RunnerEnds(t) ==
  /\ \/ Goto(t, "taken", "done") /\ UNCHANGED textVars
     \/ Goto(t, "idle", "done") /\ UNCHANGED textVars
     \/ /\ Goto(t, "idle", "done")
        /\ log_text("Time limit exceeded, exiting...")
  /\ UNCHANGED <<interrupted, timeVars, boundVars>>
-----------------------------------------------------------------------------
(* print_global_stats, for a checkpoint and from log_done *)

CheckpointBegins ==
  /\ taken < n_checkpoints
  /\ Goto("checkpoint", "wait", "copy")
  /\ taken' = taken + 1
  /\ UNCHANGED <<interrupted, textVars, timeVars, clock, n_checkpoints,
                 events>>

(* The runners are joined, alarm(0) disarms the signal, and the checkpoint *)
(* thread gets the request to cancel.                                      *)
MasterCancels ==
  /\ \A t \in Threads : pc[t] = "done"
  /\ Goto("master", "wait", "join")
  /\ UNCHANGED <<interrupted, textVars, timeVars, boundVars>>

(* The request takes effect where the thread sleeps or writes: while it    *)
(* waits, before the copy, and in its report, which then stays unprinted.  *)
(* log_text writes that a message was repeated inside of text_mutex, which *)
(* the cancelled thread keeps.                                             *)
CheckpointCancelled ==
  LET Written == pc["checkpoint"] \in {"copy", "print"} /\ text_cnt > 0
  IN
  /\ pc["master"] = "join"
  /\ pc["checkpoint"] \in {"wait", "copy", "print", "printed"}
  /\ Goto("checkpoint", pc["checkpoint"],
          IF pc["checkpoint"] = "print" THEN "cut" ELSE "done")
  /\ \/ UNCHANGED text_mutex
     \/ Written /\ text_mutex = NoThread /\ text_mutex' = "checkpoint"
  /\ report' = NoReport
  /\ UNCHANGED <<interrupted, text_buf, text_cnt, timers, timers_copy,
                 timers_mutex, value, percentile, unreported, boundVars>>

(* The handler runs on the checkpoint thread, and is cancelled with it. *)
HandlerCancelled ==
  /\ pc["master"] = "join" /\ interrupted = "checkpoint"
  /\ pc["handler"] \in {"text", "copy", "print", "printed"}
  /\ ~Exited
  /\ pc' = [pc EXCEPT !["handler"] = "done", !["checkpoint"] = "cut"]
  /\ UNCHANGED <<interrupted, textVars, timeVars, boundVars>>

MasterJoins ==
  /\ pc["checkpoint"] \in {"done", "cut"}
  /\ Goto("master", "join", "copy")
  /\ UNCHANGED <<interrupted, textVars, timeVars, boundVars>>

CopyTimers(c) ==
  /\ Goto(c, "copy", "reset")
  /\ Lockable(timers_mutex)
  /\ timers_mutex' = IF n_checkpoints > 0 THEN c ELSE timers_mutex
  /\ timers_copy' = timers
  /\ UNCHANGED <<interrupted, textVars, timers, value, percentile, report,
                 unreported, boundVars>>

ResetTimers(c) ==
  /\ Goto(c, "reset", "calculate")
  /\ timers' = [t \in Threads |-> sb_timer_reset(timers[t])]
  /\ UNCHANGED <<interrupted, textVars, timers_copy, timers_mutex, value,
                 percentile, report, unreported, boundVars>>

Calculate(c) ==
  /\ Goto(c, "calculate", "clear")
  /\ report' = [report EXCEPT
                  !.percentile = sb_percentile_calculate(percentile),
                  !.samples = Sum(percentile)]
  /\ UNCHANGED <<interrupted, textVars, timers, timers_copy, timers_mutex,
                 value, percentile, unreported, boundVars>>

ClearPercentile(c) ==
  /\ Goto(c, "clear", "print")
  /\ percentile' = sb_percentile_reset
  /\ timers_mutex' = IF timers_mutex = c THEN NoThread ELSE timers_mutex
  /\ UNCHANGED <<interrupted, textVars, timers, timers_copy, value, report,
                 unreported, boundVars>>

(* On a forced shutdown the events still running count as done now.  The   *)
(* lines printed stand for one message.                                    *)
PrintStats(c) ==
  LET running == {t \in Threads : timers_copy[t].state = "RUNNING"}
      unfinished == IF interrupted # NoThread THEN running ELSE {}
      copies == [t \in Threads |-> IF t \in unfinished
                                   THEN sb_timer_stop(timers_copy[t])
                                   ELSE timers_copy[t]]
      total == merge_timers(copies)
  IN
  /\ Goto(c, "print", "printed")
  /\ timers_copy' = copies
  /\ report' = [report EXCEPT
                  !.events = total.events, !.sum_time = total.sum_time,
                  !.min_time = total.min_time, !.max_time = total.max_time]
  /\ unreported' = [events |-> unreported.events - total.events,
                    sum_time |-> unreported.sum_time - total.sum_time]
  /\ log_text("General statistics:")
  /\ UNCHANGED <<interrupted, timers, timers_mutex, value, percentile,
                 boundVars>>

(* The checkpoint thread sleeps again; log_done frees the timers and exits.*)
Printed(c) ==
  /\ Goto(c, "printed", IF c = "checkpoint" THEN "wait" ELSE "exit")
  /\ report' = NoReport
  /\ UNCHANGED <<interrupted, textVars, timers, timers_copy, timers_mutex,
                 value, percentile, unreported, boundVars>>
-----------------------------------------------------------------------------
(* SIGALRM is delivered on top of some live thread: the handler stops the  *)
(* global timers, logs that it forces the shutdown, and calls log_done.    *)
(* The steps of a thread are critical sections: it may be interrupted      *)
(* before one, or inside, where it has the mutex and keeps it.             *)
sigalrm_handler(c) ==
  /\ clock = MaxTime
  /\ pc[c] \notin {"done", "cut"}
  /\ pc["master"] = "wait" /\ interrupted = NoThread
  /\ Goto("handler", "wait", "text")
  /\ interrupted' = c
  /\ \/ UNCHANGED <<text_mutex, timers_mutex>>
     \/ /\ pc[c] \in {"idle", "print"} /\ text_mutex' = c
        /\ UNCHANGED timers_mutex
     \/ /\ pc[c] = "started" /\ n_checkpoints > 0 /\ timers_mutex = NoThread
        /\ timers_mutex' = c /\ UNCHANGED text_mutex
  /\ UNCHANGED <<text_buf, text_cnt, timers, timers_copy, value, percentile,
                 report, unreported, boundVars>>

HandlerLogs ==
  /\ Goto("handler", "text", "copy")
  /\ log_text("forcing shutdown")
  /\ UNCHANGED <<interrupted, timeVars, boundVars>>

Tick ==
  /\ ~Exited /\ clock < MaxTime
  /\ clock' = clock + 1
  /\ UNCHANGED <<pc, interrupted, textVars, timeVars, n_checkpoints, events, taken>>

RunnerStep(t) ==
  \/ TakeEvent(t) \/ EventStart(t) \/ EventStop(t)
  \/ EventRecord(t) \/ RunnerEnds(t)

PrinterStep(c) ==
  \/ CopyTimers(c) \/ ResetTimers(c) \/ Calculate(c) \/ ClearPercentile(c) \/ PrintStats(c)
  \/ Printed(c)

Next ==
  \/ \E t \in Threads : RunnerStep(t)
  \/ \E c \in Printers : PrinterStep(c)
  \/ CheckpointBegins
  \/ MasterCancels \/ CheckpointCancelled \/ HandlerCancelled \/ MasterJoins
  \/ \E c \in Callers \ {"handler"} : sigalrm_handler(c)
  \/ HandlerLogs
  \/ Tick
  \/ Exited /\ UNCHANGED vars

Spec == Init /\ [][Next]_vars

(* Every thread is scheduled, and gets the mutexes it waits for; no signal,*)
(* checkpoint or message is promised.                                      *)
Fairness ==
  /\ \A t \in Threads :
       /\ SF_vars(TakeEvent(t) \/ EventStart(t) \/ EventStop(t) \/ RunnerEnds(t))
       /\ WF_vars(EventRecord(t))
  /\ \A c \in Printers : SF_vars(PrinterStep(c))
  /\ WF_vars(MasterCancels) /\ WF_vars(MasterJoins)
  /\ WF_vars(CheckpointCancelled \/ HandlerCancelled)
  /\ SF_vars(HandlerLogs)

FairSpec == Spec /\ Fairness
-----------------------------------------------------------------------------
(* The reports of the checkpoints and of the end divide the run: every     *)
(* event that was stopped is, with the time measured, in exactly one       *)
(* report or still in its timer, and an event that runs across a           *)
(* checkpoint is in the report after it.  When the checkpoint thread is    *)
(* cancelled in its report, the events of that report are in none; no      *)
(* event is in two.  (A forced shutdown adds the unfinished events to its  *)
(* report; without checkpoints it reads the timers with no mutex.)         *)
EventsConserved ==
  LET Printing(c) == pc[c] \in {"reset", "calculate", "clear", "print"}
      total == merge_timers(timers)
      left == [events |-> total.events, sum_time |-> total.sum_time]
  IN interrupted = NoThread /\ (\A c \in Printers : ~Printing(c)) =>
       IF pc["checkpoint"] = "cut"
       THEN left.events <= unreported.events /\ left.sum_time <= unreported.sum_time
       ELSE left = unreported

(* What a report prints fits together: the average lies between minimum    *)
(* and maximum, the percentile is on the scale, and the samples of the     *)
(* percentile differ from the events by at most one for every runner       *)
(* caught between its timer and the percentile.                            *)
(* (A forced shutdown shares timers_copy with the report it interrupts.)   *)
ReportSound ==
  interrupted = NoThread /\ (\E c \in Printers : pc[c] = "printed") =>
      LET N == Cardinality(Threads) IN
      /\ report.events > 0 =>
           /\ report.min_time * report.events <= report.sum_time
           /\ report.sum_time <= report.max_time * report.events
      /\ report.percentile <= RangeMax
      /\ report.samples \in report.events - N .. report.events + N

(* "amount of time to wait after --max-time before forcing shutdown"       *)
(* (sysbench.c, --forced-shutdown): once the signal arrives, the program   *)
(* ends.                                                                   *)
ShutdownForced == interrupted # NoThread ~> Exited
=============================================================================
