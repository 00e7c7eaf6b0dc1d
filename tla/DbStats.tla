------------------------------ MODULE DbStats ------------------------------
(***************************************************************************)
(* The statistics of the database layer (db_driver.c): each runner counts  *)
(* its queries in its own slot of thread_stats, and three other threads    *)
(* sum the slots while the runners go on: the reporting thread, which      *)
(* prints differences to its last_* values, the checkpoint thread, which   *)
(* prints the sums and resets the counters, and the master, which prints   *)
(* and resets them once the runners have ended.                            *)
(*                                                                         *)
(* A C increment is a load and a store; a slot is summed, and reset, in    *)
(* one step.  The mutexes and timers around the reports are in RunTest:    *)
(* here exec_mutex excludes a checkpoint and the update of last_*.         *)
(***************************************************************************)
EXTENDS Integers, Sequences, FiniteSets

CONSTANTS
  Threads,        \* the runner threads
  MaxQueries,     \* bound on the queries of the run
  MaxReports,     \* bound on the intermediate reports
  MaxCheckpoints, \* bound on the checkpoints
  ULONG,          \* 2^w for the w bits of unsigned long
  NoThread        \* the holder of a free mutex

Readers == {"report", "checkpoint", "master"}

ASSUME DbStatsAssumption ==
  /\ IsFiniteSet(Threads)
  /\ MaxQueries \in Nat
  /\ MaxReports \in Nat
  /\ MaxCheckpoints \in Nat
  /\ ULONG \in Nat /\ ULONG > MaxQueries
  /\ NoThread \notin Threads \cup Readers

Fields ==
  {"read_ops", "write_ops", "other_ops", "transactions", "errors",
   "reconnects"}

(* The fields intermediate reports print, each with its last_* variable. *)
LastFields == Fields \ {"other_ops"}

(* What a call of the driver can come to: success of a query of one of the *)
(* four types, or one of the three kinds of error.                         *)
QueryTypes == {"READ", "WRITE", "COMMIT", "OTHER"}
DriverErrors == {"RECONNECTED", "RESTART_TRANSACTION", "FAILED"}

VARIABLES
  thread_stats,   \* runner -> field -> count
  stat_mutex,     \* runner -> the holder of its slot's mutex
  exec_mutex,     \* its holder
  last,           \* the last_* variables
  pc,             \* where each runner is
  counting,       \* the fields a runner still has to increment
  loaded,         \* the value a runner has loaded for its increment
  reader_pc,      \* where each reader is
  unread,         \* the slots a reader has not summed, or not reset, yet
  sums,           \* a reader's sums
  queries,        \* queries made so far
  reports,        \* intermediate reports begun so far
  checkpoints,    \* checkpoints begun so far
  executed,       \* history: field -> increments made
  others,         \* history: successful queries of type OTHER
  shown           \* history: field -> total of the differences printed

historyVars == <<executed, others>>
runnerVars == <<thread_stats, stat_mutex, pc, counting, loaded, queries,
                historyVars>>
readerVars == <<exec_mutex, last, reader_pc, unread, sums, reports,
                checkpoints, shown>>
vars == <<runnerVars, readerVars>>

Zero == [f \in Fields |-> 0]

(* db_init, which ends with db_reset_stats. *)
Init ==
  /\ thread_stats = [t \in Threads |-> Zero]
  /\ stat_mutex = [t \in Threads |-> NoThread]
  /\ exec_mutex = NoThread
  /\ last = [f \in LastFields |-> 0]
  /\ pc = [t \in Threads |-> "idle"]
  /\ counting = [t \in Threads |-> << >>]
  /\ loaded = [t \in Threads |-> 0]
  /\ reader_pc = [r \in Readers |-> "idle"]
  /\ unread = [r \in Readers |-> {}]
  /\ sums = [r \in Readers |-> Zero]
  /\ queries = 0
  /\ reports = 0
  /\ checkpoints = 0
  /\ executed = Zero
  /\ others = 0
  /\ shown = [f \in LastFields |-> 0]
-----------------------------------------------------------------------------
(* A runner: db_query and db_execute *)

Goto(t, from, to) ==
  /\ pc[t] = from
  /\ pc' = [pc EXCEPT ![t] = to]

(* The fields that count an outcome, in the order they are incremented. *)
Counted(outcome) ==
  CASE outcome = "READ"                -> <<"read_ops">>
    [] outcome = "WRITE"               -> <<"write_ops">>
    [] outcome = "COMMIT"              -> <<"other_ops", "transactions">>
    [] outcome = "OTHER"               -> <<"other_ops">>
    [] outcome = "RECONNECTED"         -> <<"reconnects">>
    [] outcome = "RESTART_TRANSACTION" -> <<"errors">>

(* The driver has answered.  A success is counted inside stat_mutex, an    *)
(* ignored error without it, and after a fatal one the runner ends.        *)
Answer(t, outcome) ==
  /\ queries < MaxQueries
  /\ queries' = queries + 1
  /\ \/ /\ outcome = "FAILED"
        /\ Goto(t, "idle", "done")
        /\ UNCHANGED counting
     \/ /\ outcome # "FAILED"
        /\ Goto(t, "idle", IF outcome \in QueryTypes THEN "lock" ELSE "load")
        /\ counting' = [counting EXCEPT ![t] = Counted(outcome)]
  /\ others' = IF outcome = "OTHER" THEN others + 1 ELSE others
  /\ UNCHANGED <<thread_stats, stat_mutex, loaded, executed, readerVars>>

(* Faulty: the counters are updated without the mutex of the slot. *)
LockStatsSkipped(t) ==
  /\ Goto(t, "lock", "load")
  /\ UNCHANGED <<stat_mutex, thread_stats, counting, loaded, queries,
                 historyVars, readerVars>>

LockStats(t) ==
  /\ Goto(t, "lock", "load")
  /\ stat_mutex[t] = NoThread
  /\ stat_mutex' = [stat_mutex EXCEPT ![t] = t]
  /\ UNCHANGED <<thread_stats, counting, loaded, queries, historyVars,
                 readerVars>>

Load(t) ==
  /\ Goto(t, "load", "store")
  /\ loaded' = [loaded EXCEPT ![t] = thread_stats[t][Head(counting[t])]]
  /\ UNCHANGED <<thread_stats, stat_mutex, counting, queries, historyVars,
                 readerVars>>

(* The store, and the unlock after the last one. *)
Store(t) ==
  LET f == Head(counting[t])
      last_one == Len(counting[t]) = 1
  IN
  /\ Goto(t, "store", IF last_one THEN "idle" ELSE "load")
  /\ thread_stats' = [thread_stats EXCEPT ![t][f] = (loaded[t] + 1) % ULONG]
  /\ executed' = [executed EXCEPT ![f] = @ + 1]
  /\ counting' = [counting EXCEPT ![t] = Tail(@)]
  /\ stat_mutex' = IF last_one /\ stat_mutex[t] = t
                     THEN [stat_mutex EXCEPT ![t] = NoThread]
                     ELSE stat_mutex
  /\ UNCHANGED <<loaded, queries, others, readerVars>>

(* The test is over for this runner. *)
Quit(t) ==
  /\ Goto(t, "idle", "done")
  /\ UNCHANGED <<thread_stats, stat_mutex, counting, loaded, queries,
                 historyVars, readerVars>>
-----------------------------------------------------------------------------
(* A reader: db_print_stats *)

RunnersEnded == \A t \in Threads : pc[t] = "done"

ReaderGoto(r, from, to) ==
  /\ reader_pc[r] = from
  /\ reader_pc' = [reader_pc EXCEPT ![r] = to]

(* Begin to sum.  The checkpoint thread holds exec_mutex during all of its *)
(* report; the master has silenced the reporting thread.                   *)
Begin(r) ==
  /\ \/ /\ r = "report" /\ reports < MaxReports
        /\ reader_pc["master"] = "idle"
        /\ reports' = reports + 1
        /\ UNCHANGED <<checkpoints, exec_mutex>>
     \/ /\ r = "checkpoint" /\ checkpoints < MaxCheckpoints
        /\ exec_mutex = NoThread
        /\ exec_mutex' = r
        /\ checkpoints' = checkpoints + 1
        /\ UNCHANGED reports
     \/ /\ r = "master" /\ RunnersEnded
        /\ reader_pc["report"] = "idle"
        /\ UNCHANGED <<reports, checkpoints, exec_mutex>>
  /\ ReaderGoto(r, "idle", "sum")
  /\ unread' = [unread EXCEPT ![r] = Threads]
  /\ sums' = [sums EXCEPT ![r] = Zero]
  /\ UNCHANGED <<last, shown, runnerVars>>

(* Faulty: one slot is left out. *)
SumButOne(r, t) ==
  /\ t \in unread[r]
  /\ stat_mutex[t] = NoThread
  /\ ReaderGoto(r, "sum",
                IF Cardinality(unread[r]) <= 2 THEN "print" ELSE "sum")
  /\ unread' = [unread EXCEPT ![r] = @ \ {t}]
  /\ sums' = [sums EXCEPT ![r] =
                [f \in Fields |-> (@[f] + thread_stats[t][f]) % ULONG]]
  /\ UNCHANGED <<exec_mutex, last, reports, checkpoints, shown,
                 runnerVars>>

(* Add one slot, inside its mutex. *)
Sum(r, t) ==
  /\ t \in unread[r]
  /\ stat_mutex[t] = NoThread
  /\ ReaderGoto(r, "sum", IF unread[r] = {t} THEN "print" ELSE "sum")
  /\ unread' = [unread EXCEPT ![r] = @ \ {t}]
  /\ sums' = [sums EXCEPT ![r] =
                [f \in Fields |-> (@[f] + thread_stats[t][f]) % ULONG]]
  /\ UNCHANGED <<exec_mutex, last, reports, checkpoints, shown,
                 runnerVars>>

(* The difference of two unsigned longs. *)
Diff(a, b) == (a - b) % ULONG

(* An intermediate report prints the differences to the last_* values. *)
PrintIntermediate ==
  LET diff == [f \in LastFields |-> Diff(sums["report"][f], last[f])] IN
  /\ ReaderGoto("report", "print", "save")
  /\ shown' = [f \in LastFields |-> shown[f] + diff[f]]
  /\ UNCHANGED <<exec_mutex, last, unread, sums, reports, checkpoints,
                 runnerVars>>

(* Faulty: last_errors is not moved forward. *)
SaveLastButErrors ==
  /\ ReaderGoto("report", "save", "idle")
  /\ exec_mutex = NoThread
  /\ last' = [f \in LastFields |->
                IF f = "errors" THEN last[f] ELSE sums["report"][f]]
  /\ UNCHANGED <<exec_mutex, unread, sums, reports, checkpoints, shown,
                 runnerVars>>

(* It then stores its sums in the last_* values, inside exec_mutex. *)
SaveLast ==
  /\ ReaderGoto("report", "save", "idle")
  /\ exec_mutex = NoThread
  /\ last' = [f \in LastFields |-> sums["report"][f]]
  /\ UNCHANGED <<exec_mutex, unread, sums, reports, checkpoints, shown,
                 runnerVars>>

(* A cumulative report prints the sums. *)
PrintCumulative(r) ==
  /\ r \in {"checkpoint", "master"}
  /\ ReaderGoto(r, "print", "reset")
  /\ unread' = [unread EXCEPT ![r] = Threads]
  /\ UNCHANGED <<exec_mutex, last, sums, reports, checkpoints, shown,
                 runnerVars>>

(* db_reset_stats: each slot without its mutex, ... *)
ResetSlot(r, t) ==
  /\ t \in unread[r]
  /\ ReaderGoto(r, "reset", IF unread[r] = {t} THEN "forget" ELSE "reset")
  /\ unread' = [unread EXCEPT ![r] = @ \ {t}]
  /\ thread_stats' = [thread_stats EXCEPT ![t] = Zero]
  /\ UNCHANGED <<stat_mutex, pc, counting, loaded, queries, historyVars,
                 exec_mutex, last, sums, reports, checkpoints, shown>>

(* ... then the last_* values, last_reconnects excepted; the checkpoint    *)
(* thread releases exec_mutex.                                             *)
ResetLast(r) ==
  /\ ReaderGoto(r, "forget", IF r = "master" THEN "done" ELSE "idle")
  /\ last' = [f \in LastFields |-> IF f = "reconnects" THEN last[f] ELSE 0]
  /\ exec_mutex' = IF exec_mutex = r THEN NoThread ELSE exec_mutex
  /\ UNCHANGED <<unread, sums, reports, checkpoints, shown,
                 runnerVars>>
-----------------------------------------------------------------------------
RunnerStep(t) ==
  \/ \E outcome \in QueryTypes \cup DriverErrors : Answer(t, outcome)
  \/ LockStats(t) \/ Load(t) \/ Store(t) \/ Quit(t)

ReaderStep(r) ==
  \/ Begin(r)
  \/ \E t \in Threads : Sum(r, t) \/ ResetSlot(r, t)
  \/ r = "report" /\ (PrintIntermediate \/ SaveLast)
  \/ PrintCumulative(r)
  \/ ResetLast(r)

(* The master is through, and so is the checkpoint thread. *)
Finished ==
  /\ reader_pc["master"] = "done" /\ reader_pc["checkpoint"] = "idle"
  /\ UNCHANGED vars

Next ==
  \/ \E t \in Threads : RunnerStep(t)
  \/ \E r \in Readers : ReaderStep(r)
  \/ Finished

Spec == Init /\ [][Next]_vars
-----------------------------------------------------------------------------
(* Properties *)

(* Every variable has its type. *)
TypeOK ==
  /\ thread_stats \in [Threads -> [Fields -> 0 .. ULONG - 1]]
  /\ \A t \in Threads : stat_mutex[t] \in {t, NoThread}
  /\ exec_mutex \in {"checkpoint", NoThread}
  /\ last \in [LastFields -> 0 .. ULONG - 1]
  /\ pc \in [Threads -> {"idle", "lock", "load", "store", "done"}]
  /\ counting \in [Threads -> Seq(Fields)]
  /\ loaded \in [Threads -> 0 .. ULONG - 1]
  /\ reader_pc \in
       [Readers -> {"idle", "sum", "print", "save", "reset", "forget", "done"}]
  /\ unread \in [Readers -> SUBSET Threads]
  /\ sums \in [Readers -> [Fields -> 0 .. ULONG - 1]]
  /\ queries \in 0 .. MaxQueries
  /\ reports \in 0 .. MaxReports
  /\ checkpoints \in 0 .. MaxCheckpoints
  /\ executed \in [Fields -> Nat]
  /\ others \in Nat
  /\ shown \in [LastFields -> Nat]

(* What a report adds up fits together.  Not even one that races with a    *)
(* reset shows more queries of a kind than were executed (a reset undone   *)
(* by a late store counts a query again, but in a later report).  And a    *)
(* commit, which counts as an operation and as a transaction, is whole:    *)
(* until a checkpoint resets the counters, the other operations are the    *)
(* transactions and queries of type OTHER.                                 *)
ReportsSound ==
  \A r \in Readers : reader_pc[r] \in {"print", "save", "reset"} =>
    /\ \A f \in Fields : sums[r][f] <= executed[f]
    /\ checkpoints = 0 =>
         sums[r]["other_ops"] - sums[r]["transactions"] \in 0 .. others

(* Without checkpoints the final statistics are exact: every query of      *)
(* every runner is counted once, although errors and reconnects are        *)
(* incremented without a mutex and the slots were read throughout.         *)
FinalExact ==
  checkpoints = 0 /\ reader_pc["master"] \in {"print", "reset"} =>
    sums["master"] = executed

(* Without checkpoints the intermediate reports divide the run: what they  *)
(* have shown so far adds up to the sums the last one of them read, so no  *)
(* query is shown twice and none is left out.                              *)
IntervalsAddUp ==
  checkpoints = 0 /\ reader_pc["master"] = "idle" =>
    \A f \in LastFields :
      shown[f] = IF reader_pc["report"] = "save" THEN sums["report"][f]
                                                 ELSE last[f]

=============================================================================
