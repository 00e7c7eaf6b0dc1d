------------------------- MODULE ScriptingProofs -------------------------
(***************************************************************************)
(* What the scripting side promises. SqlScript, for any scripts, drivers   *)
(* and options, any number of threads and of bad answers: the limit on the *)
(* events holds as far as it can, no row of a bulk insert is lost or       *)
(* doubled unnoticed, what is counted was performed, and - if the scripts  *)
(* read their results - no query is sent while a result is unread. LuaGC,  *)
(* the collector of the interpreter that runs the scripts: finalizers run  *)
(* once. WinThreads, at the end: what the drivers these scripts use are    *)
(* initialised with in the Windows build.                                  *)
(***************************************************************************)
EXTENDS SqlScript, LuaGC, WinThreads, ThreadLemmas

Frames == {"init", "get", "inc", "event", "done", "ended"}
Functions == {"init", "event", "done"}
Failures == {"no", "insert_fails", "commit_fails", "lost"}

(* The control of the threads. *)
ControlInv ==
  /\ cfg \in Configs
  /\ error \in BOOLEAN /\ panic \in BOOLEAN
  /\ frame \in [Threads -> Frames]
  /\ ip \in [Threads -> Nat]
  /\ reconnecting \in [Threads -> {"no", "query", "store"}]
  /\ \A t \in Threads : reconnecting[t] # "no" => frame[t] \in Functions

(* What a thread has read of the counter was handed out, and is below the  *)
(* limit; those that have passed the test are counted in advance.  Nobody  *)
(* is past its events unless they were handed out or there was an error.   *)
EventsInv ==
  /\ nevents \in Nat /\ granted \in Nat
  /\ seen \in [Threads -> Nat]
  /\ nevents <= granted
  /\ nevents + Cardinality(At(Threads, frame, {"inc"}))
       <= max_requests + Cardinality(Threads) - 1
  /\ \A t \in Threads :
       /\ seen[t] <= granted
       /\ frame[t] = "inc" => seen[t] < max_requests
       /\ frame[t] \in {"done", "ended"} => error \/ granted >= max_requests

(* Where the rows of a bulk insert are, and the room in its buffer. *)
BulkTypes ==
  /\ bulk \in [Threads -> [ptr : Nat, cnt : Nat, commit_cnt : Nat]]
  /\ given \in [Threads -> Nat]
  /\ inserted \in [Threads -> Nat]
  /\ committed \in [Threads -> Nat]
  /\ bulkFailed \in [Threads -> Failures]

BulkInv == BulkTypes /\ BulkConservation

(* The statements a driver can have made, and what was counted of them. *)
StmtTypes ==
  /\ stmt \in [Threads -> {"none", "server", "emulated", "detached"}]
  /\ lead \in [Threads -> Int]

StmtInv ==
  /\ StmtTypes
  /\ \A t \in Threads :
       /\ stmt[t] = "detached" => cfg.driver = "mysql"
       /\ cfg.driver \in {"pgsql", "oracle"} =>
            stmt[t] \in (IF cfg.ps THEN {"none", "server"} ELSE {"none", "emulated"})
       /\ cfg.dry_run /\ ~panic => stmt[t] = "none"
  /\ CountedPerformed

(* The inductive invariant of every run, ... *)
IInv == ControlInv /\ EventsInv /\ BulkInv /\ StmtInv

(* The thread is about to read a result, and its driver will. *)
Reading(t) ==
  /\ con[t] # "no" /\ reconnecting[t] = "no"
  /\ frame[t] \in Functions
  /\ ip[t] \in DOMAIN Program(t) /\ Program(t)[ip[t]] = "store"
  /\ cfg.driver # "pgsql"
  /\ cfg.driver = "oracle" => rstmt[t] /\ stmt[t] = "server"

(* ... and, beside it, that of scripts that read their results: a thread   *)
(* with an unread result is about to read it.                              *)
SyncInv ==
  /\ con \in [Threads -> {"no", "yes", "lost"}]
  /\ rs \in [Threads -> {"none", "open", "stored"}]
  /\ rstmt \in [Threads -> BOOLEAN]
  /\ \A t \in Threads : rs[t] = "open" => Reading(t)
  /\ InSync
-----------------------------------------------------------------------------
(* What the drivers make of the answers.  Only MySQL reconnects; a query   *)
(* is taken for performed exactly if it was.                               *)
LEMMA QueryFacts ==
  ASSUME NEW o, o.driver \in Drivers, NEW a \in Answers, o.dry_run => a = "ok"
  PROVE  /\ DriverQuery(o, a) = "NONE" <=> a = "ok"
         /\ DriverQuery(o, a) = "RECONNECT" => o.driver = "mysql"
<1>1. CASE o.driver = "mysql"
  <2>1. DriverQuery(o, a) = mysql_drv_query(o, a)
    BY <1>1, Zenon DEF DriverQuery
  <2> QED BY <1>1, <2>1 DEF mysql_drv_query, check_error
<1>2. CASE o.driver = "pgsql"
  <2>1. DriverQuery(o, a) = pgsql_check_status(a)
    BY <1>2, Zenon DEF DriverQuery, pgsql_drv_query
  <2> QED BY <2>1 DEF pgsql_check_status, Answers
<1>3. CASE o.driver = "drizzle"
  <2>1. DriverQuery(o, a) = drizzle_drv_query(o, a)
    BY <1>3, Zenon DEF DriverQuery
  <2> QED BY <2>1 DEF drizzle_drv_query, Answers
<1>4. CASE o.driver = "attachsql"
  <2>1. DriverQuery(o, a) = attachsql_drv_query(o, a)
    BY <1>4, Zenon DEF DriverQuery
  <2> QED BY <2>1 DEF attachsql_drv_query, Answers
<1>5. CASE o.driver = "oracle"
  <2>1. DriverQuery(o, a) = ora_drv_query(o, a)
    BY <1>5, Zenon DEF DriverQuery
  <2> QED BY <2>1 DEF ora_drv_query
<1> QED BY <1>1, <1>2, <1>3, <1>4, <1>5 DEF Drivers

(* So is an execution, if the statement is not emulated by Oracle's driver.*)
LEMMA ExecuteFacts ==
  ASSUME NEW o, o.driver \in Drivers, NEW a \in Answers, ~o.dry_run, NEW s,
         s = "detached" => a = "fail" /\ o.driver = "mysql"
  PROVE  /\ a = "ok" => DriverExecute(o, s, a) = "NONE"
         /\ ~(o.driver = "oracle" /\ s = "emulated") =>
              (DriverExecute(o, s, a) = "NONE" <=> a = "ok")
         /\ DriverExecute(o, s, a) = "RECONNECT" => o.driver = "mysql"
<1>1. CASE o.driver = "mysql"
  <2>1. DriverExecute(o, s, a) = mysql_drv_execute(o, s, a)
    BY <1>1, Zenon DEF DriverExecute
  <2> QED BY <1>1, <2>1 DEF mysql_drv_execute, mysql_drv_query, check_error
<1>2. CASE o.driver = "pgsql"
  <2>1. DriverExecute(o, s, a) = pgsql_check_status(a)
    BY <1>2, Zenon DEF DriverExecute, pgsql_drv_execute, pgsql_drv_query
  <2> QED BY <2>1 DEF pgsql_check_status, Answers
<1>3. CASE o.driver = "drizzle"
  <2>1. DriverExecute(o, s, a) = drizzle_drv_query(o, a)
    BY <1>3, Zenon DEF DriverExecute, drizzle_drv_execute
  <2> QED BY <2>1 DEF drizzle_drv_query, Answers
<1>4. CASE o.driver = "attachsql"
  <2>1. DriverExecute(o, s, a) = attachsql_drv_execute(o, s, a)
    BY <1>4, Zenon DEF DriverExecute
  <2> QED BY <2>1 DEF attachsql_drv_execute
<1>5. CASE o.driver = "oracle"
  <2>1. DriverExecute(o, s, a) = ora_drv_execute(o, s, a)
    BY <1>5, Zenon DEF DriverExecute
  <2> QED BY <1>5, <2>1 DEF ora_drv_execute, ora_drv_query
<1> QED BY <1>1, <1>2, <1>3, <1>4, <1>5 DEF Drivers

(* What is sent for a bound integer. *)
LEMMA ValueFacts ==
  ASSUME NEW o, o.driver \in Drivers, o.param = "int", NEW s,
         o.driver \in {"pgsql", "oracle"} => s = "emulated"
  PROVE  ValueSent(o, s) = {"value"}
<1>1. CASE o.driver = "mysql"
  <2>1. ValueSent(o, s) = mysql_value(o, s)
    BY <1>1, Zenon DEF ValueSent
  <2> QED BY <2>1 DEF mysql_value, db_print_value
<1>2. CASE o.driver = "pgsql"
  <2>1. ValueSent(o, s) = db_print_value(o)
    BY <1>2, Zenon DEF ValueSent, pgsql_value
  <2> QED BY <2>1 DEF db_print_value
<1>3. CASE o.driver = "drizzle"
  <2>1. ValueSent(o, s) = db_print_value(o)
    BY <1>3, Zenon DEF ValueSent
  <2> QED BY <2>1 DEF db_print_value
<1>4. CASE o.driver = "attachsql"
  <2>1. ValueSent(o, s) = attachsql_value(o, s)
    BY <1>4, Zenon DEF ValueSent
  <2> QED BY <2>1 DEF attachsql_value
<1>5. CASE o.driver = "oracle"
  <2>1. ValueSent(o, s) = ora_value(o, s)
    BY <1>5, Zenon DEF ValueSent
  <2> QED BY <1>5, <2>1 DEF ora_value, db_print_value
<1> QED BY <1>1, <1>2, <1>3, <1>4, <1>5 DEF Drivers

(* What preparing makes of a statement. *)
LEMMA PrepareFacts ==
  ASSUME NEW o, o.driver \in Drivers
  PROVE  /\ DriverPrepare(o) \subseteq {"none", "server", "emulated"}
         /\ o.driver \in {"pgsql", "oracle"} =>
              DriverPrepare(o) \subseteq
                (IF o.ps THEN {"none", "server"} ELSE {"none", "emulated"})
<1>1. CASE o.driver = "mysql"
  <2>1. DriverPrepare(o) = mysql_drv_prepare(o)
    BY <1>1, Zenon DEF DriverPrepare
  <2> QED BY <1>1, <2>1 DEF mysql_drv_prepare
<1>2. CASE o.driver = "pgsql"
  <2>1. DriverPrepare(o) = pgsql_drv_prepare(o)
    BY <1>2, Zenon DEF DriverPrepare
  <2> QED BY <2>1 DEF pgsql_drv_prepare
<1>3. CASE o.driver = "drizzle"
  <2>1. DriverPrepare(o) = drizzle_drv_prepare(o)
    BY <1>3, Zenon DEF DriverPrepare
  <2> QED BY <1>3, <2>1 DEF drizzle_drv_prepare
<1>4. CASE o.driver = "attachsql"
  <2>1. DriverPrepare(o) = attachsql_drv_prepare(o)
    BY <1>4, Zenon DEF DriverPrepare
  <2> QED BY <1>4, <2>1 DEF attachsql_drv_prepare
<1>5. CASE o.driver = "oracle"
  <2>1. DriverPrepare(o) = ora_drv_prepare(o)
    BY <1>5, Zenon DEF DriverPrepare
  <2> QED BY <2>1 DEF ora_drv_prepare
<1> QED BY <1>1, <1>2, <1>3, <1>4, <1>5 DEF Drivers

(* A result that is unread is one its driver can read to the end: Oracle's *)
(* that of a prepared statement only, PostgreSQL's library reads at once.  *)
LEMMA ResultFacts ==
  ASSUME NEW o, o.driver \in Drivers, NEW s
  PROVE  /\ ResultOf(o, s) \in {"none", "open", "stored"}
         /\ ResultOf(o, s) = "open" =>
              o.driver # "pgsql" /\ (o.driver = "oracle" => s = "server")
<1>1. CASE o.driver \in {"drizzle", "attachsql"}
  BY <1>1, Zenon DEF ResultOf
<1>2. CASE o.driver = "mysql"
  <2>1. ResultOf(o, s) = IF o.dry_run THEN "none" ELSE "open"
    BY <1>2, Zenon DEF ResultOf
  <2> QED BY <1>2, <2>1
<1>3. CASE o.driver = "pgsql"
  <2>1. ResultOf(o, s) = "stored"
    BY <1>3, Zenon DEF ResultOf
  <2> QED BY <2>1
<1>4. CASE o.driver = "oracle"
  <2>1. ResultOf(o, s) = IF s = "server" THEN "open" ELSE "none"
    BY <1>4, Zenon DEF ResultOf
  <2> QED BY <1>4, <2>1
<1> QED BY <1>1, <1>2, <1>3, <1>4 DEF Drivers

(* Storing reads it. *)
LEMMA StoreFacts ==
  ASSUME NEW o, o.driver \in Drivers, NEW s,
         NEW r \in {"none", "open", "stored"},
         r = "open" =>
           o.driver # "pgsql" /\ (o.driver = "oracle" => s = "server")
  PROVE  DriverStore(o, s, r) \in {"none", "stored"}
<1>1. CASE o.driver = "mysql"
  <2>1. DriverStore(o, s, r) = mysql_drv_store_results(o, s, r)
    BY <1>1, Zenon DEF DriverStore
  <2> QED BY <2>1 DEF mysql_drv_store_results
<1>2. CASE o.driver = "pgsql"
  <2>1. DriverStore(o, s, r) = pgsql_drv_store_results(o, s, r)
    BY <1>2, Zenon DEF DriverStore
  <2> QED BY <1>2, <2>1 DEF pgsql_drv_store_results
<1>3. CASE o.driver = "drizzle"
  <2>1. DriverStore(o, s, r) = drizzle_drv_store_results(o, s, r)
    BY <1>3, Zenon DEF DriverStore
  <2> QED BY <2>1 DEF drizzle_drv_store_results
<1>4. CASE o.driver = "attachsql"
  <2>1. DriverStore(o, s, r) = attachsql_drv_store_results(o, s, r)
    BY <1>4, Zenon DEF DriverStore
  <2> QED BY <2>1 DEF attachsql_drv_store_results
<1>5. CASE o.driver = "oracle"
  <2>1. DriverStore(o, s, r) = ora_drv_store_results(o, s, r)
    BY <1>5, Zenon DEF DriverStore
  <2> QED BY <1>5, <2>1 DEF ora_drv_store_results
<1> QED BY <1>1, <1>2, <1>3, <1>4, <1>5 DEF Drivers

(* Freeing makes nothing of nothing. *)
LEMMA FreeFacts ==
  ASSUME NEW o, o.driver \in Drivers, NEW s,
         NEW r \in {"none", "stored"}
  PROVE  DriverFree(o, s, r) \in {"none", "stored"}
<1>1. CASE o.driver = "mysql"
  <2>1. DriverFree(o, s, r) = mysql_drv_free_results(o, s, r)
    BY <1>1, Zenon DEF DriverFree
  <2> QED BY <2>1 DEF mysql_drv_free_results
<1>2. CASE o.driver \in {"pgsql", "attachsql"}
  <2>1. DriverFree(o, s, r) = "none"
    BY <1>2, Zenon DEF DriverFree, pgsql_drv_free_results,
       attachsql_drv_free_results
  <2> QED BY <2>1
<1>3. CASE o.driver = "drizzle"
  <2>1. DriverFree(o, s, r) = drizzle_drv_free_results(o, s, r)
    BY <1>3, Zenon DEF DriverFree
  <2> QED BY <2>1 DEF drizzle_drv_free_results
<1>4. CASE o.driver = "oracle"
  <2>1. DriverFree(o, s, r) = ora_drv_free_results(o, s, r)
    BY <1>4, Zenon DEF DriverFree
  <2> QED BY <2>1 DEF ora_drv_free_results
<1> QED BY <1>1, <1>2, <1>3, <1>4 DEF Drivers
-----------------------------------------------------------------------------
(* The thread stays where it is, or an error or the end of a function      *)
(* moves it; whoever gets past the events by an error has reported it.     *)
Moves(t) ==
  /\ error' \in BOOLEAN /\ (error => error')
  /\ \E n \in Nat : ip' = [ip EXCEPT ![t] = n]
  /\ \E to \in Frames \ {"inc"} :
       /\ frame' = [frame EXCEPT ![t] = to]
       /\ to \in {"done", "ended"} => error' \/ frame[t] \in {"done", "ended"}
  /\ frame[t] # "inc"

(* It goes on reconnecting, or not. *)
Reconnects(t) ==
  \E r \in {"no", "query", "store"} :
    /\ reconnecting' = [reconnecting EXCEPT ![t] = r]
    /\ r # "no" => frame' = frame /\ frame[t] \in Functions

(* Some facts to start from. *)
LEMMA ConfigFacts ==
  ASSUME ControlInv
  PROVE  /\ cfg.driver \in Drivers
         /\ cfg.dry_run \in BOOLEAN /\ cfg.ps \in BOOLEAN
         /\ cfg.dry_run => cfg.driver = "mysql"
         /\ cfg.row_lengths \subseteq Nat
         /\ cfg.script \in [Functions -> Seq(ScriptCalls)]
BY SqlScriptAssumption DEF ControlInv, Functions

LEMMA StayMoves ==
  ASSUME ControlInv, NEW t \in Threads, frame[t] # "inc",
         UNCHANGED <<threadVars, error>>
  PROVE  Moves(t)
<1>1. frame' = [frame EXCEPT ![t] = frame[t]]
  BY DEF ControlInv, threadVars
<1>2. frame[t] \in Frames \ {"inc"}
  BY DEF ControlInv
<1>3. /\ error' \in BOOLEAN /\ (error => error')
      /\ ip[t] \in Nat /\ ip' = [ip EXCEPT ![t] = ip[t]]
  BY DEF ControlInv, threadVars
<1> QED BY <1>1, <1>2, <1>3, Zenon DEF Moves, threadVars

LEMMA ReturnMoves ==
  ASSUME ControlInv, NEW t \in Threads, frame[t] # "inc", Return(t)
  PROVE  Moves(t) /\ frame' = frame /\ seen' = seen
<1>1. frame' = [frame EXCEPT ![t] = frame[t]]
  BY DEF ControlInv, Return
<1>2. frame[t] \in Frames \ {"inc"}
  BY DEF ControlInv
<1>3. error' \in BOOLEAN /\ (error => error')
  BY DEF ControlInv, Return
<1>4. ip[t] + 1 \in Nat /\ ip' = [ip EXCEPT ![t] = ip[t] + 1]
  BY DEF ControlInv, Return
<1> QED BY <1>1, <1>2, <1>3, <1>4, Zenon DEF Moves, Return

LEMMA LuaErrorMoves ==
  ASSUME ControlInv, NEW t \in Threads, frame[t] \in Functions,
         NEW e, LuaError(t, e)
  PROVE  Moves(t) /\ seen' = seen
<1>1. ip' = [ip EXCEPT ![t] = 1]
  BY DEF LuaError
<1>2. error' \in BOOLEAN /\ (error => error')
  BY DEF LuaError, ControlInv
<1>3. CASE frame[t] = "event" /\ e = "RESTART"
  <2>1. frame' = [frame EXCEPT ![t] = "event"]
    BY <1>3 DEF LuaError
  <2> QED BY <1>1, <1>2, <1>3, <2>1 DEF Moves, Frames, LuaError
<1>4. CASE frame[t] = "event" /\ e # "RESTART"
  <2>1. frame' = [frame EXCEPT ![t] = "done"]
    BY <1>4 DEF LuaError
  <2>2. error'
    BY <1>4, Zenon DEF LuaError
  <2> QED BY <1>1, <1>2, <1>4, <2>1, <2>2 DEF Moves, Frames, LuaError
<1>5. CASE frame[t] # "event"
  <2>1. frame' = [frame EXCEPT ![t] = "ended"]
    BY <1>5 DEF LuaError
  <2>2. error' \/ frame[t] = "done"
    BY <1>5, Zenon DEF LuaError
  <2> QED BY <1>1, <1>2, <1>5, <2>1, <2>2 DEF Moves, Frames, LuaError, Functions
<1> QED BY <1>3, <1>4, <1>5

LEMMA CallFacts ==
  ASSUME NEW t \in Threads, NEW call, Calls(t, call)
  PROVE  /\ ~panic /\ reconnecting[t] = "no" /\ frame[t] \in Functions
         /\ frame[t] # "inc"
         /\ ip[t] \in DOMAIN Program(t) /\ Program(t)[ip[t]] = call
BY DEF Calls, Functions

(* No reconnect. *)
LEMMA SameReconnects ==
  ASSUME ControlInv, NEW t \in Threads, reconnecting[t] = "no",
         reconnecting' = reconnecting
  PROVE  Reconnects(t)
<1>1. reconnecting' = [reconnecting EXCEPT ![t] = "no"]
  BY DEF ControlInv
<1> QED BY <1>1 DEF Reconnects

(* A query or an execution. *)
LEMMA FinishMoves ==
  ASSUME ControlInv, NEW t \in Threads, reconnecting[t] = "no",
         frame[t] \in Functions, NEW a, NEW e, NEW r, NEW b,
         Finish(t, a, e, r, b)
  PROVE  Moves(t) /\ Reconnects(t) /\ seen' = seen
<1>1. CASE e = "RECONNECT"
  <2>1. /\ reconnecting' = [reconnecting EXCEPT ![t] = "query"]
        /\ UNCHANGED <<threadVars, error>>
    BY <1>1 DEF Finish, mysql_drv_reconnect
  <2>2. Reconnects(t)
    BY <2>1 DEF Reconnects, threadVars
  <2> QED BY <2>1, <2>2, StayMoves DEF Functions, threadVars
<1>2. CASE e # "RECONNECT"
  <2>1. reconnecting' = reconnecting
    BY <1>2 DEF Finish
  <2>2. Return(t) \/ LuaError(t, e)
    BY <1>2 DEF Finish
  <2> QED BY <2>1, <2>2, ReturnMoves, LuaErrorMoves, SameReconnects DEF Functions
<1> QED BY <1>1, <1>2

(* Every step outside of the event generator. *)
LEMMA StepMoves ==
  ASSUME ControlInv, NEW t \in Threads, ThreadStep(t),
         ~CheckEvents(t), ~CountEvent(t)
  PROVE  /\ Moves(t) /\ Reconnects(t)
         /\ cfg' = cfg /\ panic' \in BOOLEAN
         /\ UNCHANGED <<nevents, granted, seen>>
<1> DEFINE Goal == /\ Moves(t) /\ Reconnects(t)
                   /\ cfg' = cfg /\ panic' \in BOOLEAN
                   /\ UNCHANGED <<nevents, granted, seen>>
<1>1. CASE sb_lua_db_connect(t)
  <2>1. /\ reconnecting' = reconnecting /\ cfg' = cfg
        /\ UNCHANGED <<nevents, granted>>
    BY <1>1 DEF sb_lua_db_connect
  <2>2. \/ frame[t] = "init" /\ ip[t] = 1
        \/ reconnecting[t] = "no" /\ frame[t] \in Functions
    BY <1>1, CallFacts DEF sb_lua_db_connect
  <2>3. panic' \in BOOLEAN
    BY <1>1 DEF sb_lua_db_connect, ControlInv
  <2>4. \/ UNCHANGED <<threadVars, error>>
        \/ reconnecting[t] = "no" /\ frame[t] \in Functions /\ LuaError(t, "MESSAGE")
    BY <1>1, <2>2 DEF sb_lua_db_connect
  <2>5. frame[t] # "inc"
    BY <2>2 DEF Functions
  <2>6. Moves(t) /\ seen' = seen
    BY <2>4, <2>5, StayMoves, LuaErrorMoves DEF threadVars
  <2>7. Reconnects(t)
    BY <2>1, <2>4, <2>2, SameReconnects DEF Reconnects, ControlInv, threadVars
  <2> QED BY <2>1, <2>3, <2>6, <2>7
<1>2. CASE FunctionEnds(t)
  <2>1. /\ reconnecting[t] = "no" /\ frame[t] \in Functions
        /\ UNCHANGED <<cfg, nevents, error, panic, seen, granted, reconnecting>>
    BY <1>2 DEF FunctionEnds, Functions
  <2>2. ip' = [ip EXCEPT ![t] = 1]
    BY <1>2 DEF FunctionEnds
  <2>3. /\ frame[t] = "init" => frame' = [frame EXCEPT ![t] = "get"]
        /\ frame[t] = "done" => frame' = [frame EXCEPT ![t] = "ended"]
        /\ frame[t] = "event" =>
             frame' = [frame EXCEPT ![t] = IF error THEN "done" ELSE "get"]
    BY <1>2, Zenon DEF FunctionEnds, ControlInv
  <2>4. Moves(t)
    BY <2>1, <2>2, <2>3 DEF Moves, Functions, Frames, ControlInv
  <2> QED BY <2>1, <2>4, SameReconnects DEF ControlInv
<1>3. CASE Reconnect(t)
  <2>1. /\ UNCHANGED <<cfg, nevents, panic, granted>>
        /\ reconnecting[t] # "no"
        /\ \/ reconnecting' = [reconnecting EXCEPT ![t] = "no"]
                /\ (Return(t) \/ LuaError(t, "RESTART") \/ LuaError(t, "FAILED"))
           \/ reconnecting' = reconnecting /\ UNCHANGED <<threadVars, error>>
    BY <1>3 DEF Reconnect
  <2>2. frame[t] \in Functions
    BY <2>1 DEF ControlInv
  <2>3. Moves(t) /\ seen' = seen
    BY <2>1, <2>2, StayMoves, ReturnMoves, LuaErrorMoves
    DEF Functions, threadVars
  <2>4. Reconnects(t)
    <3>1. CASE reconnecting' = [reconnecting EXCEPT ![t] = "no"]
      BY <3>1 DEF Reconnects
    <3>2. CASE reconnecting' = reconnecting /\ UNCHANGED <<threadVars, error>>
      <4>1. /\ reconnecting[t] \in {"no", "query", "store"}
            /\ reconnecting' = [reconnecting EXCEPT ![t] = reconnecting[t]]
        BY <3>2 DEF ControlInv
      <4> QED BY <2>2, <3>2, <4>1 DEF Reconnects, threadVars
    <3> QED BY <2>1, <3>1, <3>2
  <2> QED BY <2>1, <2>3, <2>4 DEF ControlInv
<1>4. CASE \E query \in Queries : db_query(t, query)
  <2>1. PICK query \in Queries, a \in Answers :
          /\ Calls(t, query)
          /\ Finish(t, a, DriverQuery(cfg, a),
                    IF query = "select" THEN ResultOf(cfg, "none") ELSE "none",
                    FALSE)
          /\ UNCHANGED <<cfg, nevents, panic, granted>>
    BY <1>4 DEF db_query
  <2>2. reconnecting[t] = "no" /\ frame[t] \in Functions
    BY <2>1, CallFacts
  <2>3. Moves(t) /\ Reconnects(t) /\ seen' = seen
    BY <2>1, <2>2, FinishMoves
  <2> QED BY <2>1, <2>3 DEF ControlInv
<1>5. CASE sb_lua_db_execute(t)
  <2>1. PICK a \in Answers, v \in ValueSent(cfg, stmt[t]) :
          /\ Calls(t, "execute")
          /\ Finish(t, a, DriverExecute(cfg, stmt[t], a),
                    ResultOf(cfg, stmt[t]), TRUE)
          /\ UNCHANGED <<cfg, nevents, panic, granted>>
    BY <1>5 DEF sb_lua_db_execute, Uses
  <2>2. reconnecting[t] = "no" /\ frame[t] \in Functions
    BY <2>1, CallFacts
  <2>3. Moves(t) /\ Reconnects(t) /\ seen' = seen
    BY <2>1, <2>2, FinishMoves
  <2> QED BY <2>1, <2>3 DEF ControlInv
<1>6. CASE db_store_results(t)
  <2>1. /\ Calls(t, "store")
        /\ \/ mysql_drv_reconnect(t, "store") /\ UNCHANGED <<threadVars, error>>
           \/ Return(t) /\ reconnecting' = reconnecting
        /\ UNCHANGED <<cfg, nevents, panic, granted>>
    BY <1>6 DEF db_store_results, Uses
  <2>2. reconnecting[t] = "no" /\ frame[t] \in Functions /\ frame[t] # "inc"
    BY <2>1, CallFacts
  <2>3. Moves(t) /\ seen' = seen
    BY <2>1, <2>2, StayMoves, ReturnMoves DEF threadVars
  <2>4. Reconnects(t)
    BY <2>1, <2>2, SameReconnects
    DEF Reconnects, mysql_drv_reconnect, threadVars
  <2> QED BY <2>1, <2>3, <2>4 DEF ControlInv
<1>7. CASE \/ CheckFails(t) \/ sb_lua_db_disconnect(t) \/ db_free_results(t)
           \/ db_prepare(t) \/ sb_lua_db_bind_param(t)
           \/ sb_lua_db_bind_result(t) \/ RebindFails(t) \/ db_close(t)
           \/ db_bulk_insert_init(t) \/ db_bulk_insert_next(t)
           \/ db_bulk_insert_done(t)
  <2>1. \E call : Calls(t, call)
    BY <1>7 DEF CheckFails, sb_lua_db_disconnect, db_free_results, db_prepare,
       sb_lua_db_bind_param, sb_lua_db_bind_result, RebindFails, db_close,
       db_bulk_insert_init, db_bulk_insert_next, db_bulk_insert_done, Uses
  <2>2. reconnecting[t] = "no" /\ frame[t] \in Functions /\ frame[t] # "inc"
    BY <2>1, CallFacts
  <2>3. /\ UNCHANGED <<cfg, nevents, granted, reconnecting>>
        /\ panic' = panic \/ panic' = cfg.dry_run
        /\ Return(t) \/ LuaError(t, "MESSAGE")
    <3>1. CASE CheckFails(t) \/ sb_lua_db_disconnect(t) \/ db_free_results(t)
      BY <3>1 DEF CheckFails, sb_lua_db_disconnect, db_free_results
    <3>2. CASE db_prepare(t)
      BY <3>2 DEF db_prepare
    <3>3. CASE \/ sb_lua_db_bind_param(t) \/ sb_lua_db_bind_result(t)
               \/ RebindFails(t) \/ db_close(t)
      BY <3>3 DEF sb_lua_db_bind_param, sb_lua_db_bind_result, RebindFails,
         db_close
    <3>4. CASE db_bulk_insert_init(t)
      BY <3>4 DEF db_bulk_insert_init
    <3>5. CASE db_bulk_insert_next(t)
      BY <3>5 DEF db_bulk_insert_next
    <3>6. CASE db_bulk_insert_done(t)
      BY <3>6 DEF db_bulk_insert_done
    <3> QED BY <1>7, <3>1, <3>2, <3>3, <3>4, <3>5, <3>6
  <2>4. Moves(t) /\ seen' = seen
    BY <2>2, <2>3, ReturnMoves, LuaErrorMoves
  <2>5. panic' \in BOOLEAN
    BY <2>3, ConfigFacts DEF ControlInv
  <2> QED BY <2>2, <2>3, <2>4, <2>5, SameReconnects
<1> QED
  BY <1>1, <1>2, <1>3, <1>4, <1>5, <1>6, <1>7 DEF ThreadStep

LEMMA ControlPreserved ==
  ASSUME ControlInv, NEW t \in Threads, ThreadStep(t)
  PROVE  ControlInv'
<1>1. CASE CheckEvents(t)
  <2>1. /\ UNCHANGED <<cfg, error, panic, ip, reconnecting>>
        /\ frame[t] = "get"
        /\ \E to \in {"done", "inc"} : frame' = [frame EXCEPT ![t] = to]
    BY <1>1 DEF CheckEvents
  <2> QED BY <2>1 DEF ControlInv, Frames, Functions
<1>2. CASE CountEvent(t)
  <2>1. /\ UNCHANGED <<cfg, error, panic, ip, reconnecting>>
        /\ frame[t] = "inc" /\ frame' = [frame EXCEPT ![t] = "event"]
    BY <1>2 DEF CountEvent
  <2> QED BY <2>1 DEF ControlInv, Frames, Functions
<1>3. CASE ~CheckEvents(t) /\ ~CountEvent(t)
  <2>1. /\ Moves(t) /\ Reconnects(t)
        /\ cfg' = cfg /\ panic' \in BOOLEAN
    BY <1>3, StepMoves
  <2>2. /\ error' \in BOOLEAN
        /\ ip' \in [Threads -> Nat]
        /\ frame' \in [Threads -> Frames]
        /\ \A u \in Threads \ {t} : frame'[u] = frame[u]
    BY <2>1 DEF Moves, ControlInv
  <2>3. reconnecting' \in [Threads -> {"no", "query", "store"}]
    BY <2>1 DEF Reconnects, ControlInv
  <2>4. ASSUME NEW u \in Threads, reconnecting'[u] # "no"
        PROVE  frame'[u] \in Functions
    BY <2>1, <2>2, <2>4 DEF Reconnects, ControlInv
  <2> QED BY <2>1, <2>2, <2>3, <2>4 DEF ControlInv
<1> QED BY <1>1, <1>2, <1>3

(* The constants the counting needs. *)
LEMMA ThreadsFacts ==
  IsFiniteSet(Threads) /\ Threads # {} /\ max_requests \in Nat \ {0}
BY SqlScriptAssumption

(* Those that have passed the test. *)
LEMMA IncFacts ==
  /\ Cardinality(At(Threads, frame, {"inc"})) \in Nat
  /\ Cardinality(At(Threads, frame', {"inc"})) \in Nat
  /\ Cardinality(At(Threads, frame', {"inc"})) <= Cardinality(Threads)
  /\ Cardinality(Threads) \in Nat /\ Cardinality(Threads) > 0
<1>1. Cardinality(Threads) # 0
  BY FS_EmptySet, ThreadsFacts
<1> QED BY <1>1, CountNat, ThreadsFacts

LEMMA FrameCount ==
  ASSUME NEW P, NEW t \in Threads,
         \A u \in Threads : u # t => frame'[u] = frame[u]
  PROVE  Cardinality(At(Threads, frame', P)) =
           Cardinality(At(Threads, frame, P))
             + (IF frame'[t] \in P THEN 1 ELSE 0)
             - (IF frame[t] \in P THEN 1 ELSE 0)
BY CountMoves, ThreadsFacts

LEMMA IncMoves ==
  ASSUME ControlInv, NEW t \in Threads, NEW to,
         frame' = [frame EXCEPT ![t] = to]
  PROVE  Cardinality(At(Threads, frame', {"inc"})) =
           Cardinality(At(Threads, frame, {"inc"}))
             + (IF to = "inc" THEN 1 ELSE 0)
             - (IF frame[t] = "inc" THEN 1 ELSE 0)
<1>1. /\ \A u \in Threads : u # t => frame'[u] = frame[u]
      /\ frame'[t] = to
  BY DEF ControlInv
<1>2. Cardinality(At(Threads, frame', {"inc"})) =
        Cardinality(At(Threads, frame, {"inc"}))
          + (IF frame'[t] \in {"inc"} THEN 1 ELSE 0)
          - (IF frame[t] \in {"inc"} THEN 1 ELSE 0)
  BY <1>1, FrameCount
<1> QED BY <1>1, <1>2

LEMMA EventsPreserved ==
  ASSUME ControlInv, EventsInv, NEW t \in Threads, ThreadStep(t)
  PROVE  EventsInv'
<1> DEFINE C == Cardinality(At(Threads, frame, {"inc"}))
           D == Cardinality(At(Threads, frame', {"inc"}))
           N == Cardinality(Threads)
<1>1. C \in Nat /\ D \in Nat /\ D <= N /\ N \in Nat /\ N > 0
  BY IncFacts
<1>2. /\ nevents \in Nat /\ granted \in Nat /\ seen \in [Threads -> Nat]
      /\ nevents <= granted /\ nevents + C <= max_requests + N - 1
      /\ \A u \in Threads : seen[u] <= granted
      /\ max_requests \in Nat
  BY ThreadsFacts DEF EventsInv
<1>3. CASE CheckEvents(t) /\ nevents >= max_requests
  <2>1. /\ UNCHANGED <<nevents, granted, seen, error>>
        /\ frame[t] = "get" /\ frame' = [frame EXCEPT ![t] = "done"]
    BY <1>3 DEF CheckEvents
  <2>2. D = C + 0 - 0
    <3>1. D = C + (IF "done" = "inc" THEN 1 ELSE 0)
                - (IF frame[t] = "inc" THEN 1 ELSE 0)
      BY <2>1, IncMoves
    <3> QED BY <1>1, <2>1, <3>1
  <2> HIDE DEF C, D, N
  <2>3. nevents' + D <= max_requests + N - 1
    BY <1>1, <1>2, <2>1, <2>2
  <2>4. granted >= max_requests
    BY <1>2, <1>3
  <2>5. ASSUME NEW u \in Threads
        PROVE  /\ frame'[u] = "inc" => seen[u] < max_requests
               /\ frame'[u] \in {"done", "ended"} =>
                    error \/ granted >= max_requests
    BY <2>1, <2>4 DEF EventsInv, ControlInv
  <2> QED BY <1>2, <2>1, <2>3, <2>5 DEF EventsInv, C, D, N, At
<1>4. CASE CheckEvents(t) /\ ~(nevents >= max_requests)
  <2>1. /\ UNCHANGED <<nevents, granted, error>>
        /\ seen' = [seen EXCEPT ![t] = nevents]
        /\ frame[t] = "get" /\ frame' = [frame EXCEPT ![t] = "inc"]
    BY <1>4 DEF CheckEvents
  <2> HIDE DEF C, D, N
  <2>2. nevents < max_requests
    BY <1>2, <1>4
  <2>3. nevents' + D <= max_requests + N - 1
    BY <1>1, <1>2, <2>1, <2>2
  <2>4. seen' \in [Threads -> Nat]
    BY <1>2, <2>1
  <2>5. ASSUME NEW u \in Threads
        PROVE  /\ seen'[u] <= granted
               /\ frame'[u] = "inc" => seen'[u] < max_requests
               /\ frame'[u] \in {"done", "ended"} =>
                    error \/ granted >= max_requests
    BY <1>2, <2>1, <2>2 DEF EventsInv, ControlInv
  <2> QED BY <1>2, <2>1, <2>3, <2>4, <2>5 DEF EventsInv, C, D, N, At
<1>5. CASE CountEvent(t)
  <2>1. /\ error' = error
        /\ nevents' \in {seen[t] + 1, nevents + 1} /\ granted' = granted + 1
        /\ seen' = [seen EXCEPT ![t] = 0]
        /\ frame[t] = "inc" /\ frame' = [frame EXCEPT ![t] = "event"]
    BY <1>5 DEF CountEvent
  <2>2. D = C + 0 - 1
    BY <2>1, IncMoves
  <2>3. seen[t] < max_requests /\ seen[t] \in Nat /\ seen[t] <= granted
    BY <2>1, <1>2 DEF EventsInv
  <2>4. C <= N
    BY CountNat, ThreadsFacts
  <2> HIDE DEF C, D, N
  <2>5. /\ nevents' \in Nat /\ nevents' <= granted'
        /\ nevents' + D <= max_requests + N - 1
    <3>1. CASE nevents' = nevents + 1
      BY <1>1, <1>2, <2>1, <2>2, <3>1
    <3>2. CASE nevents' = seen[t] + 1
      BY <1>1, <1>2, <2>1, <2>2, <2>3, <2>4, <3>2
    <3> QED BY <2>1, <3>1, <3>2
  <2>6. seen' \in [Threads -> Nat] /\ granted' \in Nat
    BY <1>2, <2>1
  <2>7. ASSUME NEW u \in Threads
        PROVE  /\ seen'[u] <= granted'
               /\ frame'[u] = "inc" => seen'[u] < max_requests
               /\ frame'[u] \in {"done", "ended"} =>
                    error \/ granted' >= max_requests
    <3>1. seen'[u] \in {seen[u], 0} /\ seen[u] \in Nat /\ seen[u] <= granted
      BY <1>2, <2>1
    <3>2. u # t => frame'[u] = frame[u] /\ seen'[u] = seen[u]
      BY <1>2, <2>1 DEF ControlInv
    <3>3. frame'[t] = "event"
      BY <2>1 DEF ControlInv
    <3>4. /\ frame[u] = "inc" => seen[u] < max_requests
          /\ frame[u] \in {"done", "ended"} => error \/ granted >= max_requests
      BY DEF EventsInv
    <3> QED BY <1>2, <2>1, <3>1, <3>2, <3>3, <3>4
  <2> QED BY <2>1, <2>5, <2>6, <2>7 DEF EventsInv, C, D, N, At
<1>6. CASE ~CheckEvents(t) /\ ~CountEvent(t)
  <2>1. Moves(t) /\ UNCHANGED <<nevents, granted, seen>>
    BY <1>6, StepMoves
  <2>2. PICK to \in Frames \ {"inc"} :
          /\ frame' = [frame EXCEPT ![t] = to]
          /\ to \in {"done", "ended"} => error' \/ frame[t] \in {"done", "ended"}
    BY <2>1 DEF Moves
  <2>3. frame[t] # "inc" /\ (error => error')
    BY <2>1 DEF Moves
  <2>4. D = C + 0 - 0
    BY <2>2, <2>3, IncMoves
  <2> HIDE DEF C, D, N
  <2>5. nevents' + D <= max_requests + N - 1
    BY <1>1, <1>2, <2>1, <2>4
  <2>6. ASSUME NEW u \in Threads
        PROVE  /\ frame'[u] = "inc" => seen[u] < max_requests
               /\ frame'[u] \in {"done", "ended"} =>
                    error' \/ granted >= max_requests
    <3>1. CASE u = t
      <4>1. frame'[t] = to
        BY <2>2 DEF ControlInv
      <4>2. frame[t] \in {"done", "ended"} => error \/ granted >= max_requests
        BY DEF EventsInv
      <4> QED BY <2>2, <2>3, <3>1, <4>1, <4>2
    <3>2. CASE u # t
      <4>1. frame'[u] = frame[u]
        BY <2>2, <3>2 DEF ControlInv
      <4>2. /\ frame[u] = "inc" => seen[u] < max_requests
            /\ frame[u] \in {"done", "ended"} => error \/ granted >= max_requests
        BY DEF EventsInv
      <4> QED BY <2>3, <4>1, <4>2
    <3> QED BY <3>1, <3>2
  <2> QED BY <1>2, <2>1, <2>5, <2>6 DEF EventsInv, C, D, N, At
<1> QED BY <1>3, <1>4, <1>5, <1>6
-----------------------------------------------------------------------------
Outcomes == {"nothing", "insert_fails", "inserted", "committed", "commit_fails"}

Buffers == [ptr : Nat, cnt : Nat, commit_cnt : Nat]

(* Room for the terminator at least, unless there are rows that do not fit *)
(* into an empty buffer.                                                   *)
Room(b) ==
  \/ b.ptr + 1 <= BULK_PACKET_SIZE
  \/ \E len \in cfg.row_lengths : bulk_ptr_orig + len + 1 > BULK_PACKET_SIZE

Kept == {"no", "insert_fails"}

LEMMA BulkFacts ==
  ASSUME BulkInv, NEW t \in Threads
  PROVE  /\ bulk[t] \in Buffers /\ Room(bulk[t])
         /\ inserted[t] \in Nat /\ committed[t] \in Nat /\ given[t] \in Nat
         /\ bulkFailed[t] \in Failures
         /\ bulkFailed[t] \in Kept =>
              bulk[t].cnt + inserted[t] + committed[t] = given[t]
BY DEF BulkInv, BulkTypes, BulkConservation, Buffers, Room, Kept

(* It is enough to look at the thread that moves. *)
LEMMA BulkOfOne ==
  ASSUME BulkInv, NEW t \in Threads, cfg' = cfg, NEW b \in Buffers, Room(b),
         NEW n \in Nat, NEW i \in Nat, NEW k \in Nat, NEW x \in Failures,
         bulk' = [bulk EXCEPT ![t] = b],
         given' = [given EXCEPT ![t] = n],
         inserted' = [inserted EXCEPT ![t] = i],
         committed' = [committed EXCEPT ![t] = k],
         bulkFailed' = [bulkFailed EXCEPT ![t] = x],
         x \in Kept => b.cnt + i + k = n
  PROVE  BulkInv'
<1>1. BulkTypes'
  BY DEF BulkInv, BulkTypes, Buffers
<1>2. ASSUME NEW u \in Threads
      PROVE  /\ bulkFailed'[u] \in Kept =>
                  bulk'[u].cnt + inserted'[u] + committed'[u] = given'[u]
             /\ Room(bulk'[u])
  <2>1. CASE u = t
    BY <2>1 DEF BulkInv, BulkTypes
  <2>2. CASE u # t
    BY <2>2, BulkFacts DEF BulkInv, BulkTypes
  <2> QED BY <2>1, <2>2
<1>3. BulkConservation'
  BY <1>2 DEF BulkConservation, Kept, Room
<1> QED BY <1>1, <1>3 DEF BulkInv

LEMMA EmptiedFacts ==
  ASSUME NEW t, NEW outcome
  PROVE  /\ outcome \in {"nothing", "insert_fails"} =>
              Emptied(t, outcome) = bulk[t]
         /\ outcome = "inserted" =>
              Emptied(t, outcome) =
                [ptr |-> bulk_ptr_orig, cnt |-> 0,
                 commit_cnt |-> IF bulk_commit_max # 0
                                THEN bulk[t].commit_cnt + bulk[t].cnt ELSE 0]
         /\ outcome = "committed" =>
              Emptied(t, outcome) =
                [ptr |-> bulk_ptr_orig, cnt |-> 0, commit_cnt |-> 0]
         /\ outcome = "commit_fails" =>
              Emptied(t, outcome) =
                [bulk[t] EXCEPT !.commit_cnt = @ + bulk[t].cnt]
BY Zenon DEF Emptied

(* Sending what is in the buffer. *)
LEMMA FlushFacts ==
  ASSUME ControlInv, BulkInv, NEW t \in Threads, NEW outcome \in Outcomes,
         db_bulk_do_insert(t, outcome)
  PROVE  /\ Emptied(t, outcome) \in Buffers
         /\ Emptied(t, outcome).ptr \in {bulk[t].ptr, bulk_ptr_orig}
         /\ outcome \in {"inserted", "committed"} =>
              Emptied(t, outcome).ptr = bulk_ptr_orig
                /\ Emptied(t, outcome).cnt = 0
         /\ \E i \in Nat, k \in Nat, x \in Failures :
              /\ inserted' = [inserted EXCEPT ![t] = i]
              /\ committed' = [committed EXCEPT ![t] = k]
              /\ bulkFailed' = [bulkFailed EXCEPT ![t] = x]
              /\ x \in Kept => /\ bulkFailed[t] \in Kept
                               /\ Emptied(t, outcome).cnt + i + k =
                                    bulk[t].cnt + inserted[t] + committed[t]
<1>1. /\ bulk[t] \in Buffers /\ bulk[t].ptr \in Nat /\ bulk[t].cnt \in Nat
      /\ bulk[t].commit_cnt \in Nat
      /\ inserted[t] \in Nat /\ committed[t] \in Nat
      /\ bulkFailed[t] \in Failures
  BY BulkFacts DEF Buffers
<1>2. bulk_commit_max \in Nat /\ bulk_ptr_orig = 1
  BY SqlScriptAssumption DEF bulk_commit_max, bulk_ptr_orig
<1>3. /\ inserted = [inserted EXCEPT ![t] = inserted[t]]
      /\ committed = [committed EXCEPT ![t] = committed[t]]
      /\ bulkFailed = [bulkFailed EXCEPT ![t] = bulkFailed[t]]
  BY DEF BulkInv, BulkTypes
<1>4. PICK x \in Failures :
        /\ bulkFailed' = [bulkFailed EXCEPT ![t] = x]
        /\ x \in Kept => bulkFailed[t] \in Kept /\ outcome # "commit_fails"
  <2>1. bulkFailed' =
          [bulkFailed EXCEPT ![t] =
             IF outcome = "commit_fails" THEN outcome
             ELSE IF outcome = "insert_fails" /\ bulkFailed[t] = "no"
                  THEN outcome ELSE bulkFailed[t]]
    BY DEF db_bulk_do_insert
  <2> QED BY <1>1, <2>1 DEF Failures, Kept
<1>5. CASE outcome \in {"nothing", "insert_fails"}
  <2>1. inserted' = inserted /\ committed' = committed
    BY <1>5 DEF db_bulk_do_insert
  <2>2. Emptied(t, outcome) = bulk[t]
    BY <1>5, EmptiedFacts
  <2> QED BY <1>1, <1>3, <1>4, <1>5, <2>1, <2>2
<1>6. CASE outcome = "inserted"
  <2>1. Emptied(t, outcome) =
          [ptr |-> 1, cnt |-> 0,
           commit_cnt |-> IF bulk_commit_max # 0
                          THEN bulk[t].commit_cnt + bulk[t].cnt ELSE 0]
    BY <1>2, <1>6, EmptiedFacts
  <2>2. \/ /\ inserted' = inserted
           /\ committed' = [committed EXCEPT ![t] = committed[t] + bulk[t].cnt]
        \/ /\ inserted' = [inserted EXCEPT ![t] = inserted[t] + bulk[t].cnt]
           /\ committed' = committed
    BY <1>6 DEF db_bulk_do_insert
  <2>3. Emptied(t, outcome) \in Buffers
    BY <1>1, <1>2, <2>1 DEF Buffers
  <2>4. /\ x \in Kept => bulkFailed[t] \in Kept
        /\ Emptied(t, outcome).ptr = 1 /\ Emptied(t, outcome).cnt = 0
    BY <1>4, <2>1
  <2>5. CASE /\ inserted' = inserted
             /\ committed' = [committed EXCEPT ![t] = committed[t] + bulk[t].cnt]
    <3> DEFINE k == committed[t] + bulk[t].cnt
    <3>1. k \in Nat /\ 0 + inserted[t] + k
                        = bulk[t].cnt + inserted[t] + committed[t]
      BY <1>1
    <3>2. /\ inserted' = [inserted EXCEPT ![t] = inserted[t]]
          /\ committed' = [committed EXCEPT ![t] = k]
      BY <1>3, <2>5
    <3> HIDE DEF k
    <3> QED BY <1>1, <1>2, <1>4, <2>3, <2>4, <3>1, <3>2
  <2>6. CASE /\ inserted' = [inserted EXCEPT ![t] = inserted[t] + bulk[t].cnt]
             /\ committed' = committed
    <3> DEFINE i == inserted[t] + bulk[t].cnt
    <3>1. i \in Nat /\ 0 + i + committed[t]
                        = bulk[t].cnt + inserted[t] + committed[t]
      BY <1>1
    <3>2. /\ inserted' = [inserted EXCEPT ![t] = i]
          /\ committed' = [committed EXCEPT ![t] = committed[t]]
      BY <1>3, <2>6
    <3> HIDE DEF i
    <3> QED BY <1>1, <1>2, <1>4, <2>3, <2>4, <3>1, <3>2
  <2> QED BY <2>2, <2>5, <2>6
<1>7. CASE outcome \in {"committed", "commit_fails"}
  <2>1. Emptied(t, outcome) \in Buffers
    BY <1>1, <1>2, <1>7, EmptiedFacts DEF Buffers
  <2>2. outcome = "committed" =>
          Emptied(t, outcome).ptr = 1 /\ Emptied(t, outcome).cnt = 0
    BY <1>2, EmptiedFacts
  <2>3. outcome = "commit_fails" => Emptied(t, outcome).ptr = bulk[t].ptr
    BY <1>1, EmptiedFacts DEF Buffers
  <2>4. \/ /\ inserted' = [inserted EXCEPT ![t] = 0]
           /\ committed' = [committed EXCEPT ![t] =
                              committed[t] + inserted[t] + bulk[t].cnt]
        \/ /\ outcome = "commit_fails"
           /\ inserted' = [inserted EXCEPT ![t] = 0]
           /\ committed' = committed
    BY <1>7 DEF db_bulk_do_insert
  <2>5. PICK i \in Nat, k \in Nat :
          /\ inserted' = [inserted EXCEPT ![t] = i]
          /\ committed' = [committed EXCEPT ![t] = k]
          /\ outcome # "commit_fails" =>
               0 + i + k = bulk[t].cnt + inserted[t] + committed[t]
    BY <1>1, <1>3, <2>4
  <2> QED BY <1>2, <1>4, <1>7, <2>1, <2>2, <2>3, <2>5
<1> QED BY <1>5, <1>6, <1>7 DEF Outcomes

LEMMA OutcomeFacts ==
  ASSUME NEW t, NEW is_last, NEW outcome \in FlushOutcomes(t, is_last)
  PROVE  outcome \in Outcomes
BY DEF FlushOutcomes, Outcomes

LEMMA BulkPreserved ==
  ASSUME ControlInv, BulkInv, NEW t \in Threads, ThreadStep(t)
  PROVE  BulkInv'
<1>0. cfg' = cfg
  BY StepMoves DEF CheckEvents, CountEvent
<1>1. ASSUME UNCHANGED bulkVars PROVE BulkInv'
  BY <1>0, <1>1 DEF BulkInv, BulkTypes, BulkConservation, bulkVars
<1>2. /\ bulk[t] \in Buffers /\ bulk[t].ptr \in Nat /\ bulk[t].cnt \in Nat
      /\ bulk[t].commit_cnt \in Nat
      /\ inserted[t] \in Nat /\ committed[t] \in Nat /\ given[t] \in Nat
      /\ bulkFailed[t] \in Failures /\ Room(bulk[t])
      /\ bulkFailed[t] \in Kept =>
           bulk[t].cnt + inserted[t] + committed[t] = given[t]
  BY BulkFacts DEF Buffers
<1>3. /\ inserted = [inserted EXCEPT ![t] = inserted[t]]
      /\ committed = [committed EXCEPT ![t] = committed[t]]
      /\ given = [given EXCEPT ![t] = given[t]]
      /\ bulkFailed = [bulkFailed EXCEPT ![t] = bulkFailed[t]]
  BY DEF BulkInv, BulkTypes
<1>4. bulk_ptr_orig = 1 /\ BULK_PACKET_SIZE \in Nat /\ 2 <= BULK_PACKET_SIZE
  BY SqlScriptAssumption DEF bulk_ptr_orig
<1>5. ASSUME NEW p \in {0, 1}, bulk' = [bulk EXCEPT ![t] = [NoBulk EXCEPT !.ptr = p]],
             DropRows(t), UNCHANGED <<given, inserted, committed>>
      PROVE  BulkInv'
  <2> DEFINE b == [ptr |-> p, cnt |-> 0, commit_cnt |-> 0]
  <2>1. [NoBulk EXCEPT !.ptr = p] = b
    BY DEF NoBulk
  <2>2. /\ bulk' = [bulk EXCEPT ![t] = b]
        /\ bulkFailed' = [bulkFailed EXCEPT ![t] =
                            IF bulk[t].cnt > 0 THEN "lost" ELSE bulkFailed[t]]
        /\ given' = given /\ inserted' = inserted /\ committed' = committed
    BY <1>5, <2>1 DEF DropRows
  <2>3. b.cnt = 0 /\ b.ptr = p /\ b \in Buffers
    BY DEF Buffers
  <2>4. Room(b)
    BY <1>4, <2>3 DEF Room
  <2> HIDE DEF b
  <2>5. /\ given' = [given EXCEPT ![t] = given[t]]
        /\ inserted' = [inserted EXCEPT ![t] = inserted[t]]
        /\ committed' = [committed EXCEPT ![t] = committed[t]]
    BY <1>3, <2>2
  <2>8. /\ bulk' = [bulk EXCEPT ![t] = b]
        /\ given[t] \in Nat /\ inserted[t] \in Nat /\ committed[t] \in Nat
        /\ bulkFailed[t] \in Failures
    BY <1>2, <2>2
  <2>6. CASE bulk[t].cnt > 0
    <3>1. bulkFailed' = [bulkFailed EXCEPT ![t] = "lost"]
      BY <2>2, <2>6
    <3>2. "lost" \in Failures /\ "lost" \notin Kept
      BY DEF Failures, Kept
    <3> QED BY <1>0, <2>3, <2>4, <2>5, <2>8, <3>1, <3>2, BulkOfOne
  <2>7. CASE ~(bulk[t].cnt > 0)
    <3>1. bulkFailed' = [bulkFailed EXCEPT ![t] = bulkFailed[t]]
      BY <2>2, <2>7
    <3>2. bulkFailed[t] \in Kept => b.cnt + inserted[t] + committed[t] = given[t]
      BY <1>2, <2>3, <2>7
    <3> QED BY <1>0, <2>3, <2>4, <2>5, <2>8, <3>1, <3>2, BulkOfOne
  <2> QED BY <2>6, <2>7
<1>6. CASE sb_lua_db_disconnect(t)
  <2>1. /\ bulk' = [bulk EXCEPT ![t] = NoBulk]
        /\ DropRows(t) /\ UNCHANGED <<given, inserted, committed>>
    BY <1>6 DEF sb_lua_db_disconnect
  <2>2. NoBulk = [NoBulk EXCEPT !.ptr = 0]
    BY DEF NoBulk
  <2> QED BY <1>5, <2>1, <2>2
<1>7. CASE db_bulk_insert_init(t)
  BY <1>1, <1>4, <1>5, <1>7 DEF db_bulk_insert_init, bulkVars
<1>8. CASE db_bulk_insert_next(t)
  <2>1. PICK len \in cfg.row_lengths, filled \in BOOLEAN,
             outcome \in Outcomes, failed \in BOOLEAN :
          /\ ~filled => /\ bulk[t].ptr + len + 1 + (IF bulk[t].cnt > 0 THEN 1 ELSE 0)
                           <= BULK_PACKET_SIZE
                      /\ outcome = "nothing"
          /\ failed <=> (outcome \in {"insert_fails", "commit_fails"}
                           \/ (filled /\ outcome = "nothing"))
          /\ db_bulk_do_insert(t, outcome)
          /\ bulk' = [bulk EXCEPT ![t] =
                        IF failed THEN Emptied(t, outcome)
                        ELSE [Emptied(t, outcome) EXCEPT
                                !.ptr = @ + len + (IF Emptied(t, outcome).cnt > 0
                                                   THEN 1 ELSE 0),
                                !.cnt = @ + 1]]
          /\ given' = [given EXCEPT ![t] = @ + (IF failed THEN 0 ELSE 1)]
    <3> DEFINE Full(len) ==
          \/ bulk[t].ptr = 0
          \/ bulk[t].ptr + len + 1 + (IF bulk[t].cnt > 0 THEN 1 ELSE 0)
               > BULK_PACKET_SIZE
    <3>1. PICK len \in cfg.row_lengths :
            \E outcome \in IF Full(len) THEN FlushOutcomes(t, FALSE) ELSE {"nothing"} :
              LET b == Emptied(t, outcome)
                  failed == outcome \in {"insert_fails", "commit_fails"}
                              \/ (Full(len) /\ outcome = "nothing")
              IN
              /\ db_bulk_do_insert(t, outcome)
              /\ bulk' = [bulk EXCEPT ![t] =
                            IF failed THEN b
                            ELSE [b EXCEPT !.ptr = @ + len + (IF b.cnt > 0 THEN 1 ELSE 0),
                                           !.cnt = @ + 1]]
              /\ given' = [given EXCEPT ![t] = @ + (IF failed THEN 0 ELSE 1)]
      BY <1>8 DEF db_bulk_insert_next
    <3>2. len \in Nat
      BY ConfigFacts
    <3>3. ~Full(len) => bulk[t].ptr + len + 1 + (IF bulk[t].cnt > 0 THEN 1 ELSE 0)
                          <= BULK_PACKET_SIZE
      BY <1>2, <1>4, <3>2
    <3> HIDE DEF Full
    <3>4. PICK outcome \in IF Full(len) THEN FlushOutcomes(t, FALSE) ELSE {"nothing"} :
              /\ db_bulk_do_insert(t, outcome)
              /\ bulk' = [bulk EXCEPT ![t] =
                            IF outcome \in {"insert_fails", "commit_fails"}
                                 \/ (Full(len) /\ outcome = "nothing")
                            THEN Emptied(t, outcome)
                            ELSE [Emptied(t, outcome) EXCEPT
                                    !.ptr = @ + len + (IF Emptied(t, outcome).cnt > 0
                                                       THEN 1 ELSE 0),
                                    !.cnt = @ + 1]]
              /\ given' = [given EXCEPT ![t] =
                             @ + (IF outcome \in {"insert_fails", "commit_fails"}
                                       \/ (Full(len) /\ outcome = "nothing")
                                  THEN 0 ELSE 1)]
      BY <3>1
    <3>5. outcome \in Outcomes
      BY <3>4, OutcomeFacts DEF Outcomes
    <3>6. PICK filled \in BOOLEAN : filled <=> Full(len)
      OBVIOUS
    <3>7. PICK failed \in BOOLEAN :
            failed <=> (outcome \in {"insert_fails", "commit_fails"}
                          \/ (filled /\ outcome = "nothing"))
      OBVIOUS
    <3>8. ~filled => outcome = "nothing"
      BY <3>4, <3>6
    <3>9. /\ bulk' = [bulk EXCEPT ![t] =
                        IF failed THEN Emptied(t, outcome)
                        ELSE [Emptied(t, outcome) EXCEPT
                                !.ptr = @ + len + (IF Emptied(t, outcome).cnt > 0
                                                   THEN 1 ELSE 0),
                                !.cnt = @ + 1]]
          /\ given' = [given EXCEPT ![t] = @ + (IF failed THEN 0 ELSE 1)]
      BY <3>4, <3>6, <3>7
    <3> QED BY <3>3, <3>4, <3>5, <3>6, <3>7, <3>8, <3>9
  <2>2. len \in Nat
    BY ConfigFacts
  <2> DEFINE e == Emptied(t, outcome)
  <2>3. /\ e \in Buffers /\ e.ptr \in {bulk[t].ptr, 1}
        /\ outcome \in {"inserted", "committed"} => e.ptr = 1 /\ e.cnt = 0
    BY <1>4, <2>1, FlushFacts
  <2>4. PICK i \in Nat, k \in Nat, x \in Failures :
          /\ inserted' = [inserted EXCEPT ![t] = i]
          /\ committed' = [committed EXCEPT ![t] = k]
          /\ bulkFailed' = [bulkFailed EXCEPT ![t] = x]
          /\ x \in Kept => /\ bulkFailed[t] \in Kept
                           /\ e.cnt + i + k =
                                bulk[t].cnt + inserted[t] + committed[t]
    BY <2>1, FlushFacts
  <2>5. outcome = "nothing" => e = bulk[t]
    BY EmptiedFacts
  <2> HIDE DEF e
  <2>6. e.ptr \in Nat /\ e.cnt \in Nat /\ e.commit_cnt \in Nat
    BY <2>3 DEF Buffers
  <2>7. Room(e)
    BY <1>2, <1>4, <2>3 DEF Room
  <2>8. CASE failed
    <3>1. /\ bulk' = [bulk EXCEPT ![t] = e]
          /\ given' = [given EXCEPT ![t] = given[t] + 0]
      BY <2>1, <2>8 DEF e
    <3>3. given[t] + 0 = given[t]
      BY <1>2
    <3>2. x \in Kept => e.cnt + i + k = given[t]
      BY <1>2, <2>4
    <3> QED BY <1>0, <1>2, <2>3, <2>4, <2>7, <3>1, <3>2, <3>3, BulkOfOne
  <2>9. CASE ~failed
    <3> DEFINE p == e.ptr + len + (IF e.cnt > 0 THEN 1 ELSE 0)
               b == [e EXCEPT !.ptr = @ + len + (IF e.cnt > 0 THEN 1 ELSE 0),
                              !.cnt = @ + 1]
               n == given[t] + 1
    <3>1. p \in Nat /\ n \in Nat
      BY <1>2, <2>2, <2>6
    <3>2. b \in Buffers /\ b.ptr = p /\ b.cnt = e.cnt + 1
      <4>1. e.cnt + 1 \in Nat
        BY <2>6
      <4>2. b = [e EXCEPT !.ptr = p, !.cnt = e.cnt + 1]
        BY <2>3 DEF Buffers
      <4>3. b.ptr = p /\ b.cnt = e.cnt + 1
        BY <2>3, <4>2 DEF Buffers
      <4> HIDE DEF b, p
      <4>4. b \in Buffers
        BY <2>3, <3>1, <4>1, <4>2, Zenon DEF Buffers
      <4> QED BY <4>3, <4>4
    <3>3. /\ bulk' = [bulk EXCEPT ![t] = b]
          /\ given' = [given EXCEPT ![t] = n]
      BY <2>1, <2>9 DEF e
    <3> HIDE DEF b
    <3>4. Room(b)
      <4>1. CASE ~filled
        BY <1>2, <1>4, <2>1, <2>2, <2>5, <2>6, <3>2, <4>1 DEF Room
      <4>2. CASE filled
        <5>1. e.ptr = 1 /\ e.cnt = 0
          BY <2>1, <2>3, <2>9, <4>2 DEF Outcomes
        <5> QED BY <1>4, <2>2, <3>2, <5>1 DEF Room
      <4> QED BY <4>1, <4>2
    <3>5. x \in Kept => b.cnt + i + k = n
      BY <1>2, <2>4, <2>6, <3>2
    <3> HIDE DEF p, n
    <3> QED BY <1>0, <2>4, <3>1, <3>2, <3>3, <3>4, <3>5, BulkOfOne
  <2> QED BY <2>8, <2>9
<1>9. CASE db_bulk_insert_done(t)
  <2>1. PICK outcome \in Outcomes :
          /\ db_bulk_do_insert(t, outcome)
          /\ bulk' = [bulk EXCEPT ![t] = Emptied(t, outcome)]
          /\ given' = given
    BY <1>9, OutcomeFacts DEF db_bulk_insert_done
  <2> DEFINE e == Emptied(t, outcome)
  <2>2. e \in Buffers /\ e.ptr \in {bulk[t].ptr, 1}
    BY <1>4, <2>1, FlushFacts
  <2>3. PICK i \in Nat, k \in Nat, x \in Failures :
          /\ inserted' = [inserted EXCEPT ![t] = i]
          /\ committed' = [committed EXCEPT ![t] = k]
          /\ bulkFailed' = [bulkFailed EXCEPT ![t] = x]
          /\ x \in Kept => /\ bulkFailed[t] \in Kept
                           /\ e.cnt + i + k =
                                bulk[t].cnt + inserted[t] + committed[t]
    BY <2>1, FlushFacts
  <2>4. bulk' = [bulk EXCEPT ![t] = e]
    BY <2>1
  <2> HIDE DEF e
  <2>5. Room(e)
    BY <1>2, <1>4, <2>2 DEF Room
  <2>6. x \in Kept => e.cnt + i + k = given[t]
    BY <1>2, <2>3
  <2> QED BY <1>0, <1>2, <1>3, <2>1, <2>2, <2>3, <2>4, <2>5, <2>6, BulkOfOne
<1>10. CASE \/ CheckEvents(t) \/ CountEvent(t) \/ FunctionEnds(t)
            \/ CheckFails(t) \/ sb_lua_db_connect(t) \/ Reconnect(t)
            \/ db_store_results(t) \/ db_free_results(t) \/ db_prepare(t)
  BY <1>1, <1>10 DEF CheckEvents, CountEvent, FunctionEnds, CheckFails,
     sb_lua_db_connect, Reconnect, db_store_results, db_free_results, db_prepare
<1>11. CASE \/ sb_lua_db_bind_param(t) \/ sb_lua_db_bind_result(t)
            \/ RebindFails(t) \/ sb_lua_db_execute(t) \/ db_close(t)
            \/ \E query \in Queries : db_query(t, query)
  BY <1>1, <1>11 DEF sb_lua_db_bind_param, sb_lua_db_bind_result, RebindFails,
     sb_lua_db_execute, db_close, db_query
<1> QED
  BY <1>6, <1>7, <1>8, <1>9, <1>10, <1>11 DEF ThreadStep
-----------------------------------------------------------------------------
(* Nothing happens after a panic. *)
LEMMA NoPanic ==
  ASSUME NEW t \in Threads, ThreadStep(t)
  PROVE  ~panic
<1>1. CASE \/ \E call : Calls(t, call)
           \/ sb_lua_db_connect(t) \/ FunctionEnds(t) \/ CheckEvents(t)
           \/ CountEvent(t) \/ Reconnect(t)
  BY <1>1, CallFacts DEF sb_lua_db_connect, FunctionEnds, CheckEvents,
     CountEvent, Reconnect
<1>2. CASE \/ CheckFails(t) \/ sb_lua_db_disconnect(t)
           \/ \E query \in Queries : db_query(t, query)
           \/ db_store_results(t) \/ db_free_results(t) \/ db_prepare(t)
  BY <1>1, <1>2 DEF CheckFails, sb_lua_db_disconnect, db_query,
     db_store_results, db_free_results, db_prepare, Uses
<1>3. CASE \/ sb_lua_db_bind_param(t) \/ sb_lua_db_bind_result(t)
           \/ RebindFails(t) \/ sb_lua_db_execute(t) \/ db_close(t)
  BY <1>1, <1>3 DEF sb_lua_db_bind_param, sb_lua_db_bind_result, RebindFails,
     sb_lua_db_execute, db_close, Uses
<1>4. CASE \/ db_bulk_insert_init(t) \/ db_bulk_insert_next(t)
           \/ db_bulk_insert_done(t)
  BY <1>1, <1>4 DEF db_bulk_insert_init, db_bulk_insert_next,
     db_bulk_insert_done, Uses
<1> QED BY <1>1, <1>2, <1>3, <1>4 DEF ThreadStep

(* What can become of a statement. *)
Fits(s) ==
  /\ s \in {"none", "server", "emulated", "detached"}
  /\ s = "detached" => cfg.driver = "mysql"
  /\ cfg.driver \in {"pgsql", "oracle"} =>
       s \in (IF cfg.ps THEN {"none", "server"} ELSE {"none", "emulated"})

SentAsBound(s) ==
  cfg.param = "int" /\ ~(cfg.driver \in {"pgsql", "oracle"} /\ cfg.ps)
    => s \subseteq {"value"}

LEMMA StmtFacts ==
  ASSUME StmtInv, NEW t \in Threads
  PROVE  /\ Fits(stmt[t]) /\ lead[t] \in Int
         /\ cfg.dry_run /\ ~panic => stmt[t] = "none"
         /\ ~(cfg.driver = "oracle" /\ ~cfg.ps) => lead[t] = 0
         /\ SentAsBound(sent)
BY DEF StmtInv, StmtTypes, Fits, SentAsBound, CountedPerformed

(* Again it is enough to look at the thread that moves. *)
LEMMA StmtOfOne ==
  ASSUME StmtInv, ~panic, NEW t \in Threads, cfg' = cfg, NEW s, Fits(s),
         cfg.dry_run => s = "none" \/ panic', NEW n \in Int,
         ~(cfg.driver = "oracle" /\ ~cfg.ps) => n = 0,
         stmt' = [stmt EXCEPT ![t] = s],
         lead' = [lead EXCEPT ![t] = n],
         SentAsBound(sent')
  PROVE  StmtInv'
<1>1. stmt' \in [Threads -> {"none", "server", "emulated", "detached"}]
  BY DEF StmtInv, StmtTypes, Fits
<1>2. lead' \in [Threads -> Int]
  BY DEF StmtInv, StmtTypes
<1>3. ASSUME NEW u \in Threads
      PROVE  /\ Fits(stmt'[u])
             /\ cfg.dry_run => stmt'[u] = "none" \/ panic'
             /\ ~(cfg.driver = "oracle" /\ ~cfg.ps) => lead'[u] = 0
  <2>1. CASE u = t
    BY <2>1 DEF StmtInv, StmtTypes
  <2>2. CASE u # t
    <3>1. stmt'[u] = stmt[u] /\ lead'[u] = lead[u]
      BY <2>2 DEF StmtInv, StmtTypes
    <3> QED BY <3>1, StmtFacts
  <2> QED BY <2>1, <2>2
<1>4. \A u \in Threads :
        /\ stmt'[u] = "detached" => cfg.driver = "mysql"
        /\ cfg.driver \in {"pgsql", "oracle"} =>
             stmt'[u] \in (IF cfg.ps THEN {"none", "server"} ELSE {"none", "emulated"})
        /\ cfg.dry_run /\ ~panic' => stmt'[u] = "none"
  BY <1>3 DEF Fits
<1>5. CountedPerformed'
  BY <1>3 DEF CountedPerformed, SentAsBound
<1> QED BY <1>1, <1>2, <1>4, <1>5 DEF StmtInv, StmtTypes

LEMMA StmtSame ==
  ASSUME StmtInv, ~panic, NEW t \in Threads, cfg' = cfg,
         UNCHANGED <<stmt, lead, sent>>
  PROVE  StmtInv'
<1>1. /\ Fits(stmt[t]) /\ lead[t] \in Int
      /\ cfg.dry_run => stmt[t] = "none"
      /\ ~(cfg.driver = "oracle" /\ ~cfg.ps) => lead[t] = 0
      /\ SentAsBound(sent')
  BY StmtFacts
<1>2. /\ stmt' = [stmt EXCEPT ![t] = stmt[t]]
      /\ lead' = [lead EXCEPT ![t] = lead[t]]
  BY DEF StmtInv, StmtTypes
<1> QED BY <1>1, <1>2, StmtOfOne

LEMMA ReconnectFits ==
  ASSUME StmtInv, ~panic, NEW t \in Threads, cfg.driver = "mysql",
         NEW kind, mysql_drv_reconnect(t, kind)
  PROVE  \E s : /\ Fits(s) /\ (cfg.dry_run => s = "none")
                /\ stmt' = [stmt EXCEPT ![t] = s]
<1>1. stmt' = [stmt EXCEPT ![t] = IF stmt[t] = "server" THEN "detached" ELSE stmt[t]]
  BY DEF mysql_drv_reconnect
<1>2. Fits(stmt[t]) /\ (cfg.dry_run => stmt[t] = "none")
  BY StmtFacts
<1>3. CASE stmt[t] = "server"
  <2>1. Fits("detached")
    BY DEF Fits
  <2>2. stmt' = [stmt EXCEPT ![t] = "detached"] /\ ~cfg.dry_run
    BY <1>1, <1>2, <1>3
  <2> QED BY <2>1, <2>2
<1>4. CASE stmt[t] # "server"
  <2>1. stmt' = [stmt EXCEPT ![t] = stmt[t]]
    BY <1>1, <1>4
  <2> QED BY <1>2, <2>1
<1> QED BY <1>3, <1>4

LEMMA FinishStmt ==
  ASSUME StmtInv, ~panic, NEW t \in Threads, cfg' = cfg,
         NEW a, NEW e, NEW r, NEW b, Finish(t, a, e, r, b),
         e = "RECONNECT" => cfg.driver = "mysql",
         ~(cfg.driver = "oracle" /\ ~cfg.ps) => (e = "NONE" <=> a = "ok"),
         SentAsBound(sent')
  PROVE  StmtInv'
<1>1. PICK n \in Int :
        /\ lead' = [lead EXCEPT ![t] = n]
        /\ ~(cfg.driver = "oracle" /\ ~cfg.ps) => n = 0
  <2> DEFINE n == lead[t] + (IF e = "NONE" THEN 1 ELSE 0)
                          - (IF a = "ok" THEN 1 ELSE 0)
  <2>1. lead[t] \in Int
    BY StmtFacts
  <2>2. n \in Int
    BY <2>1
  <2>3. ~(cfg.driver = "oracle" /\ ~cfg.ps) => n = 0
    BY StmtFacts
  <2>4. lead' = [lead EXCEPT ![t] = n]
    BY DEF Finish
  <2> HIDE DEF n
  <2> QED BY <2>2, <2>3, <2>4
<1>2. PICK s : /\ Fits(s) /\ (cfg.dry_run => s = "none")
               /\ stmt' = [stmt EXCEPT ![t] = s]
  <2>1. CASE e = "RECONNECT"
    BY <2>1, ReconnectFits DEF Finish
  <2>2. CASE e # "RECONNECT"
    <3>1. stmt' = stmt
      BY <2>2 DEF Finish
    <3>2. stmt' = [stmt EXCEPT ![t] = stmt[t]]
      BY <3>1 DEF StmtInv, StmtTypes
    <3> QED BY <3>2, StmtFacts
  <2> QED BY <2>1, <2>2
<1> QED BY <1>1, <1>2, StmtOfOne

LEMMA StmtPreserved ==
  ASSUME ControlInv, StmtInv, NEW t \in Threads, ThreadStep(t)
  PROVE  StmtInv'
<1>0. cfg' = cfg
  BY StepMoves DEF CheckEvents, CountEvent
<1>1. ~panic
  BY NoPanic
<1>2. cfg.driver \in Drivers /\ (cfg.dry_run => cfg.driver = "mysql")
      /\ cfg.ps \in BOOLEAN
  BY ConfigFacts
<1>3. /\ Fits(stmt[t]) /\ lead[t] \in Int /\ SentAsBound(sent)
      /\ cfg.dry_run => stmt[t] = "none"
      /\ ~(cfg.driver = "oracle" /\ ~cfg.ps) => lead[t] = 0
  BY <1>1, StmtFacts
<1>4. lead = [lead EXCEPT ![t] = lead[t]]
  BY DEF StmtInv, StmtTypes
<1>5. ASSUME UNCHANGED <<stmt, lead, sent>> PROVE StmtInv'
  BY <1>0, <1>1, <1>5, StmtSame
<1>6. CASE \E query \in Queries : db_query(t, query)
  <2>1. PICK query \in Queries, a \in Answers :
          /\ cfg.dry_run => a = "ok"
          /\ Finish(t, a, DriverQuery(cfg, a),
                    IF query = "select" THEN ResultOf(cfg, "none") ELSE "none",
                    FALSE)
          /\ sent' = sent
    BY <1>6 DEF db_query
  <2>2. /\ DriverQuery(cfg, a) = "NONE" <=> a = "ok"
        /\ DriverQuery(cfg, a) = "RECONNECT" => cfg.driver = "mysql"
    BY <1>2, <2>1, QueryFacts
  <2>3. SentAsBound(sent')
    BY <1>3, <2>1
  <2> QED BY <1>0, <1>1, <2>1, <2>2, <2>3, FinishStmt
<1>7. CASE sb_lua_db_execute(t)
  <2>1. PICK a \in Answers, v \in ValueSent(cfg, stmt[t]) :
          /\ stmt[t] # "none"
          /\ stmt[t] = "detached" => a = "fail"
          /\ Finish(t, a, DriverExecute(cfg, stmt[t], a),
                    ResultOf(cfg, stmt[t]), TRUE)
          /\ sent' = sent \/ sent' = sent \cup {v}
    BY <1>7 DEF sb_lua_db_execute, Uses, Usable, OfStatement
  <2>2. ~cfg.dry_run /\ (stmt[t] = "detached" => cfg.driver = "mysql")
    BY <1>3, <2>1 DEF Fits
  <2>3. /\ ~(cfg.driver = "oracle" /\ stmt[t] = "emulated") =>
             (DriverExecute(cfg, stmt[t], a) = "NONE" <=> a = "ok")
        /\ DriverExecute(cfg, stmt[t], a) = "RECONNECT" => cfg.driver = "mysql"
    BY <1>2, <2>1, <2>2, ExecuteFacts
  <2>4. cfg.driver = "oracle" /\ cfg.ps => stmt[t] # "emulated"
    BY <1>3 DEF Fits
  <2>5. SentAsBound(sent')
    <3>1. SUFFICES ASSUME cfg.param = "int",
                          ~(cfg.driver \in {"pgsql", "oracle"} /\ cfg.ps)
                   PROVE  sent' \subseteq {"value"}
      BY DEF SentAsBound
    <3>2. sent \subseteq {"value"}
      BY <1>3, <3>1 DEF SentAsBound
    <3>3. cfg.driver \in {"pgsql", "oracle"} => stmt[t] = "emulated"
      BY <1>3, <2>1, <3>1 DEF Fits
    <3>4. v = "value"
      BY <1>2, <3>1, <3>3, ValueFacts
    <3> QED BY <2>1, <3>2, <3>4
  <2> QED BY <1>0, <1>1, <2>1, <2>3, <2>4, <2>5, FinishStmt
<1>8. CASE db_store_results(t)
  <2>1. lead' = lead /\ sent' = sent
    BY <1>8 DEF db_store_results, statVars
  <2>2. CASE stmt' = stmt
    BY <1>5, <2>1, <2>2
  <2>3. CASE stmt' # stmt
    <3>1. cfg.driver = "mysql" /\ mysql_drv_reconnect(t, "store")
      BY <1>8, <2>3 DEF db_store_results
    <3>2. PICK s : /\ Fits(s) /\ (cfg.dry_run => s = "none")
                   /\ stmt' = [stmt EXCEPT ![t] = s]
      BY <1>1, <3>1, ReconnectFits
    <3>3. lead' = [lead EXCEPT ![t] = lead[t]] /\ SentAsBound(sent')
      BY <1>3, <1>4, <2>1
    <3> QED BY <1>0, <1>1, <1>3, <3>2, <3>3, StmtOfOne
  <2> QED BY <2>2, <2>3
<1>9. CASE db_prepare(t)
  <2>1. PICK s \in DriverPrepare(cfg) :
          stmt' = [stmt EXCEPT ![t] = s]
    BY <1>9 DEF db_prepare
  <2>2. panic' = cfg.dry_run /\ lead' = lead /\ sent' = sent
    BY <1>9 DEF db_prepare, statVars
  <2>3. Fits(s)
    BY <1>2, PrepareFacts DEF Fits
  <2>4. lead' = [lead EXCEPT ![t] = lead[t]] /\ SentAsBound(sent')
    BY <1>3, <1>4, <2>2
  <2>5. cfg.dry_run => s = "none" \/ panic'
    BY <2>2
  <2> QED BY <1>0, <1>1, <1>3, <2>1, <2>3, <2>4, <2>5, StmtOfOne
<1>10. CASE db_close(t)
  <2>1. stmt' = [stmt EXCEPT ![t] = "none"] /\ lead' = lead /\ sent' = sent
    BY <1>10 DEF db_close, statVars
  <2>2. Fits("none")
    BY DEF Fits
  <2>3. lead' = [lead EXCEPT ![t] = lead[t]] /\ SentAsBound(sent')
    BY <1>3, <1>4, <2>1
  <2> QED BY <1>0, <1>1, <1>3, <2>1, <2>2, <2>3, StmtOfOne
<1>11. CASE \/ CheckEvents(t) \/ CountEvent(t) \/ FunctionEnds(t)
            \/ CheckFails(t) \/ sb_lua_db_connect(t) \/ Reconnect(t)
            \/ sb_lua_db_disconnect(t) \/ db_free_results(t)
  BY <1>5, <1>11 DEF CheckEvents, CountEvent, FunctionEnds, CheckFails,
     sb_lua_db_connect, Reconnect, sb_lua_db_disconnect, db_free_results,
     statVars, conVars
<1>12. CASE \/ sb_lua_db_bind_param(t) \/ sb_lua_db_bind_result(t)
            \/ RebindFails(t) \/ db_bulk_insert_init(t)
  BY <1>5, <1>12 DEF sb_lua_db_bind_param, sb_lua_db_bind_result, RebindFails,
     db_bulk_insert_init, statVars, conVars
<1>13. CASE db_bulk_insert_next(t)
  BY <1>5, <1>13 DEF db_bulk_insert_next, db_bulk_do_insert, statVars, conVars
<1>14. CASE db_bulk_insert_done(t)
  BY <1>5, <1>14 DEF db_bulk_insert_done, db_bulk_do_insert, statVars, conVars
<1> QED
  BY <1>6, <1>7, <1>8, <1>9, <1>10, <1>11, <1>12, <1>13, <1>14 DEF ThreadStep

-----------------------------------------------------------------------------
(* Only its own step changes what a thread is at. *)
LEMMA Others ==
  ASSUME ControlInv, StmtInv, NEW t \in Threads, ThreadStep(t)
  PROVE  \A u \in Threads \ {t} :
           /\ frame'[u] = frame[u] /\ ip'[u] = ip[u]
           /\ reconnecting'[u] = reconnecting[u] /\ stmt'[u] = stmt[u]
<1>1. \A u \in Threads \ {t} :
        /\ frame'[u] = frame[u] /\ ip'[u] = ip[u]
        /\ reconnecting'[u] = reconnecting[u]
  <2>1. CASE CheckEvents(t) \/ CountEvent(t)
    BY <2>1 DEF CheckEvents, CountEvent, ControlInv
  <2>2. CASE ~CheckEvents(t) /\ ~CountEvent(t)
    BY <2>2, StepMoves DEF Moves, Reconnects, ControlInv
  <2> QED BY <2>1, <2>2
<1>2. stmt' = stmt \/ \E s : stmt' = [stmt EXCEPT ![t] = s]
  <2>1. CASE \/ CheckEvents(t) \/ CountEvent(t) \/ FunctionEnds(t)
             \/ CheckFails(t) \/ sb_lua_db_connect(t) \/ Reconnect(t)
             \/ sb_lua_db_disconnect(t) \/ db_free_results(t)
    BY <2>1 DEF CheckEvents, CountEvent, FunctionEnds, CheckFails,
       sb_lua_db_connect, Reconnect, sb_lua_db_disconnect, db_free_results,
       conVars
  <2>2. CASE \/ sb_lua_db_bind_param(t) \/ sb_lua_db_bind_result(t)
             \/ RebindFails(t) \/ db_bulk_insert_init(t)
             \/ db_bulk_insert_next(t) \/ db_bulk_insert_done(t)
    BY <2>2 DEF sb_lua_db_bind_param, sb_lua_db_bind_result, RebindFails,
       db_bulk_insert_init, db_bulk_insert_next, db_bulk_insert_done, conVars
  <2>3. CASE \/ \E query \in Queries : db_query(t, query)
             \/ sb_lua_db_execute(t) \/ db_store_results(t)
    BY <2>3 DEF db_query, sb_lua_db_execute, db_store_results, Finish,
       mysql_drv_reconnect
  <2>4. CASE db_prepare(t) \/ db_close(t)
    BY <2>4 DEF db_prepare, db_close
  <2> QED BY <2>1, <2>2, <2>3, <2>4 DEF ThreadStep
<1> QED BY <1>1, <1>2 DEF StmtInv, StmtTypes

Cons == {"no", "yes", "lost"}

(* The step of a thread that has no unread result after it. *)
LEMMA SyncQuiet ==
  ASSUME ControlInv, StmtInv, SyncInv, NEW t \in Threads, ThreadStep(t),
         NEW c \in Cons, NEW r \in {"none", "stored"},
         con' = [con EXCEPT ![t] = c],
         rs' = [rs EXCEPT ![t] = r],
         \A u \in Threads \ {t} : rstmt'[u] = rstmt[u],
         rstmt' \in [Threads -> BOOLEAN],
         outOfSync' = outOfSync
  PROVE  SyncInv'
<1>0. cfg' = cfg
  BY StepMoves DEF CheckEvents, CountEvent
<1>1. con' \in [Threads -> Cons]
  BY DEF SyncInv, Cons
<1>2. rs' \in [Threads -> {"none", "open", "stored"}]
  BY DEF SyncInv
<1>3. ASSUME NEW u \in Threads, rs'[u] = "open"
      PROVE  Reading(u)'
  <2>1. u # t
    BY <1>3 DEF SyncInv
  <2>2. rs[u] = "open" /\ con'[u] = con[u] /\ rstmt'[u] = rstmt[u]
    BY <1>3, <2>1 DEF SyncInv
  <2>3. /\ frame'[u] = frame[u] /\ ip'[u] = ip[u]
        /\ reconnecting'[u] = reconnecting[u] /\ stmt'[u] = stmt[u]
    BY <2>1, Others
  <2>4. Reading(u)
    BY <2>2 DEF SyncInv
  <2> QED BY <1>0, <2>2, <2>3, <2>4 DEF Reading, Program
<1>4. InSync'
  BY DEF SyncInv, InSync
<1> QED BY <1>1, <1>2, <1>3, <1>4 DEF SyncInv, Cons

(* With an unread result there is nothing else to do than to read it. *)
LEMMA OnlyStores ==
  ASSUME ControlInv, NEW t \in Threads, Reading(t), ThreadStep(t)
  PROVE  db_store_results(t)
<1>1. /\ con[t] # "no" /\ reconnecting[t] = "no" /\ frame[t] \in Functions
      /\ ip[t] \in DOMAIN Program(t) /\ Program(t)[ip[t]] = "store"
  BY DEF Reading
<1>2. ASSUME NEW call, Calls(t, call) PROVE call = "store"
  BY <1>1, <1>2, CallFacts
<1>3. ~FunctionEnds(t)
  <2>1. Program(t) \in Seq(ScriptCalls)
    BY <1>1, ConfigFacts DEF Program
  <2>2. DOMAIN Program(t) = 1 .. Len(Program(t)) /\ Len(Program(t)) \in Nat
    BY <2>1
  <2> QED BY <1>1, <2>2 DEF FunctionEnds
<1>4. /\ ~sb_lua_db_connect(t) /\ ~CheckEvents(t) /\ ~CountEvent(t)
      /\ ~Reconnect(t)
  BY <1>1 DEF sb_lua_db_connect, CheckEvents, CountEvent, Reconnect, Functions
<1>5. ~CheckFails(t)
  BY <1>1, <1>2 DEF CheckFails, Usable, OfStatement
<1>6. ~sb_lua_db_disconnect(t) /\ ~db_free_results(t) /\ ~db_prepare(t)
  BY <1>2 DEF sb_lua_db_disconnect, db_free_results, db_prepare, Uses
<1>7. /\ ~sb_lua_db_bind_param(t) /\ ~sb_lua_db_bind_result(t)
      /\ ~RebindFails(t) /\ ~sb_lua_db_execute(t) /\ ~db_close(t)
  BY <1>2 DEF sb_lua_db_bind_param, sb_lua_db_bind_result, RebindFails,
     sb_lua_db_execute, db_close, Uses
<1>8. /\ ~db_bulk_insert_init(t) /\ ~db_bulk_insert_next(t)
      /\ ~db_bulk_insert_done(t)
  BY <1>2 DEF db_bulk_insert_init, db_bulk_insert_next, db_bulk_insert_done,
     Uses
<1>9. ASSUME NEW query \in Queries PROVE ~db_query(t, query)
  BY <1>2 DEF db_query, Queries
<1> QED
  BY <1>3, <1>4, <1>5, <1>6, <1>7, <1>8, <1>9 DEF ThreadStep

(* A query or an execution with no unread result. *)
LEMMA FinishSync ==
  ASSUME ResultsRead, ControlInv, StmtInv, SyncInv, NEW t \in Threads,
         ThreadStep(t), rs[t] # "open",
         NEW call, Calls(t, call), con[t] # "no",
         NEW a \in Answers, NEW e, NEW r \in {"none", "open", "stored"},
         NEW b \in BOOLEAN, Finish(t, a, e, r, b),
         a = "ok" => e = "NONE",
         r = "open" => /\ call \in {"select", "execute"}
                       /\ cfg.driver # "pgsql"
                       /\ cfg.driver = "oracle" => b /\ stmt[t] = "server"
  PROVE  SyncInv'
<1>0. cfg' = cfg
  BY StepMoves DEF CheckEvents, CountEvent
<1>1. outOfSync' = outOfSync
  <2>1. outOfSync' = (outOfSync \/ (a = "ok" /\ rs[t] = "open"))
    BY DEF Finish
  <2>2. outOfSync = FALSE
    BY DEF SyncInv, InSync
  <2> QED BY <2>1, <2>2
<1>2. PICK c \in Cons :
        /\ con' = [con EXCEPT ![t] = c]
        /\ c # "no"
  BY DEF Finish, AfterAnswer, SyncInv, Cons
<1>3. /\ \A u \in Threads \ {t} : rstmt'[u] = rstmt[u]
      /\ rstmt' \in [Threads -> BOOLEAN] /\ rstmt'[t] = b
  BY DEF Finish, SyncInv
<1>4. CASE a = "ok" /\ r = "open"
  <2>1. /\ rs' = [rs EXCEPT ![t] = "open"] /\ Return(t)
        /\ reconnecting' = reconnecting /\ stmt' = stmt
    BY <1>4 DEF Finish
  <2>2. rs' \in [Threads -> {"none", "open", "stored"}]
    BY <2>1 DEF SyncInv
  <2>3. con' \in [Threads -> Cons]
    BY <1>2 DEF SyncInv, Cons
  <2>4. Reading(t)'
    <3>1. /\ reconnecting[t] = "no" /\ frame[t] \in Functions
          /\ ip[t] \in DOMAIN Program(t) /\ Program(t)[ip[t]] = call
      BY CallFacts
    <3>2. /\ frame' = frame /\ ip'[t] = ip[t] + 1
      BY <2>1 DEF Return, ControlInv
    <3>3. /\ ip[t] + 1 \in DOMAIN Program(t)
          /\ Program(t)[ip[t] + 1] = "store"
      BY <1>4, <3>1 DEF ResultsRead, Program, Functions, ControlInv
    <3>4. con'[t] # "no"
      BY <1>2 DEF SyncInv
    <3> QED BY <1>0, <1>3, <1>4, <2>1, <3>1, <3>2, <3>3, <3>4
            DEF Reading, Program
  <2>5. ASSUME NEW u \in Threads, u # t, rs'[u] = "open"
        PROVE  Reading(u)'
    <3>1. rs[u] = "open" /\ con'[u] = con[u] /\ rstmt'[u] = rstmt[u]
      BY <1>2, <1>3, <2>1, <2>5 DEF SyncInv
    <3>2. /\ frame'[u] = frame[u] /\ ip'[u] = ip[u]
          /\ reconnecting'[u] = reconnecting[u] /\ stmt'[u] = stmt[u]
      BY <2>5, Others
    <3>3. Reading(u)
      BY <3>1 DEF SyncInv
    <3> QED BY <1>0, <3>1, <3>2, <3>3 DEF Reading, Program
  <2>6. InSync'
    BY <1>1 DEF SyncInv, InSync
  <2> QED BY <1>3, <2>2, <2>3, <2>4, <2>5, <2>6 DEF SyncInv, Cons
<1>5. CASE ~(a = "ok" /\ r = "open")
  <2>1. PICK q \in {"none", "stored"} : rs' = [rs EXCEPT ![t] = q]
    BY <1>5 DEF Finish, mysql_drv_reconnect
  <2> QED BY <1>1, <1>2, <1>3, <2>1, SyncQuiet
<1> QED BY <1>4, <1>5

LEMMA SyncPreserved ==
  ASSUME ResultsRead, ControlInv, StmtInv, SyncInv,
         NEW t \in Threads, ThreadStep(t)
  PROVE  SyncInv'
<1>1. cfg.driver \in Drivers /\ (cfg.dry_run => cfg.driver = "mysql")
  BY ConfigFacts
<1>2. /\ con[t] \in Cons /\ rs[t] \in {"none", "open", "stored"}
      /\ con = [con EXCEPT ![t] = con[t]]
      /\ rs = [rs EXCEPT ![t] = rs[t]]
      /\ rstmt \in [Threads -> BOOLEAN]
  BY DEF SyncInv, Cons
<1>3. CASE db_store_results(t)
  <2>1. /\ rstmt' = rstmt /\ outOfSync' = outOfSync
        /\ \E a \in {"ok", "lost"} :
             /\ con' = [con EXCEPT ![t] = AfterAnswer(con[t], a)]
             /\ \/ rs' = [rs EXCEPT ![t] = "none"]
                \/ rs' = [rs EXCEPT ![t] = DriverStore(cfg, StmtOfResult(t), rs[t])]
    BY <1>3 DEF db_store_results, mysql_drv_reconnect, statVars
  <2>2. PICK c \in Cons : con' = [con EXCEPT ![t] = c]
    BY <1>2, <2>1 DEF AfterAnswer, Cons
  <2>3. rs[t] = "open" => /\ cfg.driver # "pgsql"
                          /\ cfg.driver = "oracle" => StmtOfResult(t) = "server"
    BY DEF SyncInv, Reading, StmtOfResult
  <2>4. DriverStore(cfg, StmtOfResult(t), rs[t]) \in {"none", "stored"}
    BY <1>1, <1>2, <2>3, StoreFacts
  <2>5. PICK q \in {"none", "stored"} : rs' = [rs EXCEPT ![t] = q]
    BY <2>1, <2>4
  <2> QED BY <1>2, <2>1, <2>2, <2>5, SyncQuiet
<1>4. CASE ~db_store_results(t)
  <2>1. rs[t] \in {"none", "stored"}
    BY <1>2, <1>4, OnlyStores DEF SyncInv
  <2>2. ASSUME UNCHANGED <<rs, rstmt, outOfSync>>,
               NEW c \in Cons, con' = [con EXCEPT ![t] = c]
        PROVE  SyncInv'
    BY <1>2, <2>1, <2>2, SyncQuiet
  <2>3. ASSUME UNCHANGED <<con, rs, rstmt, outOfSync>>
        PROVE  SyncInv'
    BY <1>2, <2>2, <2>3
  <2>4. CASE \E query \in Queries : db_query(t, query)
    <3>1. PICK query \in Queries, a \in Answers :
            /\ Calls(t, query) /\ con[t] # "no"
            /\ cfg.dry_run => a = "ok"
            /\ Finish(t, a, DriverQuery(cfg, a),
                      IF query = "select" THEN ResultOf(cfg, "none") ELSE "none",
                      FALSE)
      BY <2>4 DEF db_query
    <3>2. a = "ok" => DriverQuery(cfg, a) = "NONE"
      BY <1>1, <3>1, QueryFacts
    <3> DEFINE r == IF query = "select" THEN ResultOf(cfg, "none") ELSE "none"
    <3>3. r \in {"none", "open", "stored"}
      BY <1>1, ResultFacts
    <3>4. r = "open" => /\ query \in {"select", "execute"}
                        /\ cfg.driver # "pgsql"
                        /\ cfg.driver # "oracle"
      BY <1>1, ResultFacts
    <3>5. Finish(t, a, DriverQuery(cfg, a), r, FALSE)
      BY <3>1
    <3> HIDE DEF r
    <3> QED BY <2>1, <3>1, <3>2, <3>3, <3>4, <3>5, FinishSync
  <2>5. CASE sb_lua_db_execute(t)
    <3>1. PICK a \in Answers :
            /\ Calls(t, "execute") /\ con[t] # "no" /\ stmt[t] # "none"
            /\ stmt[t] = "detached" => a = "fail"
            /\ Finish(t, a, DriverExecute(cfg, stmt[t], a),
                      ResultOf(cfg, stmt[t]), TRUE)
      BY <2>5 DEF sb_lua_db_execute, Uses, Usable, OfStatement
    <3>2. ~cfg.dry_run /\ (stmt[t] = "detached" => cfg.driver = "mysql")
      BY <3>1, NoPanic, StmtFacts DEF Fits
    <3>3. a = "ok" => DriverExecute(cfg, stmt[t], a) = "NONE"
      BY <1>1, <3>1, <3>2, ExecuteFacts
    <3>4. /\ ResultOf(cfg, stmt[t]) \in {"none", "open", "stored"}
          /\ ResultOf(cfg, stmt[t]) = "open" =>
               cfg.driver # "pgsql" /\ (cfg.driver = "oracle" => stmt[t] = "server")
      BY <1>1, ResultFacts
    <3> QED BY <2>1, <3>1, <3>3, <3>4, FinishSync
  <2>6. CASE db_free_results(t)
    <3>1. /\ UNCHANGED <<con, rstmt, outOfSync>>
          /\ rs' = [rs EXCEPT ![t] = DriverFree(cfg, StmtOfResult(t), rs[t])]
      BY <2>6 DEF db_free_results, statVars
    <3>2. DriverFree(cfg, StmtOfResult(t), rs[t]) \in {"none", "stored"}
      BY <1>1, <2>1, FreeFacts
    <3> QED BY <1>2, <3>1, <3>2, SyncQuiet
  <2>7. CASE sb_lua_db_disconnect(t)
    <3>1. /\ con' = [con EXCEPT ![t] = "no"] /\ rs' = [rs EXCEPT ![t] = "none"]
          /\ UNCHANGED <<rstmt, outOfSync>>
      BY <2>7 DEF sb_lua_db_disconnect, statVars
    <3> QED BY <1>2, <3>1, SyncQuiet DEF Cons
  <2>8. CASE sb_lua_db_connect(t) \/ Reconnect(t)
    <3>1. /\ con' = con \/ con' = [con EXCEPT ![t] = "yes"]
          /\ UNCHANGED <<rs, rstmt, outOfSync>>
      BY <2>8 DEF sb_lua_db_connect, Reconnect, statVars
    <3>2. "yes" \in Cons
      BY DEF Cons
    <3> QED BY <2>2, <2>3, <3>1, <3>2
  <2>9. CASE \/ CheckEvents(t) \/ CountEvent(t) \/ FunctionEnds(t)
             \/ CheckFails(t) \/ db_prepare(t) \/ db_close(t)
    BY <2>3, <2>9 DEF CheckEvents, CountEvent, FunctionEnds, CheckFails,
       db_prepare, db_close, statVars, conVars
  <2>10. CASE \/ sb_lua_db_bind_param(t) \/ sb_lua_db_bind_result(t)
              \/ RebindFails(t) \/ db_bulk_insert_init(t)
    BY <2>3, <2>10 DEF sb_lua_db_bind_param, sb_lua_db_bind_result,
       RebindFails, db_bulk_insert_init, statVars, conVars
  <2>11. CASE db_bulk_insert_next(t)
    BY <2>3, <2>11 DEF db_bulk_insert_next, db_bulk_do_insert, statVars, conVars
  <2>12. CASE db_bulk_insert_done(t)
    BY <2>3, <2>12 DEF db_bulk_insert_done, db_bulk_do_insert, statVars, conVars
  <2> QED
    BY <1>4, <2>4, <2>5, <2>6, <2>7, <2>8, <2>9, <2>10, <2>11, <2>12
    DEF ThreadStep
<1> QED BY <1>3, <1>4
-----------------------------------------------------------------------------
LEMMA InitIInv == Init => IInv
<1> SUFFICES ASSUME Init PROVE IInv
  OBVIOUS
<1>1. frame \in [Threads -> {"init", "get"}]
  BY DEF Init
<1>2. ControlInv
  BY <1>1 DEF Init, ControlInv, Frames
<1>3. EventsInv
  <2>1. Cardinality(At(Threads, frame, {"inc"})) = 0
    BY <1>1, CountZero, ThreadsFacts
  <2>2. /\ nevents = 0 /\ granted = 0
        /\ seen = [u \in Threads |-> 0]
    BY DEF Init
  <2>3. nevents + Cardinality(At(Threads, frame, {"inc"}))
          <= max_requests + Cardinality(Threads) - 1
    BY <2>1, <2>2, IncFacts, ThreadsFacts
  <2>4. \A u \in Threads : frame[u] \notin {"inc", "done", "ended"}
    BY <1>1
  <2> QED BY <2>2, <2>3, <2>4 DEF EventsInv
<1>4. BulkInv
  <2>1. \A u \in Threads : bulk[u] = [ptr |-> 0, cnt |-> 0, commit_cnt |-> 0]
    BY DEF Init, NoBulk
  <2>2. BulkTypes
    BY DEF Init, NoBulk, BulkTypes, Failures
  <2>3. BULK_PACKET_SIZE \in Nat /\ 2 <= BULK_PACKET_SIZE
    BY SqlScriptAssumption DEF bulk_ptr_orig
  <2>4. ASSUME NEW u \in Threads
        PROVE  /\ bulk[u].cnt = 0 /\ bulk[u].ptr = 0
               /\ inserted[u] = 0 /\ committed[u] = 0 /\ given[u] = 0
    BY <2>1 DEF Init
  <2>5. BulkConservation
    BY <2>3, <2>4 DEF BulkConservation
  <2> QED BY <2>2, <2>5 DEF BulkInv
<1>5. StmtInv
  BY DEF Init, StmtInv, StmtTypes, CountedPerformed
<1> QED BY <1>2, <1>3, <1>4, <1>5 DEF IInv

LEMMA NextIInv == IInv /\ [Next]_vars => IInv'
<1> SUFFICES ASSUME IInv, [Next]_vars PROVE IInv'
  OBVIOUS
<1>1. ControlInv /\ EventsInv /\ BulkInv /\ StmtInv
  BY DEF IInv
<1>2. CASE \E t \in Threads : ThreadStep(t)
  <2>1. PICK t \in Threads : ThreadStep(t)
    BY <1>2
  <2>2. ControlInv' /\ EventsInv' /\ BulkInv' /\ StmtInv'
    BY <1>1, <2>1, ControlPreserved, EventsPreserved, BulkPreserved,
       StmtPreserved
  <2> QED BY <2>2 DEF IInv
<1>3. CASE UNCHANGED vars
  <2>1. ControlInv'
    BY <1>1, <1>3 DEF vars, threadVars, ControlInv
  <2>2. EventsInv'
    BY <1>1, <1>3 DEF vars, threadVars, EventsInv, At
  <2>3. BulkInv'
    BY <1>1, <1>3
    DEF vars, bulkVars, BulkInv, BulkTypes, BulkConservation
  <2>4. StmtInv'
    BY <1>1, <1>3
    DEF vars, conVars, statVars, StmtInv, StmtTypes, CountedPerformed
  <2> QED BY <2>1, <2>2, <2>3, <2>4 DEF IInv
<1> QED BY <1>2, <1>3 DEF Next, Terminated

(* The invariant holds in every run: any scripts, drivers, options, number *)
(* of threads and of bad answers.                                          *)
THEOREM Invariance == Spec => []IInv
<1>1. IInv /\ [Next]_vars => IInv'
  BY NextIInv
<1> QED BY InitIInv, <1>1, PTL DEF Spec

(* sb_lua_get_request counts without a lock, and increments get lost: it   *)
(* never counts more events than were handed out, a test that ends without *)
(* an error has executed max_requests of them or more, and the counter     *)
(* passes the limit by at most one for each other thread.                  *)
THEOREM EventsBounded == Spec => []EventsGranted
<1>1. IInv => EventsGranted
  <2> SUFFICES ASSUME IInv PROVE EventsGranted
    OBVIOUS
  <2>1. EventsInv
    BY DEF IInv
  <2>2. ASSUME AllEnded, ~error PROVE granted >= max_requests
    <3>1. PICK t \in Threads : TRUE
      BY ThreadsFacts
    <3> QED BY <2>1, <2>2, <3>1 DEF EventsInv, AllEnded
  <2>3. nevents <= max_requests + Cardinality(Threads) - 1
    BY <2>1, IncFacts, ThreadsFacts DEF EventsInv
  <2> QED BY <2>1, <2>2, <2>3 DEF EventsGranted, EventsInv
<1> QED BY <1>1, Invariance, PTL

(* No row of a bulk insert is lost or doubled through packets, batches and *)
(* failures other than those of a COMMIT or a disconnect, and there is     *)
(* room for the terminator unless a row is longer than the buffer.         *)
THEOREM RowsConserved == Spec => []BulkConservation
<1>1. IInv => BulkConservation
  BY DEF IInv, BulkInv
<1> QED BY <1>1, Invariance, PTL

(* What db_query and db_execute count as performed has been performed,     *)
(* with the values that were bound - but for the exceptions the property   *)
(* names.                                                                  *)
THEOREM CountsPerformed == Spec => []CountedPerformed
<1>1. IInv => CountedPerformed
  BY DEF IInv, StmtInv
<1> QED BY <1>1, Invariance, PTL

(* If every query and execution of the scripts is followed by the storing  *)
(* of its results - as sb_lua_db_query does -, no query is ever sent while *)
(* a result is unread: neither errors nor restarts nor reconnects come in  *)
(* between.                                                                *)
THEOREM ResultsInSync ==
  ASSUME ResultsRead
  PROVE  Spec => []InSync
<1>1. Init => SyncInv
  BY DEF Init, SyncInv, InSync
<1>2. IInv /\ SyncInv /\ [Next]_vars => SyncInv'
  <2> SUFFICES ASSUME IInv, SyncInv, [Next]_vars PROVE SyncInv'
    OBVIOUS
  <2>1. CASE \E t \in Threads : ThreadStep(t)
    BY <2>1, SyncPreserved DEF IInv
  <2>2. CASE UNCHANGED vars
    BY <2>2 DEF vars, threadVars, conVars, statVars, SyncInv, InSync, Reading,
       Program
  <2> QED BY <2>1, <2>2 DEF Next, Terminated
<1>3. SyncInv => InSync
  BY DEF SyncInv
<1> QED BY <1>1, <1>2, <1>3, Invariance, PTL DEF Spec
-----------------------------------------------------------------------------
(* The garbage collector of the interpreter that runs these scripts:       *)
(* finalizers run once (FinalizersRunOnce, at the end of this part). What  *)
(* a function of lgc.c or lfunc.c does to the heap is a lemma named for    *)
(* the function; those that only mark leave alone what HeapInv, the        *)
(* invariant, speaks of.                                                   *)

(* Lists *)

IsList(s) == s \in Seq(Range(s))

(* A sequence over any set is a list: a sequence of its own elements. *)
LEMMA ListOf ==
  ASSUME NEW T, NEW s \in Seq(T)
  PROVE  /\ IsList(s) /\ Range(s) \subseteq T
         /\ Len(s) \in Nat /\ DOMAIN s = 1 .. Len(s)
         /\ \A k \in 1 .. Len(s) : s[k] \in Range(s)
<1>1. Len(s) \in Nat /\ DOMAIN s = 1 .. Len(s) /\ \A k \in 1 .. Len(s) : s[k] \in T
  OBVIOUS
<1>2. s = [k \in 1 .. Len(s) |-> s[k]]
  OBVIOUS
<1>3. \A k \in 1 .. Len(s) : s[k] \in Range(s)
  BY <1>1 DEF Range
<1>4. s \in [1 .. Len(s) -> Range(s)]
  BY <1>2, <1>3
<1> QED BY <1>1, <1>3, <1>4 DEF IsList, Range

(* The length of a list, its domain, and that it holds what it numbers. *)
LEMMA ListFacts ==
  ASSUME NEW s, IsList(s)
  PROVE  /\ Len(s) \in Nat /\ DOMAIN s = 1 .. Len(s)
         /\ \A k \in 1 .. Len(s) : s[k] \in Range(s)
BY ListOf DEF IsList

(* The empty list. *)
LEMMA EmptyFacts == IsList(<<>>) /\ Range(<<>>) = {} /\ IsInjective(<<>>)
BY DEF IsList, Range, IsInjective

(* Two lists in a row: the length, the elements, and when none is there    *)
(* twice.                                                                  *)
LEMMA ConcatFacts ==
  ASSUME NEW s, IsList(s), NEW t, IsList(t)
  PROVE  /\ IsList(s \o t) /\ Len(s \o t) = Len(s) + Len(t)
         /\ Range(s \o t) = Range(s) \cup Range(t)
         /\ IsInjective(s) /\ IsInjective(t) /\ Range(s) \cap Range(t) = {}
              => IsInjective(s \o t)
<1> DEFINE T == Range(s) \cup Range(t)
           c == s \o t
<1>1. s \in Seq(T) /\ t \in Seq(T)
  BY DEF IsList
<1> HIDE DEF T
<1>2. /\ c \in Seq(T) /\ Len(c) = Len(s) + Len(t) /\ Len(s) \in Nat /\ Len(t) \in Nat
      /\ \A k \in 1 .. Len(s) + Len(t) :
           c[k] = IF k <= Len(s) THEN s[k] ELSE t[k - Len(s)]
  BY <1>1
<1> HIDE DEF c
<1>3. /\ DOMAIN c = 1 .. Len(s) + Len(t)
      /\ DOMAIN s = 1 .. Len(s) /\ DOMAIN t = 1 .. Len(t)
      /\ IsList(c)
  BY <1>1, <1>2, ListOf
<1>4. Range(c) = Range(s) \cup Range(t)
  <2>1. ASSUME NEW k \in 1 .. Len(s) + Len(t) PROVE c[k] \in Range(s) \cup Range(t)
    <3>1. CASE k <= Len(s)
      BY <1>2, <1>3, <3>1 DEF Range
    <3>2. CASE ~(k <= Len(s))
      <4>1. k - Len(s) \in 1 .. Len(t)
        BY <1>2, <3>2
      <4> QED BY <1>2, <1>3, <3>2, <4>1 DEF Range
    <3> QED BY <3>1, <3>2
  <2>2. ASSUME NEW k \in 1 .. Len(s) PROVE s[k] \in Range(c)
    <3>1. k \in 1 .. Len(s) + Len(t) /\ k <= Len(s)
      BY <1>2
    <3> QED BY <1>2, <1>3, <3>1 DEF Range
  <2>3. ASSUME NEW k \in 1 .. Len(t) PROVE t[k] \in Range(c)
    <3>1. k + Len(s) \in 1 .. Len(s) + Len(t) /\ ~(k + Len(s) <= Len(s))
            /\ (k + Len(s)) - Len(s) = k
      BY <1>2
    <3> QED BY <1>2, <1>3, <3>1 DEF Range
  <2> QED BY <1>3, <2>1, <2>2, <2>3 DEF Range
<1>5. ASSUME IsInjective(s), IsInjective(t), Range(s) \cap Range(t) = {},
             NEW j \in 1 .. Len(s) + Len(t), NEW k \in 1 .. Len(s) + Len(t),
               c[j] = c[k]
      PROVE  j = k
  <2>1. \A m \in 1 .. Len(s) : s[m] \in Range(s)
    BY <1>3 DEF Range
  <2>2. \A m \in 1 .. Len(t) : t[m] \in Range(t)
    BY <1>3 DEF Range
  <2>3. CASE j <= Len(s) /\ k <= Len(s)
    BY <1>2, <1>3, <1>5, <2>3 DEF IsInjective
  <2>4. CASE ~(j <= Len(s)) /\ ~(k <= Len(s))
    <3>1. j - Len(s) \in 1 .. Len(t) /\ k - Len(s) \in 1 .. Len(t)
      BY <1>2, <2>4
    <3>2. t[j - Len(s)] = t[k - Len(s)]
      BY <1>2, <1>5, <2>4
    <3>3. j - Len(s) = k - Len(s)
      BY <1>3, <1>5, <3>1, <3>2 DEF IsInjective
    <3> QED BY <1>2, <3>3
  <2>5. CASE j <= Len(s) /\ ~(k <= Len(s))
    <3>1. k - Len(s) \in 1 .. Len(t)
      BY <1>2, <2>5
    <3> QED BY <1>2, <1>5, <2>1, <2>2, <2>5, <3>1
  <2>6. CASE ~(j <= Len(s)) /\ k <= Len(s)
    <3>1. j - Len(s) \in 1 .. Len(t)
      BY <1>2, <2>6
    <3> QED BY <1>2, <1>5, <2>1, <2>2, <2>6, <3>1
  <2> QED BY <2>3, <2>4, <2>5, <2>6
<1>6. IsInjective(s) /\ IsInjective(t) /\ Range(s) \cap Range(t) = {}
        => IsInjective(c)
  BY <1>3, <1>5 DEF IsInjective
<1> QED BY <1>2, <1>3, <1>4, <1>6 DEF c

(* The list of one element. *)
LEMMA OneFacts ==
  ASSUME NEW x
  PROVE  IsList(<<x>>) /\ Range(<<x>>) = {x} /\ IsInjective(<<x>>) /\ Len(<<x>>) = 1
<1>1. <<x>> \in Seq({x})
  OBVIOUS
<1>2. Len(<<x>>) = 1 /\ <<x>>[1] = x
  OBVIOUS
<1>3. PICK o : o = <<x>>
  OBVIOUS
<1>4. o \in Seq({x}) /\ Len(o) = 1 /\ o[1] = x
  BY <1>1, <1>2, <1>3, Zenon
<1>6. IsList(o) /\ DOMAIN o = 1 .. Len(o)
  BY <1>4, ListOf, Zenon
<1>7. DOMAIN o = {1}
  BY <1>4, <1>6
<1>5. Range(o) = {x} /\ IsInjective(o)
  BY <1>4, <1>7 DEF Range, IsInjective
<1> QED BY <1>3, <1>4, <1>5, <1>6, Zenon

(* An element in front of a list that does not hold it. *)
LEMMA ConsFacts ==
  ASSUME NEW s, IsList(s), NEW x
  PROVE  /\ IsList(<<x>> \o s)
         /\ Range(<<x>> \o s) = {x} \cup Range(s)
         /\ IsInjective(s) /\ x \notin Range(s) => IsInjective(<<x>> \o s)
BY OneFacts, ConcatFacts

(* The rest of a list, without repetitions if the list has none. *)
LEMMA TailFacts ==
  ASSUME NEW s, IsList(s), s # <<>>
  PROVE  /\ IsList(Tail(s)) /\ Len(Tail(s)) = Len(s) - 1
         /\ Head(s) \in Range(s)
         /\ Range(s) = {Head(s)} \cup Range(Tail(s))
         /\ IsInjective(s) => IsInjective(Tail(s)) /\ Head(s) \notin Range(Tail(s))
<1> DEFINE r == Tail(s)
<1>1. /\ Len(s) \in Nat \ {0} /\ DOMAIN s = 1 .. Len(s)
  BY ListFacts DEF IsList
<1>2. r \in Seq(Range(s)) /\ Len(r) = Len(s) - 1 /\ \A k \in 1 .. Len(s) - 1 :
        r[k] = s[k + 1]
  BY <1>1 DEF IsList
<1>3. Head(s) = s[1]
  OBVIOUS
<1> HIDE DEF r
<1>4. IsList(r) /\ DOMAIN r = 1 .. Len(s) - 1
  BY <1>2, ListOf
<1>5. Range(s) = {s[1]} \cup Range(r)
  <2>1. ASSUME NEW k \in 1 .. Len(s) PROVE s[k] \in {s[1]} \cup Range(r)
    <3>1. CASE k = 1
      BY <3>1
    <3>2. CASE k # 1
      <4>1. k - 1 \in 1 .. Len(s) - 1 /\ (k - 1) + 1 = k
        BY <1>1, <3>2
      <4> QED BY <1>2, <1>4, <4>1 DEF Range
    <3> QED BY <3>1, <3>2
  <2>2. ASSUME NEW k \in 1 .. Len(s) - 1 PROVE r[k] \in Range(s)
    <3>1. k + 1 \in 1 .. Len(s)
      BY <1>1
    <3> QED BY <1>1, <1>2, <3>1 DEF Range
  <2> QED BY <1>1, <1>4, <2>1, <2>2 DEF Range
<1>6. ASSUME IsInjective(s) PROVE IsInjective(r) /\ s[1] \notin Range(r)
  <2>1. ASSUME NEW j \in 1 .. Len(s) - 1, NEW k \in 1 .. Len(s) - 1, r[j] = r[k]
          PROVE j = k
    <3>1. j + 1 \in 1 .. Len(s) /\ k + 1 \in 1 .. Len(s) /\ s[j + 1] = s[k + 1]
      BY <1>1, <1>2, <2>1
    <3>2. j + 1 = k + 1
      BY <1>1, <1>6, <3>1 DEF IsInjective
    <3> QED BY <3>2
  <2>2. ASSUME NEW k \in 1 .. Len(s) - 1 PROVE r[k] # s[1]
    <3>1. k + 1 \in 1 .. Len(s) /\ 1 \in 1 .. Len(s) /\ k + 1 # 1
      BY <1>1
    <3> QED BY <1>1, <1>2, <1>6, <3>1 DEF IsInjective
  <2> QED BY <1>4, <2>1, <2>2 DEF IsInjective, Range
<1> QED BY <1>1, <1>2, <1>3, <1>4, <1>5, <1>6 DEF r, Range
(* A part of a list. *)
LEMMA PartFacts ==
  ASSUME NEW s, IsList(s), NEW a \in Nat \ {0}, NEW b \in Nat, a <= b + 1, b <= Len(s)
  PROVE  /\ IsList(SubSeq(s, a, b)) /\ Len(SubSeq(s, a, b)) = b + 1 - a
         /\ Range(SubSeq(s, a, b)) = {s[k] : k \in a .. b}
         /\ Range(SubSeq(s, a, b)) \subseteq Range(s)
         /\ IsInjective(s) => IsInjective(SubSeq(s, a, b))
<1>1. Len(s) \in Nat /\ DOMAIN s = 1 .. Len(s) /\ s \in Seq(Range(s))
  BY ListFacts DEF IsList
<1>2. PICK r : r = SubSeq(s, a, b)
  OBVIOUS
<1>3. /\ r \in Seq(Range(s)) /\ Len(r) = b + 1 - a
      /\ \A k \in 1 .. b + 1 - a : r[k] = s[a + k - 1]
  BY <1>1, <1>2
<1>4. IsList(r) /\ DOMAIN r = 1 .. b + 1 - a
  BY <1>3, ListOf
<1>5. Range(r) = {s[k] : k \in a .. b}
  <2>1. ASSUME NEW k \in a .. b PROVE s[k] \in Range(r)
    <3>1. k - a + 1 \in 1 .. b + 1 - a /\ a + (k - a + 1) - 1 = k
      OBVIOUS
    <3>2. r[k - a + 1] = s[k]
      BY <1>3, <3>1
    <3> QED BY <1>4, <3>1, <3>2 DEF Range
  <2>2. ASSUME NEW k \in 1 .. b + 1 - a PROVE r[k] \in {s[m] : m \in a .. b}
    <3>1. a + k - 1 \in a .. b
      OBVIOUS
    <3> QED BY <1>3, <3>1
  <2> QED BY <1>4, <2>1, <2>2 DEF Range
<1>6. ASSUME IsInjective(s), NEW j \in DOMAIN r, NEW k \in DOMAIN r, r[j] = r[k]
        PROVE j = k
  <2>1. a + j - 1 \in 1 .. Len(s) /\ a + k - 1 \in 1 .. Len(s)
    BY <1>1, <1>4, <1>6
  <2>2. s[a + j - 1] = s[a + k - 1]
    BY <1>3, <1>4, <1>6
  <2>3. a + j - 1 = a + k - 1
    BY <1>1, <1>6, <2>1, <2>2 DEF IsInjective
  <2> QED BY <1>4, <2>3
<1>7. \A k \in a .. b : k \in DOMAIN s
  BY <1>1
<1>8. Range(r) \subseteq Range(s)
  BY <1>5, <1>7 DEF Range
<1>9. IsInjective(s) => IsInjective(r)
  BY <1>6 DEF IsInjective
<1> QED BY <1>2, <1>3, <1>4, <1>5, <1>8, <1>9

(* An element put in between, where the open upvalues have their order. *)
LEMMA InsertFacts ==
  ASSUME NEW s, IsList(s), NEW n \in 0 .. Len(s), NEW x
  PROVE  LET r == SubSeq(s, 1, n) \o <<x>> \o SubSeq(s, n + 1, Len(s)) IN
         /\ IsList(r) /\ Range(r) = {x} \cup Range(s)
         /\ IsInjective(s) /\ x \notin Range(s) => IsInjective(r)
<1>0. Len(s) \in Nat /\ DOMAIN s = 1 .. Len(s)
  BY ListFacts
<1>1. PICK p, q : p = SubSeq(s, 1, n) /\ q = SubSeq(s, n + 1, Len(s))
  OBVIOUS
<1>2. /\ IsList(p) /\ Range(p) = {s[k] : k \in 1 .. n}
      /\ IsInjective(s) => IsInjective(p)
      /\ Range(p) \subseteq Range(s)
  <2>1. 1 \in Nat \ {0} /\ n \in Nat /\ 1 <= n + 1 /\ n <= Len(s)
    BY <1>0
  <2> QED BY <1>1, <2>1, PartFacts, Zenon
<1>3. /\ IsList(q) /\ Range(q) = {s[k] : k \in n + 1 .. Len(s)}
      /\ IsInjective(s) => IsInjective(q)
      /\ Range(q) \subseteq Range(s)
  <2>1. n + 1 \in Nat \ {0} /\ n + 1 <= Len(s) + 1 /\ Len(s) <= Len(s)
    BY <1>0
  <2>2. /\ IsList(SubSeq(s, n + 1, Len(s)))
        /\ Range(SubSeq(s, n + 1, Len(s))) = {s[k] : k \in n + 1 .. Len(s)}
        /\ Range(SubSeq(s, n + 1, Len(s))) \subseteq Range(s)
        /\ IsInjective(s) => IsInjective(SubSeq(s, n + 1, Len(s)))
    BY <1>0, <2>1, PartFacts
  <2> QED BY <1>1, <2>2, Zenon
<1>4. Range(s) = Range(p) \cup Range(q)
  <2>1. ASSUME NEW k \in DOMAIN s PROVE s[k] \in Range(p) \cup Range(q)
    <3>1. k \in 1 .. n \/ k \in n + 1 .. Len(s)
      BY <1>0
    <3>2. CASE k \in 1 .. n
      BY <1>2, <3>2, Zenon
    <3>3. CASE k \in n + 1 .. Len(s)
      BY <1>3, <3>3, Zenon
    <3> QED BY <3>1, <3>2, <3>3
  <2>2. Range(s) \subseteq Range(p) \cup Range(q)
    BY <2>1, Zenon DEF Range
  <2>3. Range(p) \cup Range(q) \subseteq Range(s)
    BY <1>2, <1>3, Zenon
  <2> QED BY <2>2, <2>3, Zenon
<1>5. ASSUME IsInjective(s), NEW y \in Range(p), y \in Range(q) PROVE FALSE
  <2>3. PICK j \in 1 .. n : y = s[j]
    BY <1>2, <1>5, Zenon
  <2>4. PICK k \in n + 1 .. Len(s) : y = s[k]
    BY <1>3, <1>5, Zenon
  <2>1. s[j] = s[k]
    BY <2>3, <2>4
  <2>2. j \in DOMAIN s /\ k \in DOMAIN s /\ j # k
    BY <1>0
  <2> QED BY <1>5, <2>1, <2>2 DEF IsInjective
<1>6. PICK o : o = p \o <<x>>
  OBVIOUS
<1>7. /\ IsList(o) /\ Range(o) = Range(p) \cup {x}
      /\ IsInjective(p) /\ x \notin Range(p) => IsInjective(o)
  <2>1. IsList(<<x>>) /\ Range(<<x>>) = {x} /\ IsInjective(<<x>>)
    BY OneFacts, Zenon
  <2>2. PICK one : one = <<x>>
    OBVIOUS
  <2>3. /\ IsList(p \o one) /\ Range(p \o one) = Range(p) \cup Range(one)
        /\ IsInjective(p) /\ IsInjective(one) /\ Range(p) \cap Range(one) = {}
             => IsInjective(p \o one)
    BY <1>2, <2>1, <2>2, ConcatFacts, Zenon
  <2>4. o = p \o one /\ Range(one) = {x} /\ IsInjective(one)
    BY <1>6, <2>1, <2>2, Zenon
  <2> QED BY <2>3, <2>4, Zenon
<1>8. /\ IsList(o \o q) /\ Range(o \o q) = Range(o) \cup Range(q)
      /\ IsInjective(o) /\ IsInjective(q) /\ Range(o) \cap Range(q) = {}
         => IsInjective(o \o q)
  BY <1>3, <1>7, ConcatFacts, Zenon
<1>9. ASSUME IsInjective(s), x \notin Range(s) PROVE IsInjective(o \o q)
  <2>1. x \notin Range(p) /\ x \notin Range(q)
    BY <1>4, <1>9, Zenon
  <2>2. IsInjective(p) /\ IsInjective(q) /\ IsInjective(o)
    BY <1>2, <1>3, <1>7, <1>9, <2>1, Zenon
  <2>3. Range(p) \cap Range(q) = {}
    BY <1>5, <1>9
  <2>4. Range(o) \cap Range(q) = {}
    BY <1>7, <2>1, <2>3
  <2> QED BY <1>8, <2>2, <2>4, Zenon
<1>10. Range(o \o q) = {x} \cup Range(s)
  BY <1>4, <1>7, <1>8
<1> QED BY <1>1, <1>6, <1>8, <1>9, <1>10, Zenon

(* One round more of a loop: b is what a was after m, and then x. *)
Continues(b, a, m, x) ==
  b = [n \in 0 .. m + 1 |-> b[n]] /\ (\A n \in 0 .. m : b[n] = a[n]) /\ b[m + 1] = x

(* A loop can always go one round further. *)
LEMMA OneRoundMore ==
  ASSUME NEW m \in Nat, NEW a, NEW x
  PROVE  \E b : Continues(b, a, m, x)
<1>1. PICK b : b = [n \in 0 .. m + 1 |-> IF n \in 0 .. m THEN a[n] ELSE x]
  OBVIOUS
<1>2. m + 1 \in 0 .. m + 1 /\ m + 1 \notin 0 .. m /\ \A n \in 0 .. m :
        n \in 0 .. m + 1
  OBVIOUS
<1>3. b = [n \in 0 .. m + 1 |-> b[n]]
  BY <1>1, Zenon
<1>4. (\A n \in 0 .. m : b[n] = a[n]) /\ b[m + 1] = x
  BY <1>1, <1>2, Zenon
<1> QED BY <1>3, <1>4, Zenon DEF Continues

(* The list s holds the first n of list that are in T. *)
Leaves(list, T, s, n) ==
  /\ IsList(s) /\ Range(s) = {list[k] : k \in 1 .. n} \cap T
  /\ IsInjective(list) => IsInjective(s)

(* The rounds of Members. *)
MembersRound(list, T, x, n) == IF list[n] \in T THEN Append(x, list[n]) ELSE x
MembersRun(a, list, T, m) ==
  a = [n \in 0 .. m |-> IF n = 0 THEN <<>> ELSE MembersRound(list, T, a[n - 1], n)]

(* Members has a result for each number of rounds. *)
LEMMA MembersRounds ==
  ASSUME NEW list, NEW T, NEW m \in Nat
  PROVE  \E a : MembersRun(a, list, T, m)
<1> DEFINE S == {l \in Nat : \E a : MembersRun(a, list, T, l)}
<1>1. 0 \in S
  <2>1. PICK a : a = [n \in 0 .. 0 |-> <<>>]
    OBVIOUS
  <2>2. \A n \in 0 .. 0 : n = 0
    OBVIOUS
  <2>3. MembersRun(a, list, T, 0)
    BY <2>1, <2>2, Zenon DEF MembersRun
  <2> QED BY <2>3
<1>2. ASSUME NEW l \in Nat, l \in S PROVE l + 1 \in S
  <2>1. PICK a : MembersRun(a, list, T, l)
    BY <1>2
  <2>2. PICK x : x = MembersRound(list, T, a[l], l + 1)
    OBVIOUS
  <2>3. PICK b : Continues(b, a, l, x)
    BY OneRoundMore, Zenon
  <2>4. ASSUME NEW n \in 0 .. l + 1
        PROVE  b[n] = IF n = 0 THEN <<>> ELSE MembersRound(list, T, b[n - 1], n)
    <3>1. CASE n = 0
      <4>1. 0 \in 0 .. l
        OBVIOUS
      <4>2. a[0] = <<>>
        BY <2>1, <4>1, Zenon DEF MembersRun
      <4> QED BY <2>3, <3>1, <4>1, <4>2, Zenon DEF Continues
    <3>2. CASE n \in 0 .. l /\ n # 0
      <4>1. n - 1 \in 0 .. l
        BY <3>2
      <4>2. a[n] = MembersRound(list, T, a[n - 1], n)
        BY <2>1, <3>2, Zenon DEF MembersRun
      <4> QED BY <2>3, <3>2, <4>1, <4>2, Zenon DEF Continues
    <3>3. CASE n = l + 1
      <4>1. l + 1 # 0 /\ (l + 1) - 1 = l /\ l \in 0 .. l
        OBVIOUS
      <4> QED BY <2>2, <2>3, <3>3, <4>1, Zenon DEF Continues
    <3> QED BY <3>1, <3>2, <3>3
  <2>5. MembersRun(b, list, T, l + 1)
    BY <2>3, <2>4, Zenon DEF MembersRun, Continues
  <2>6. l + 1 \in Nat
    OBVIOUS
  <2> QED BY <2>5, <2>6, Zenon
<1> HIDE DEF S
<1>3. m \in S
  BY <1>1, <1>2, NumberInduction
<1> QED BY <1>3, Zenon DEF S

(* Members keeps the order and the multiplicity of what it keeps: a list   *)
(* without repetitions stays one, and holds exactly the elements asked     *)
(* for.                                                                    *)
LEMMA MembersFacts ==
  ASSUME NEW list, NEW T, IsList(list)
  PROVE  /\ IsList(Members(list, T))
         /\ Range(Members(list, T)) = Range(list) \cap T
         /\ IsInjective(list) => IsInjective(Members(list, T))
<1>1. Len(list) \in Nat
  BY ListFacts
<1>2. PICK after :
        MembersRun(after, list, T, Len(list)) /\ Members(list, T) = after[Len(list)]
  <2>1. \E a : MembersRun(a, list, T, Len(list))
    BY <1>1, MembersRounds, Zenon
  <2>2. Members(list, T) = (CHOOSE a : MembersRun(a, list, T, Len(list)))[Len(list)]
    BY Zenon DEF Members, MembersRun, MembersRound
  <2> QED BY <2>1, <2>2, Zenon
<1> DEFINE S == {n \in Nat : n <= Len(list) => Leaves(list, T, after[n], n)}
<1>3. 0 \in S
  <2>1. 0 \in 0 .. Len(list)
    BY <1>1
  <2>2. after[0] = <<>>
    BY <1>2, <2>1, Zenon DEF MembersRun
  <2>3. {list[k] : k \in 1 .. 0} = {}
    OBVIOUS
  <2> QED BY <2>2, <2>3, EmptyFacts DEF Leaves
<1>4. ASSUME NEW m \in Nat, m \in S PROVE m + 1 \in S
  <2> SUFFICES ASSUME m + 1 <= Len(list) PROVE Leaves(list, T, after[m + 1], m + 1)
    BY m + 1 \in Nat, Zenon
  <2>1. PICK x, y : x = after[m] /\ y = after[m + 1]
    OBVIOUS
  <2>2. /\ m + 1 \in 0 .. Len(list) /\ m + 1 # 0 /\ (m + 1) - 1 = m
        /\ m <= Len(list) /\ m + 1 \in 1 .. Len(list)
    BY <1>1
  <2>3. Leaves(list, T, x, m)
    BY <1>4, <2>1, <2>2
  <2>4. y = MembersRound(list, T, x, m + 1)
    BY <1>2, <2>1, <2>2, Zenon DEF MembersRun
  <2>5. PICK e : e = list[m + 1]
    OBVIOUS
  <2>6. y = IF e \in T THEN Append(x, e) ELSE x
    BY <2>4, <2>5, Zenon DEF MembersRound
  <2>7. {list[k] : k \in 1 .. m + 1} = {list[k] : k \in 1 .. m} \cup {e}
    <3>1. \A k \in 1 .. m + 1 : k \in 1 .. m \/ k = m + 1
      OBVIOUS
    <3>2. \A k \in 1 .. m : k \in 1 .. m + 1
      OBVIOUS
    <3>3. m + 1 \in 1 .. m + 1
      OBVIOUS
    <3> QED BY <2>5, <3>1, <3>2, <3>3
  <2>8. CASE e \notin T
    BY <2>1, <2>3, <2>6, <2>7, <2>8 DEF Leaves
  <2>9. CASE e \in T
    <3>1. PICK one : one = <<e>>
      OBVIOUS
    <3>2. IsList(one) /\ Range(one) = {e} /\ IsInjective(one)
      BY <3>1, OneFacts
    <3>3. Append(x, e) = x \o <<e>>
      BY <2>3 DEF Leaves, IsList
    <3>4. y = x \o one
      BY <2>6, <2>9, <3>1, <3>3
    <3>5. /\ IsList(x \o one) /\ Range(x \o one) = Range(x) \cup {e}
          /\ IsInjective(x) /\ e \notin Range(x) => IsInjective(x \o one)
      BY <2>3, <3>2, ConcatFacts DEF Leaves
    <3>6. ASSUME IsInjective(list) PROVE e \notin Range(x)
      <4>1. ASSUME NEW k \in 1 .. m, list[k] = e PROVE FALSE
        <5>1. k \in DOMAIN list /\ m + 1 \in DOMAIN list /\ k # m + 1
          BY <1>1, <2>2, ListFacts
        <5> QED BY <2>5, <3>6, <4>1, <5>1 DEF IsInjective
      <4> QED BY <2>3, <4>1 DEF Leaves
    <3>7. Range(x \o one) = {list[k] : k \in 1 .. m + 1} \cap T
      BY <2>3, <2>7, <2>9, <3>5 DEF Leaves
    <3> QED BY <2>1, <2>3, <3>4, <3>5, <3>6, <3>7 DEF Leaves
  <2> QED BY <2>8, <2>9
<1> HIDE DEF S
<1>5. Len(list) \in S
  BY <1>1, <1>3, <1>4, NumberInduction
<1>6. Len(list) <= Len(list)
  BY <1>1
<1>7. Range(list) = {list[k] : k \in 1 .. Len(list)}
  BY ListFacts DEF Range
<1> QED BY <1>2, <1>5, <1>6, <1>7, Zenon DEF S, Leaves
-----------------------------------------------------------------------------
(* The heap: what marking leaves as it is *)

Fields ==
  {"obj", "rootgc", "udata", "tmudata", "main", "openupval", "gray",
   "grayagain", "weak", "gcstate", "currentwhite", "sweepgc", "sweepstrgc",
   "strsize", "missed", "bad"}
ObjFields == {"tt", "mark", "fin", "gc", "key", "val", "at", "calls", "late"}
Phases == {"pause", "propagate", "sweepstring", "sweep", "finalize"}
Shape(h) ==
  /\ DOMAIN h = Fields /\ h.gcstate \in Phases
  /\ \A o \in DOMAIN h.obj : DOMAIN h.obj[o] = ObjFields
  /\ IsList(h.weak)

(* k is h with other marks, entries and gray objects. *)
Same(h, k) ==
  /\ Shape(k)
  /\ DOMAIN k.obj = DOMAIN h.obj
  /\ \A o \in DOMAIN h.obj :
       /\ k.obj[o].tt = h.obj[o].tt /\ k.obj[o].at = h.obj[o].at
       /\ k.obj[o].fin = h.obj[o].fin /\ k.obj[o].gc = h.obj[o].gc
       /\ k.obj[o].calls = h.obj[o].calls /\ k.obj[o].late = h.obj[o].late
  /\ k.rootgc = h.rootgc /\ k.udata = h.udata /\ k.tmudata = h.tmudata
  /\ k.openupval = h.openupval
  /\ k.currentwhite = h.currentwhite /\ k.missed = h.missed

(* Nothing dies. *)
Kin(h, k) ==
  /\ Same(h, k)
  /\ \A o \in DOMAIN h.obj : isdead(k, o) => isdead(h, o)

(* Nor does anything turn white, but for what waits for its finalizer. *)
Darker(h, k) ==
  /\ Kin(h, k)
  /\ \A o \in DOMAIN h.obj \ Range(h.tmudata) : iswhite(k, o) => iswhite(h, o)

(* A heap left alone is kin to itself, and no lighter. *)
LEMMA KinItself == ASSUME NEW h, Shape(h) PROVE Kin(h, h) /\ Darker(h, h)
BY Zenon DEF Kin, Darker, Same

(* Two changes that kill nothing, one after the other, kill nothing. *)
LEMMA KinTwice ==
  ASSUME NEW h, NEW k, NEW l, Kin(h, k), Kin(k, l)
  PROVE  Kin(h, l)
<1>1. DOMAIN k.obj = DOMAIN h.obj
  BY Zenon DEF Kin, Same
<1>2. Same(h, l)
  BY <1>1, SMT DEF Kin, Same
<1>3. \A o \in DOMAIN h.obj : isdead(l, o) => isdead(h, o)
  BY <1>1, Zenon DEF Kin
<1> QED BY <1>2, <1>3, Zenon DEF Kin

(* Two changes that only darken, one after the other, only darken. *)
LEMMA DarkerTwice ==
  ASSUME NEW h, NEW k, NEW l, Darker(h, k), Darker(k, l)
  PROVE  Darker(h, l)
<1>1. DOMAIN k.obj = DOMAIN h.obj /\ k.tmudata = h.tmudata
  BY Zenon DEF Darker, Kin, Same
<1>2. Kin(h, l)
  BY KinTwice, Zenon DEF Darker
<1> QED BY <1>1, <1>2, Zenon DEF Darker

(* Colors *)
LEMMA WhiteFacts ==
  ASSUME NEW w
  PROVE  /\ Other(w) \in Whites /\ Other(w) # w
         /\ "gray" \notin Whites /\ "black" \notin Whites
            /\ Other(Other(w)) \in Whites
BY DEF Other, Whites

(* A paint changes one mark and nothing else. *)
LEMMA PaintFields ==
  ASSUME NEW h, Shape(h), NEW o, NEW c, NEW k, k = Paint(h, o, c)
  PROVE  /\ Same(h, k)
         /\ \A x \in DOMAIN h.obj : Mark(k, x) = IF x = o THEN c ELSE Mark(h, x)
         /\ k.gray = h.gray /\ k.weak = h.weak /\ k.gcstate = h.gcstate
            /\ k.grayagain = h.grayagain
BY SMT DEF Shape, Same, Paint, Mark, Fields, ObjFields

(* Painted gray or black, an object is darker. *)
LEMMA PaintDarker ==
  ASSUME NEW h, Shape(h), NEW o, NEW c, c \in {"gray", "black"}
  PROVE  Darker(h, Paint(h, o, c))
<1>1. PICK k : k = Paint(h, o, c)
  OBVIOUS
<1>2. /\ Same(h, k)
      /\ \A x \in DOMAIN h.obj : Mark(k, x) = IF x = o THEN c ELSE Mark(h, x)
  BY <1>1, PaintFields
<1>3. k.currentwhite = h.currentwhite
  BY <1>2, Zenon DEF Same
<1>4. c \notin Whites /\ Other(h.currentwhite) \in Whites
  BY WhiteFacts
<1>5. \A x \in DOMAIN h.obj : isdead(k, x) => isdead(h, x)
  BY <1>2, <1>3, <1>4 DEF isdead, otherwhite
<1>6. \A x \in DOMAIN h.obj : iswhite(k, x) => iswhite(h, x)
  BY <1>2, <1>4 DEF iswhite
<1> QED BY <1>1, <1>2, <1>5, <1>6, Zenon DEF Darker, Kin

(* The current white is no death; for a udata that waits for its finalizer *)
(* it counts as no lightening either, since marktmu does it on purpose.    *)
LEMMA MakewhiteKin ==
  ASSUME NEW h, Shape(h), NEW o
  PROVE  /\ Kin(h, makewhite(h, o))
         /\ o \in Range(h.tmudata) => Darker(h, makewhite(h, o))
<1>1. PICK k : k = makewhite(h, o)
  OBVIOUS
<1>2. /\ Same(h, k)
      /\ \A x \in DOMAIN h.obj :
         Mark(k, x) = IF x = o THEN h.currentwhite ELSE Mark(h, x)
  BY <1>1, PaintFields DEF makewhite
<1>3. k.currentwhite = h.currentwhite
  BY <1>2, Zenon DEF Same
<1>4. Other(h.currentwhite) # h.currentwhite
  BY WhiteFacts
<1>5. \A x \in DOMAIN h.obj : isdead(k, x) => isdead(h, x)
  BY <1>2, <1>3, <1>4 DEF isdead, otherwhite
<1>6. \A x \in DOMAIN h.obj : x # o => (iswhite(k, x) => iswhite(h, x))
  BY <1>2 DEF iswhite
<1> QED BY <1>1, <1>2, <1>5, <1>6, Zenon DEF Darker, Kin

(* A change that is none of the marks or of the objects. *)
Elsewhere(h, k) ==
  /\ Shape(k) /\ k.obj = h.obj
  /\ k.rootgc = h.rootgc /\ k.udata = h.udata /\ k.tmudata = h.tmudata
  /\ k.openupval = h.openupval
  /\ k.currentwhite = h.currentwhite /\ k.missed = h.missed
(* What changes neither marks nor objects only darkens. *)
LEMMA ElsewhereDarker == ASSUME NEW h, NEW k, Elsewhere(h, k) PROVE Darker(h, k)
BY Zenon DEF Elsewhere, Darker, Kin, Same, isdead, iswhite, Mark, otherwhite

(* A lua_assert changes at most the record of those that failed. *)
LEMMA AssertedDarker ==
  ASSUME NEW h, Shape(h), NEW p, NEW what
  PROVE  Darker(h, Asserted(h, p, what))
<1>1. Elsewhere(h, [h EXCEPT !.bad = @ \union {what}])
  BY DEF Elsewhere, Shape, Fields
<1> QED BY <1>1, ElsewhereDarker, KinItself, Zenon DEF Asserted

(* An object put on the gray list. *)
LEMMA LinkDarker ==
  ASSUME NEW h, Shape(h), NEW o
  PROVE  Darker(h, Link(h, o))
<1>1. PICK k : k = Paint(h, o, "gray")
  OBVIOUS
<1>2. Darker(h, k)
  BY <1>1, PaintDarker
<1>3. Shape(k)
  BY <1>2, Zenon DEF Darker, Kin, Same
<1>4. Elsewhere(k, [k EXCEPT !.gray = <<o>> \o @])
  BY <1>3 DEF Elsewhere, Shape, Fields
<1>5. Darker(k, [k EXCEPT !.gray = <<o>> \o @])
  BY <1>4, ElsewhereDarker
<1> QED BY <1>1, <1>2, <1>5, DarkerTwice, Zenon DEF Link

(* Marking *)
LEMMA DarkerShape == ASSUME NEW h, NEW k, Darker(h, k) PROVE Shape(k)
BY Zenon DEF Darker, Kin, Same

(* A table marked. *)
LEMMA MarkTableDarker ==
  ASSUME NEW h0, Shape(h0), NEW o
  PROVE  Darker(h0, MarkTable(h0, o))
<1>1. PICK h : h = Living(h0, o)
  OBVIOUS
<1>2. Darker(h0, h) /\ Shape(h)
  BY <1>1, AssertedDarker, DarkerShape DEF Living
<1>3. Darker(h, Link(h, o))
  BY <1>2, LinkDarker
<1>4. Darker(h0, Link(h, o))
  BY <1>2, <1>3, DarkerTwice, Zenon
<1> QED BY <1>1, <1>4, Zenon DEF MarkTable

(* The same one level into the recursion. *)
LEMMA IntoMarkTable ==
  ASSUME NEW h, Shape(h), NEW o
  PROVE  Darker(h, MarkInto(h, o, MarkTable))
<1>1. CASE o = Null
  BY <1>1, KinItself DEF MarkInto
<1>2. CASE o # Null /\ ~Allocated(h, o)
  BY <1>2, AssertedDarker DEF MarkInto
<1>3. CASE o # Null /\ Allocated(h, o) /\ iswhite(h, o)
  BY <1>3, MarkTableDarker DEF MarkInto
<1>4. CASE o # Null /\ Allocated(h, o) /\ ~iswhite(h, o)
  BY <1>4, KinItself DEF MarkInto
<1> QED BY <1>1, <1>2, <1>3, <1>4

(* A udata marked, with what it refers to. *)
LEMMA MarkUdataDarker ==
  ASSUME NEW h0, Shape(h0), NEW o
  PROVE  Darker(h0, MarkUdata(h0, o))
<1>1. PICK h : h = Living(h0, o)
  OBVIOUS
<1>2. PICK gray, black : gray = Paint(h, o, "gray") /\ black = Paint(h, o, "black")
  OBVIOUS
<1>3. PICK v, w :
        v = MarkInto(gray, ValueOf(h.obj[o]), MarkTable)
          /\ w = MarkInto(black, h.obj[o].key, MarkTable)
  OBVIOUS
<1>4. MarkUdata(h0, o)
        \in {gray, w, Paint(v, o, "gray"), Paint(v, o, "black"), Link(h, o)}
  BY <1>1, <1>2, <1>3 DEF MarkUdata, Marked
<1>5. Darker(h0, h) /\ Shape(h)
  BY <1>1, AssertedDarker, DarkerShape DEF Living
<1>6. Darker(h, gray) /\ Darker(h, black) /\ Shape(gray) /\ Shape(black)
        /\ Darker(h, Link(h, o))
  BY <1>2, <1>5, PaintDarker, LinkDarker, DarkerShape
<1>7. Darker(gray, v) /\ Darker(black, w) /\ Shape(v)
  BY <1>3, <1>6, IntoMarkTable, DarkerShape
<1>8. Darker(v, Paint(v, o, "gray")) /\ Darker(v, Paint(v, o, "black"))
  BY <1>7, PaintDarker
<1>9. Darker(h, v) /\ Darker(h, w)
  BY <1>6, <1>7, DarkerTwice, Zenon
<1>10. Darker(h, Paint(v, o, "gray")) /\ Darker(h, Paint(v, o, "black"))
  BY <1>8, <1>9, DarkerTwice, Zenon
<1>11. \A k \in {gray, w, Paint(v, o, "gray"), Paint(v, o, "black"), Link(h, o)} :
         Darker(h, k)
  BY <1>6, <1>9, <1>10
<1>12. PICK k : k = MarkUdata(h0, o)
  OBVIOUS
<1>13. Darker(h, k)
  BY <1>4, <1>11, <1>12, Zenon
<1> QED BY <1>5, <1>12, <1>13, DarkerTwice, Zenon

(* The same one level into the recursion. *)
LEMMA IntoMarkUdata ==
  ASSUME NEW h, Shape(h), NEW o
  PROVE  Darker(h, MarkInto(h, o, MarkUdata))
<1>1. CASE o = Null
  BY <1>1, KinItself DEF MarkInto
<1>2. CASE o # Null /\ ~Allocated(h, o)
  BY <1>2, AssertedDarker DEF MarkInto
<1>3. CASE o # Null /\ Allocated(h, o) /\ iswhite(h, o)
  BY <1>3, MarkUdataDarker DEF MarkInto
<1>4. CASE o # Null /\ Allocated(h, o) /\ ~iswhite(h, o)
  BY <1>4, KinItself DEF MarkInto
<1> QED BY <1>1, <1>2, <1>3, <1>4

(* reallymarkobject only darkens, whatever the object. *)
LEMMA reallymarkobjectDarker ==
  ASSUME NEW h0, Shape(h0), NEW o
  PROVE  Darker(h0, reallymarkobject(h0, o))
<1>1. PICK h : h = Living(h0, o)
  OBVIOUS
<1>2. PICK gray, black : gray = Paint(h, o, "gray") /\ black = Paint(h, o, "black")
  OBVIOUS
<1>3. PICK v, w :
        v = MarkInto(gray, ValueOf(h.obj[o]), MarkUdata)
          /\ w = MarkInto(black, h.obj[o].key, MarkUdata)
  OBVIOUS
<1>4. reallymarkobject(h0, o)
        \in {gray, w, Paint(v, o, "gray"), Paint(v, o, "black"), Link(h, o)}
  BY <1>1, <1>2, <1>3 DEF reallymarkobject, Marked
<1>5. Darker(h0, h) /\ Shape(h)
  BY <1>1, AssertedDarker, DarkerShape DEF Living
<1>6. Darker(h, gray) /\ Darker(h, black) /\ Shape(gray) /\ Shape(black)
        /\ Darker(h, Link(h, o))
  BY <1>2, <1>5, PaintDarker, LinkDarker, DarkerShape
<1>7. Darker(gray, v) /\ Darker(black, w) /\ Shape(v)
  BY <1>3, <1>6, IntoMarkUdata, DarkerShape
<1>8. Darker(v, Paint(v, o, "gray")) /\ Darker(v, Paint(v, o, "black"))
  BY <1>7, PaintDarker
<1>9. Darker(h, v) /\ Darker(h, w)
  BY <1>6, <1>7, DarkerTwice, Zenon
<1>10. Darker(h, Paint(v, o, "gray")) /\ Darker(h, Paint(v, o, "black"))
  BY <1>8, <1>9, DarkerTwice, Zenon
<1>11. \A k \in {gray, w, Paint(v, o, "gray"), Paint(v, o, "black"), Link(h, o)} :
         Darker(h, k)
  BY <1>6, <1>9, <1>10
<1>12. PICK k : k = reallymarkobject(h0, o)
  OBVIOUS
<1>13. Darker(h, k)
  BY <1>4, <1>11, <1>12, Zenon
<1> QED BY <1>5, <1>12, <1>13, DarkerTwice, Zenon

(* So does markobject, which tests the mark first. *)
LEMMA markobjectDarker ==
  ASSUME NEW h, Shape(h), NEW o
  PROVE  Darker(h, markobject(h, o))
<1>1. CASE o = Null
  BY <1>1, KinItself DEF markobject, MarkInto
<1>2. CASE o # Null /\ ~Allocated(h, o)
  BY <1>2, AssertedDarker DEF markobject, MarkInto
<1>3. CASE o # Null /\ Allocated(h, o) /\ iswhite(h, o)
  BY <1>3, reallymarkobjectDarker DEF markobject, MarkInto
<1>4. CASE o # Null /\ Allocated(h, o) /\ ~iswhite(h, o)
  BY <1>4, KinItself DEF markobject, MarkInto
<1> QED BY <1>1, <1>2, <1>3, <1>4

(* A change of an object's entry. *)
LEMMA EntryDarker ==
  ASSUME NEW h, Shape(h), NEW o, NEW x
  PROVE  /\ Darker(h, [h EXCEPT !.obj[o].key = x])
         /\ Darker(h, [h EXCEPT !.obj[o].val = x])
<1>1. PICK k : k = [h EXCEPT !.obj[o].key = x]
  OBVIOUS
<1>2. Same(h, k) /\ \A y \in DOMAIN h.obj : Mark(k, y) = Mark(h, y)
  BY <1>1, SMT DEF Shape, Same, Mark, Fields, ObjFields
<1>3. PICK l : l = [h EXCEPT !.obj[o].val = x]
  OBVIOUS
<1>4. Same(h, l) /\ \A y \in DOMAIN h.obj : Mark(l, y) = Mark(h, y)
  BY <1>3, SMT DEF Shape, Same, Mark, Fields, ObjFields
<1>5. \A y :
        /\ Same(h, y) /\ (\A z \in DOMAIN h.obj : Mark(y, z) = Mark(h, z))
           => Darker(h, y)
  BY Zenon DEF Same, Darker, Kin, isdead, iswhite, otherwhite
<1> QED BY <1>1, <1>2, <1>3, <1>4, <1>5, Zenon

(* So does the traversal of a table: its entry is marked, or cleared when  *)
(* the key is dead.                                                        *)
LEMMA traversetableDarker ==
  ASSUME NEW h, Shape(h), NEW o
  PROVE  Darker(h, traversetable(h, o))
<1> DEFINE r == h.obj[o]
           weak == r.tt # "table"
           listed == IF weak THEN [h EXCEPT !.weak = <<o>> \o @] ELSE h
           keyed == IF r.tt # "weakk" THEN markobject(listed, r.key) ELSE listed
           valued == IF r.tt # "weakv" THEN markobject(keyed, r.val) ELSE keyed
           entry ==
             IF r.val = Null THEN [listed EXCEPT !.obj[o].key = Null] ELSE valued
           color == IF weak THEN "gray" ELSE "black"
<1>1. traversetable(h, o) = Paint(entry, o, color)
  BY DEF traversetable
<1>2. Darker(h, listed)
  <2>1. IsList(<<o>> \o h.weak)
    BY ConsFacts DEF Shape
  <2>2. Elsewhere(h, [h EXCEPT !.weak = <<o>> \o @])
    BY <2>1 DEF Elsewhere, Shape, Fields
  <2> QED BY <2>2, ElsewhereDarker, KinItself
<1> HIDE DEF listed
<1>3. Shape(listed)
  BY <1>2, DarkerShape
<1>4. Darker(listed, keyed) /\ Shape(keyed)
  BY <1>3, markobjectDarker, KinItself, DarkerShape
<1> HIDE DEF keyed
<1>5. Darker(keyed, valued)
  BY <1>4, markobjectDarker, KinItself
<1> HIDE DEF valued
<1>6. Darker(listed, valued)
  BY <1>4, <1>5, DarkerTwice, Zenon
<1>7. Darker(listed, entry)
  BY <1>3, <1>6, EntryDarker
<1> HIDE DEF entry
<1>8. Darker(h, entry) /\ Shape(entry)
  BY <1>2, <1>7, DarkerTwice, DarkerShape, Zenon
<1>9. color \in {"gray", "black"}
  OBVIOUS
<1> HIDE DEF color
<1>10. Darker(entry, Paint(entry, o, color))
  BY <1>8, <1>9, PaintDarker
<1> QED BY <1>1, <1>8, <1>10, DarkerTwice, Zenon

(* So does the traversal of a closure. *)
LEMMA traverseclosureDarker ==
  ASSUME NEW h, Shape(h), NEW o
  PROVE  Darker(h, traverseclosure(h, o))
<1>1. PICK a : a = Paint(h, o, "black")
  OBVIOUS
<1>2. Darker(h, a) /\ Shape(a)
  BY <1>1, PaintDarker, DarkerShape
<1>3. PICK b : b = markobject(a, Globals)
  OBVIOUS
<1>4. Darker(a, b) /\ Shape(b)
  BY <1>2, <1>3, markobjectDarker, DarkerShape
<1>5. Darker(b, markobject(b, h.obj[o].key))
  BY <1>4, markobjectDarker
<1>6. Darker(h, b)
  BY <1>2, <1>4, DarkerTwice, Zenon
<1>7. Darker(h, markobject(b, h.obj[o].key))
  BY <1>5, <1>6, DarkerTwice, Zenon
<1> QED BY <1>1, <1>3, <1>7, Zenon DEF traverseclosure

(* The rounds of traversestack. *)
traversestackRound(h, x, n) == markobject(x, stack[n])
traversestackRun(a, h, m) ==
  a = [n \in 0 .. m |->
         IF n = 0 THEN markobject(h, Globals)
         ELSE traversestackRound(h, a[n - 1], n)]

(* The loop of traversestack has a result for each number of rounds. *)
LEMMA traversestackRounds ==
  ASSUME NEW h, NEW m \in Nat
  PROVE  \E a : traversestackRun(a, h, m)
<1> DEFINE S == {l \in Nat : \E a : traversestackRun(a, h, l)}
<1>1. 0 \in S
  <2>1. PICK a : a = [n \in 0 .. 0 |-> markobject(h, Globals)]
    OBVIOUS
  <2>2. \A n \in 0 .. 0 : n = 0
    OBVIOUS
  <2>3. traversestackRun(a, h, 0)
    BY <2>1, <2>2, Zenon DEF traversestackRun
  <2> QED BY <2>3
<1>2. ASSUME NEW l \in Nat, l \in S PROVE l + 1 \in S
  <2>1. PICK a : traversestackRun(a, h, l)
    BY <1>2
  <2>2. PICK x : x = traversestackRound(h, a[l], l + 1)
    OBVIOUS
  <2>3. PICK b : Continues(b, a, l, x)
    BY OneRoundMore, Zenon
  <2>4. ASSUME NEW n \in 0 .. l + 1
        PROVE  b[n] = IF n = 0 THEN markobject(h, Globals)
          ELSE traversestackRound(h, b[n - 1], n)
    <3>1. CASE n = 0
      <4>1. 0 \in 0 .. l
        OBVIOUS
      <4>2. a[0] = markobject(h, Globals)
        BY <2>1, <4>1, Zenon DEF traversestackRun
      <4> QED BY <2>3, <3>1, <4>1, <4>2, Zenon DEF Continues
    <3>2. CASE n \in 0 .. l /\ n # 0
      <4>1. n - 1 \in 0 .. l
        BY <3>2
      <4>2. a[n] = traversestackRound(h, a[n - 1], n)
        BY <2>1, <3>2, Zenon DEF traversestackRun
      <4> QED BY <2>3, <3>2, <4>1, <4>2, Zenon DEF Continues
    <3>3. CASE n = l + 1
      <4>1. l + 1 # 0 /\ (l + 1) - 1 = l /\ l \in 0 .. l
        OBVIOUS
      <4> QED BY <2>2, <2>3, <3>3, <4>1, Zenon DEF Continues
    <3> QED BY <3>1, <3>2, <3>3
  <2>5. traversestackRun(b, h, l + 1)
    BY <2>3, <2>4, Zenon DEF traversestackRun, Continues
  <2>6. l + 1 \in Nat
    OBVIOUS
  <2> QED BY <2>5, <2>6, Zenon
<1> HIDE DEF S
<1>3. m \in S
  BY <1>1, <1>2, NumberInduction
<1> QED BY <1>3, Zenon DEF S

(* So does the traversal of the stack: each round marks one value. *)
LEMMA traversestackDarker ==
  ASSUME NEW h, Shape(h), IsList(stack)
  PROVE  Darker(h, traversestack(h))
<1>1. Len(stack) \in Nat
  BY ListFacts
<1>2. PICK after :
        traversestackRun(after, h, Len(stack)) /\ traversestack(h) = after[Len(stack)]
  <2>1. \E a : traversestackRun(a, h, Len(stack))
    BY <1>1, traversestackRounds, Zenon
  <2>2. traversestack(h) = (CHOOSE a : traversestackRun(a, h, Len(stack)))[Len(stack)]
    BY Zenon DEF traversestack, traversestackRun, traversestackRound
  <2> QED BY <2>1, <2>2, Zenon
<1> DEFINE S == {n \in Nat : n <= Len(stack) => Darker(h, after[n])}
<1>3. 0 \in S
  <2>1. 0 \in 0 .. Len(stack)
    BY <1>1
  <2>2. after[0] = markobject(h, Globals)
    BY <1>2, <2>1, Zenon DEF traversestackRun
  <2> QED BY <1>1, <2>2, markobjectDarker
<1>4. ASSUME NEW m \in Nat, m \in S PROVE m + 1 \in S
  <2> SUFFICES ASSUME m + 1 <= Len(stack) PROVE Darker(h, after[m + 1])
    BY m + 1 \in Nat, Zenon
  <2>1. PICK x, y : x = after[m] /\ y = after[m + 1]
    OBVIOUS
  <2>2. /\ m + 1 \in 0 .. Len(stack) /\ m + 1 # 0 /\ (m + 1) - 1 = m
        /\ m <= Len(stack) /\ m + 1 \in 1 .. Len(stack)
    BY <1>1
  <2>3. Darker(h, x)
    BY <1>4, <2>1, <2>2
  <2>4. y = traversestackRound(h, x, m + 1)
    BY <1>2, <2>1, <2>2, Zenon DEF traversestackRun
  <2>5. Shape(x)
    BY <2>3, DarkerShape
  <2>6. Darker(x, y)
    BY <2>4, <2>5, markobjectDarker DEF traversestackRound
  <2> QED BY <2>1, <2>3, <2>6, DarkerTwice, Zenon
<1> HIDE DEF S
<1>5. Len(stack) \in S
  BY <1>1, <1>3, <1>4, NumberInduction
<1>6. Len(stack) <= Len(stack)
  BY <1>1
<1> QED BY <1>2, <1>5, <1>6, Zenon DEF S

(* So does propagatemark, which traverses one gray object. *)
LEMMA propagatemarkDarker ==
  ASSUME NEW h0, Shape(h0), IsList(stack)
  PROVE  Darker(h0, propagatemark(h0))
<1>1. PICK o, h : o = Head(h0.gray) /\ h = [h0 EXCEPT !.gray = Tail(@)]
  OBVIOUS
<1>2. PICK again, a : /\ again = [h EXCEPT !.grayagain = <<MAIN>> \o @]
                      /\ a = Asserted(h, isgray(h, o), "propagatemark")
  OBVIOUS
<1>3. Darker(h0, h) /\ Shape(h)
  <2>1. Elsewhere(h0, h)
    BY <1>1 DEF Elsewhere, Shape, Fields
  <2> QED BY <2>1, ElsewhereDarker, DarkerShape
<1>4. Darker(h, again) /\ Shape(again)
  <2>1. Elsewhere(h, again)
    BY <1>2, <1>3 DEF Elsewhere, Shape, Fields
  <2> QED BY <2>1, ElsewhereDarker, DarkerShape
<1>5. Darker(h, a) /\ Shape(a)
  BY <1>2, <1>3, AssertedDarker, DarkerShape
<1>6. propagatemark(h0)
        \in {traversestack(again), Asserted(h, FALSE, "freed object propagated"),
             traversetable(a, o), traverseclosure(a, o)}
  BY <1>1, <1>2 DEF propagatemark
<1>7. /\ Darker(again, traversestack(again))
      /\ Darker(h, Asserted(h, FALSE, "freed object propagated"))
      /\ Darker(a, traversetable(a, o)) /\ Darker(a, traverseclosure(a, o))
  BY <1>3, <1>4, <1>5, traversestackDarker, AssertedDarker, traversetableDarker,
     traverseclosureDarker
<1>8. \A k : Darker(again, k) \/ Darker(a, k) => Darker(h, k)
  BY <1>4, <1>5, DarkerTwice, Zenon
<1>9. PICK k : k = propagatemark(h0)
  OBVIOUS
<1>10. Darker(h, k)
  BY <1>6, <1>7, <1>8, <1>9, Zenon
<1> QED BY <1>3, <1>9, <1>10, DarkerTwice, Zenon

(* The rounds of propagateall. *)
propagateallRound(h, x, n) == IF x.gray = <<>> THEN x ELSE propagatemark(x)
propagateallRun(a, h, m) ==
  a = [n \in 0 .. m |-> IF n = 0 THEN h ELSE propagateallRound(h, a[n - 1], n)]

(* The loop of propagateall has a result for each number of rounds. *)
LEMMA propagateallRounds ==
  ASSUME NEW h, NEW m \in Nat
  PROVE  \E a : propagateallRun(a, h, m)
<1> DEFINE S == {l \in Nat : \E a : propagateallRun(a, h, l)}
<1>1. 0 \in S
  <2>1. PICK a : a = [n \in 0 .. 0 |-> h]
    OBVIOUS
  <2>2. \A n \in 0 .. 0 : n = 0
    OBVIOUS
  <2>3. propagateallRun(a, h, 0)
    BY <2>1, <2>2, Zenon DEF propagateallRun
  <2> QED BY <2>3
<1>2. ASSUME NEW l \in Nat, l \in S PROVE l + 1 \in S
  <2>1. PICK a : propagateallRun(a, h, l)
    BY <1>2
  <2>2. PICK x : x = propagateallRound(h, a[l], l + 1)
    OBVIOUS
  <2>3. PICK b : Continues(b, a, l, x)
    BY OneRoundMore, Zenon
  <2>4. ASSUME NEW n \in 0 .. l + 1
        PROVE  b[n] = IF n = 0 THEN h ELSE propagateallRound(h, b[n - 1], n)
    <3>1. CASE n = 0
      <4>1. 0 \in 0 .. l
        OBVIOUS
      <4>2. a[0] = h
        BY <2>1, <4>1, Zenon DEF propagateallRun
      <4> QED BY <2>3, <3>1, <4>1, <4>2, Zenon DEF Continues
    <3>2. CASE n \in 0 .. l /\ n # 0
      <4>1. n - 1 \in 0 .. l
        BY <3>2
      <4>2. a[n] = propagateallRound(h, a[n - 1], n)
        BY <2>1, <3>2, Zenon DEF propagateallRun
      <4> QED BY <2>3, <3>2, <4>1, <4>2, Zenon DEF Continues
    <3>3. CASE n = l + 1
      <4>1. l + 1 # 0 /\ (l + 1) - 1 = l /\ l \in 0 .. l
        OBVIOUS
      <4> QED BY <2>2, <2>3, <3>3, <4>1, Zenon DEF Continues
    <3> QED BY <3>1, <3>2, <3>3
  <2>5. propagateallRun(b, h, l + 1)
    BY <2>3, <2>4, Zenon DEF propagateallRun, Continues
  <2>6. l + 1 \in Nat
    OBVIOUS
  <2> QED BY <2>5, <2>6, Zenon
<1> HIDE DEF S
<1>3. m \in S
  BY <1>1, <1>2, NumberInduction
<1> QED BY <1>3, Zenon DEF S

(* So does propagateall. *)
LEMMA propagateallDarker ==
  ASSUME NEW h, Shape(h), IsList(stack)
  PROVE  Darker(h, propagateall(h))
<1>1. Cardinality(Addresses) + 2 \in Nat
  BY GCAssumption, FS_CardinalityType
<1>2. PICK after :
        propagateallRun(after, h, Cardinality(Addresses) + 2)
          /\ propagateall(h) = after[Cardinality(Addresses) + 2]
  <2>1. \E a : propagateallRun(a, h, Cardinality(Addresses) + 2)
    BY <1>1, propagateallRounds, Zenon
  <2>2. propagateall(h)
          = (CHOOSE a : propagateallRun(a, h,
            Cardinality(Addresses) + 2))[Cardinality(Addresses) + 2]
    BY Zenon DEF propagateall, propagateallRun, propagateallRound
  <2> QED BY <2>1, <2>2, Zenon
<1> DEFINE S == {n \in Nat : n <= Cardinality(Addresses) + 2 => Darker(h, after[n])}
<1>3. 0 \in S
  <2>1. 0 \in 0 .. Cardinality(Addresses) + 2
    BY <1>1
  <2>2. after[0] = h
    BY <1>2, <2>1, Zenon DEF propagateallRun
  <2> QED BY <1>1, <2>2, KinItself
<1>4. ASSUME NEW m \in Nat, m \in S PROVE m + 1 \in S
  <2> SUFFICES ASSUME m + 1 <= Cardinality(Addresses) + 2
        PROVE Darker(h, after[m + 1])
    BY m + 1 \in Nat, Zenon
  <2>1. PICK x, y : x = after[m] /\ y = after[m + 1]
    OBVIOUS
  <2>2. /\ m + 1 \in 0 .. Cardinality(Addresses) + 2 /\ m + 1 # 0 /\ (m + 1) - 1 = m
        /\ m <= Cardinality(Addresses) + 2
           /\ m + 1 \in 1 .. Cardinality(Addresses) + 2
    BY <1>1
  <2>3. Darker(h, x)
    BY <1>4, <2>1, <2>2
  <2>4. y = propagateallRound(h, x, m + 1)
    BY <1>2, <2>1, <2>2, Zenon DEF propagateallRun
  <2>5. Shape(x)
    BY <2>3, DarkerShape
  <2>6. Darker(x, y)
    BY <2>4, <2>5, propagatemarkDarker, KinItself DEF propagateallRound
  <2> QED BY <2>1, <2>3, <2>6, DarkerTwice, Zenon
<1> HIDE DEF S
<1>5. Cardinality(Addresses) + 2 \in S
  BY <1>1, <1>3, <1>4, NumberInduction
<1>6. Cardinality(Addresses) + 2 <= Cardinality(Addresses) + 2
  BY <1>1
<1> QED BY <1>2, <1>5, <1>6, Zenon DEF S

(* The rounds of marktmu. *)
marktmuRound(h, x, n) == reallymarkobject(makewhite(x, h.tmudata[n]), h.tmudata[n])
marktmuRun(a, h, m) ==
  a = [n \in 0 .. m |-> IF n = 0 THEN h ELSE marktmuRound(h, a[n - 1], n)]

(* The loop of marktmu has a result for each number of rounds. *)
LEMMA marktmuRounds ==
  ASSUME NEW h, NEW m \in Nat
  PROVE  \E a : marktmuRun(a, h, m)
<1> DEFINE S == {l \in Nat : \E a : marktmuRun(a, h, l)}
<1>1. 0 \in S
  <2>1. PICK a : a = [n \in 0 .. 0 |-> h]
    OBVIOUS
  <2>2. \A n \in 0 .. 0 : n = 0
    OBVIOUS
  <2>3. marktmuRun(a, h, 0)
    BY <2>1, <2>2, Zenon DEF marktmuRun
  <2> QED BY <2>3
<1>2. ASSUME NEW l \in Nat, l \in S PROVE l + 1 \in S
  <2>1. PICK a : marktmuRun(a, h, l)
    BY <1>2
  <2>2. PICK x : x = marktmuRound(h, a[l], l + 1)
    OBVIOUS
  <2>3. PICK b : Continues(b, a, l, x)
    BY OneRoundMore, Zenon
  <2>4. ASSUME NEW n \in 0 .. l + 1
        PROVE  b[n] = IF n = 0 THEN h ELSE marktmuRound(h, b[n - 1], n)
    <3>1. CASE n = 0
      <4>1. 0 \in 0 .. l
        OBVIOUS
      <4>2. a[0] = h
        BY <2>1, <4>1, Zenon DEF marktmuRun
      <4> QED BY <2>3, <3>1, <4>1, <4>2, Zenon DEF Continues
    <3>2. CASE n \in 0 .. l /\ n # 0
      <4>1. n - 1 \in 0 .. l
        BY <3>2
      <4>2. a[n] = marktmuRound(h, a[n - 1], n)
        BY <2>1, <3>2, Zenon DEF marktmuRun
      <4> QED BY <2>3, <3>2, <4>1, <4>2, Zenon DEF Continues
    <3>3. CASE n = l + 1
      <4>1. l + 1 # 0 /\ (l + 1) - 1 = l /\ l \in 0 .. l
        OBVIOUS
      <4> QED BY <2>2, <2>3, <3>3, <4>1, Zenon DEF Continues
    <3> QED BY <3>1, <3>2, <3>3
  <2>5. marktmuRun(b, h, l + 1)
    BY <2>3, <2>4, Zenon DEF marktmuRun, Continues
  <2>6. l + 1 \in Nat
    OBVIOUS
  <2> QED BY <2>5, <2>6, Zenon
<1> HIDE DEF S
<1>3. m \in S
  BY <1>1, <1>2, NumberInduction
<1> QED BY <1>3, Zenon DEF S

(* marktmu lightens what waits for its finalizer, and nothing else. *)
LEMMA marktmuDarker ==
  ASSUME NEW h, Shape(h), IsList(h.tmudata)
  PROVE  Darker(h, marktmu(h))
<1>1. Len(h.tmudata) \in Nat
  BY ListFacts
<1>2. PICK after :
        marktmuRun(after, h, Len(h.tmudata)) /\ marktmu(h) = after[Len(h.tmudata)]
  <2>1. \E a : marktmuRun(a, h, Len(h.tmudata))
    BY <1>1, marktmuRounds, Zenon
  <2>2. marktmu(h) = (CHOOSE a : marktmuRun(a, h, Len(h.tmudata)))[Len(h.tmudata)]
    BY Zenon DEF marktmu, marktmuRun, marktmuRound
  <2> QED BY <2>1, <2>2, Zenon
<1> DEFINE S == {n \in Nat : n <= Len(h.tmudata) => Darker(h, after[n])}
<1>3. 0 \in S
  <2>1. 0 \in 0 .. Len(h.tmudata)
    BY <1>1
  <2>2. after[0] = h
    BY <1>2, <2>1, Zenon DEF marktmuRun
  <2> QED BY <1>1, <2>2, KinItself
<1>4. ASSUME NEW m \in Nat, m \in S PROVE m + 1 \in S
  <2> SUFFICES ASSUME m + 1 <= Len(h.tmudata) PROVE Darker(h, after[m + 1])
    BY m + 1 \in Nat, Zenon
  <2>1. PICK x, y : x = after[m] /\ y = after[m + 1]
    OBVIOUS
  <2>2. /\ m + 1 \in 0 .. Len(h.tmudata) /\ m + 1 # 0 /\ (m + 1) - 1 = m
        /\ m <= Len(h.tmudata) /\ m + 1 \in 1 .. Len(h.tmudata)
    BY <1>1
  <2>3. Darker(h, x)
    BY <1>4, <2>1, <2>2
  <2>4. y = marktmuRound(h, x, m + 1)
    BY <1>2, <2>1, <2>2, Zenon DEF marktmuRun
  <2>5. Shape(x) /\ x.tmudata = h.tmudata
    BY <2>3, Zenon DEF Darker, Kin, Same
  <2>6. PICK u, w : u = h.tmudata[m + 1] /\ w = makewhite(x, u)
    OBVIOUS
  <2>7. u \in Range(x.tmudata)
    BY <2>2, <2>5, <2>6, ListFacts
  <2>8. Darker(x, w) /\ Shape(w)
    BY <2>5, <2>6, <2>7, MakewhiteKin, DarkerShape
  <2>9. Darker(w, y)
    BY <2>4, <2>6, <2>8, reallymarkobjectDarker DEF marktmuRound
  <2>10. Darker(x, y)
    BY <2>8, <2>9, DarkerTwice, Zenon
  <2> QED BY <2>1, <2>3, <2>10, DarkerTwice, Zenon
<1> HIDE DEF S
<1>5. Len(h.tmudata) \in S
  BY <1>1, <1>3, <1>4, NumberInduction
<1>6. Len(h.tmudata) <= Len(h.tmudata)
  BY <1>1
<1> QED BY <1>2, <1>5, <1>6, Zenon DEF S

(* The rounds of remarkupvals. *)
remarkupvalsRound(h, x, n) ==
  IF isgray(x, h.openupval[n])
    THEN markobject(x, ValueOf(x.obj[h.openupval[n]])) ELSE x
remarkupvalsRun(a, h, m) ==
  a = [n \in 0 .. m |-> IF n = 0 THEN h ELSE remarkupvalsRound(h, a[n - 1], n)]

(* The loop of remarkupvals has a result for each number of rounds. *)
LEMMA remarkupvalsRounds ==
  ASSUME NEW h, NEW m \in Nat
  PROVE  \E a : remarkupvalsRun(a, h, m)
<1> DEFINE S == {l \in Nat : \E a : remarkupvalsRun(a, h, l)}
<1>1. 0 \in S
  <2>1. PICK a : a = [n \in 0 .. 0 |-> h]
    OBVIOUS
  <2>2. \A n \in 0 .. 0 : n = 0
    OBVIOUS
  <2>3. remarkupvalsRun(a, h, 0)
    BY <2>1, <2>2, Zenon DEF remarkupvalsRun
  <2> QED BY <2>3
<1>2. ASSUME NEW l \in Nat, l \in S PROVE l + 1 \in S
  <2>1. PICK a : remarkupvalsRun(a, h, l)
    BY <1>2
  <2>2. PICK x : x = remarkupvalsRound(h, a[l], l + 1)
    OBVIOUS
  <2>3. PICK b : Continues(b, a, l, x)
    BY OneRoundMore, Zenon
  <2>4. ASSUME NEW n \in 0 .. l + 1
        PROVE  b[n] = IF n = 0 THEN h ELSE remarkupvalsRound(h, b[n - 1], n)
    <3>1. CASE n = 0
      <4>1. 0 \in 0 .. l
        OBVIOUS
      <4>2. a[0] = h
        BY <2>1, <4>1, Zenon DEF remarkupvalsRun
      <4> QED BY <2>3, <3>1, <4>1, <4>2, Zenon DEF Continues
    <3>2. CASE n \in 0 .. l /\ n # 0
      <4>1. n - 1 \in 0 .. l
        BY <3>2
      <4>2. a[n] = remarkupvalsRound(h, a[n - 1], n)
        BY <2>1, <3>2, Zenon DEF remarkupvalsRun
      <4> QED BY <2>3, <3>2, <4>1, <4>2, Zenon DEF Continues
    <3>3. CASE n = l + 1
      <4>1. l + 1 # 0 /\ (l + 1) - 1 = l /\ l \in 0 .. l
        OBVIOUS
      <4> QED BY <2>2, <2>3, <3>3, <4>1, Zenon DEF Continues
    <3> QED BY <3>1, <3>2, <3>3
  <2>5. remarkupvalsRun(b, h, l + 1)
    BY <2>3, <2>4, Zenon DEF remarkupvalsRun, Continues
  <2>6. l + 1 \in Nat
    OBVIOUS
  <2> QED BY <2>5, <2>6, Zenon
<1> HIDE DEF S
<1>3. m \in S
  BY <1>1, <1>2, NumberInduction
<1> QED BY <1>3, Zenon DEF S

(* remarkupvals only darkens. *)
LEMMA remarkupvalsDarker ==
  ASSUME NEW h, Shape(h), IsList(h.openupval)
  PROVE  Darker(h, remarkupvals(h))
<1>1. Len(h.openupval) \in Nat
  BY ListFacts
<1>2. PICK after :
        remarkupvalsRun(after, h, Len(h.openupval))
          /\ remarkupvals(h) = after[Len(h.openupval)]
  <2>1. \E a : remarkupvalsRun(a, h, Len(h.openupval))
    BY <1>1, remarkupvalsRounds, Zenon
  <2>2. remarkupvals(h)
          = (CHOOSE a : remarkupvalsRun(a, h, Len(h.openupval)))[Len(h.openupval)]
    BY Zenon DEF remarkupvals, remarkupvalsRun, remarkupvalsRound
  <2> QED BY <2>1, <2>2, Zenon
<1> DEFINE S == {n \in Nat : n <= Len(h.openupval) => Darker(h, after[n])}
<1>3. 0 \in S
  <2>1. 0 \in 0 .. Len(h.openupval)
    BY <1>1
  <2>2. after[0] = h
    BY <1>2, <2>1, Zenon DEF remarkupvalsRun
  <2> QED BY <1>1, <2>2, KinItself
<1>4. ASSUME NEW m \in Nat, m \in S PROVE m + 1 \in S
  <2> SUFFICES ASSUME m + 1 <= Len(h.openupval) PROVE Darker(h, after[m + 1])
    BY m + 1 \in Nat, Zenon
  <2>1. PICK x, y : x = after[m] /\ y = after[m + 1]
    OBVIOUS
  <2>2. /\ m + 1 \in 0 .. Len(h.openupval) /\ m + 1 # 0 /\ (m + 1) - 1 = m
        /\ m <= Len(h.openupval) /\ m + 1 \in 1 .. Len(h.openupval)
    BY <1>1
  <2>3. Darker(h, x)
    BY <1>4, <2>1, <2>2
  <2>4. y = remarkupvalsRound(h, x, m + 1)
    BY <1>2, <2>1, <2>2, Zenon DEF remarkupvalsRun
  <2>5. Shape(x)
    BY <2>3, DarkerShape
  <2>6. Darker(x, y)
    BY <2>4, <2>5, markobjectDarker, KinItself DEF remarkupvalsRound
  <2> QED BY <2>1, <2>3, <2>6, DarkerTwice, Zenon
<1> HIDE DEF S
<1>5. Len(h.openupval) \in S
  BY <1>1, <1>3, <1>4, NumberInduction
<1>6. Len(h.openupval) <= Len(h.openupval)
  BY <1>1
<1> QED BY <1>2, <1>5, <1>6, Zenon DEF S

(* cleartable takes entries from a weak table, and no object from the      *)
(* heap.                                                                   *)
LEMMA cleartableDarker ==
  ASSUME NEW h, Shape(h), NEW o
  PROVE  Darker(h, cleartable(h, o))
<1>1. PICK r : r = h.obj[o]
  OBVIOUS
<1>2. PICK k : k = MarkString(h, r.key)
  OBVIOUS
<1>3. PICK v : v = MarkString(k, r.val)
  OBVIOUS
<1>4. Darker(h, k) /\ Shape(k)
  BY <1>2, PaintDarker, KinItself, DarkerShape DEF MarkString
<1>5. Darker(k, v) /\ Shape(v)
  BY <1>3, <1>4, PaintDarker, KinItself, DarkerShape DEF MarkString
<1>6. ASSUME NEW x, Shape(x)
      PROVE  Darker(x, [x EXCEPT !.obj[o].key = Null, !.obj[o].val = Null])
  <2>1. PICK y : y = [x EXCEPT !.obj[o].key = Null, !.obj[o].val = Null]
    OBVIOUS
  <2>2. Same(x, y) /\ \A z \in DOMAIN x.obj : Mark(y, z) = Mark(x, z)
    BY <1>6, <2>1, SMT DEF Shape, Same, Mark, Fields, ObjFields
  <2>3. Darker(x, y)
    BY <2>2, Zenon DEF Same, Darker, Kin, isdead, iswhite, otherwhite
  <2> QED BY <2>1, <2>3, Zenon
<1>7. PICK a, b, c, d : /\ a = Asserted(h, FALSE, "freed object in a weak table")
                        /\ b = [k EXCEPT !.obj[o].key = Null, !.obj[o].val = Null]
                        /\ c = [v EXCEPT !.obj[o].key = Null, !.obj[o].val = Null]
                        /\ d = cleartable(h, o)
  OBVIOUS
<1>8. d \in {h, a, b, c, v}
  BY <1>1, <1>2, <1>3, <1>7 DEF cleartable
<1>9. Darker(h, h) /\ Darker(h, a) /\ Darker(k, b) /\ Darker(v, c)
  BY <1>4, <1>5, <1>6, <1>7, KinItself, AssertedDarker
<1>10. Darker(h, v) /\ Darker(h, b)
  BY <1>4, <1>5, <1>9, DarkerTwice, Zenon
<1>11. Darker(h, c)
  BY <1>9, <1>10, DarkerTwice, Zenon
<1> QED BY <1>7, <1>8, <1>9, <1>10, <1>11, Zenon

(* The rounds of cleartables. *)
cleartablesRound(h, x, n) == cleartable(x, h.weak[n])
cleartablesRun(a, h, m) ==
  a = [n \in 0 .. m |-> IF n = 0 THEN h ELSE cleartablesRound(h, a[n - 1], n)]

(* The loop over the weak tables has a result for each number of rounds. *)
LEMMA cleartablesRounds ==
  ASSUME NEW h, NEW m \in Nat
  PROVE  \E a : cleartablesRun(a, h, m)
<1> DEFINE S == {l \in Nat : \E a : cleartablesRun(a, h, l)}
<1>1. 0 \in S
  <2>1. PICK a : a = [n \in 0 .. 0 |-> h]
    OBVIOUS
  <2>2. \A n \in 0 .. 0 : n = 0
    OBVIOUS
  <2>3. cleartablesRun(a, h, 0)
    BY <2>1, <2>2, Zenon DEF cleartablesRun
  <2> QED BY <2>3
<1>2. ASSUME NEW l \in Nat, l \in S PROVE l + 1 \in S
  <2>1. PICK a : cleartablesRun(a, h, l)
    BY <1>2
  <2>2. PICK x : x = cleartablesRound(h, a[l], l + 1)
    OBVIOUS
  <2>3. PICK b : Continues(b, a, l, x)
    BY OneRoundMore, Zenon
  <2>4. ASSUME NEW n \in 0 .. l + 1
        PROVE  b[n] = IF n = 0 THEN h ELSE cleartablesRound(h, b[n - 1], n)
    <3>1. CASE n = 0
      <4>1. 0 \in 0 .. l
        OBVIOUS
      <4>2. a[0] = h
        BY <2>1, <4>1, Zenon DEF cleartablesRun
      <4> QED BY <2>3, <3>1, <4>1, <4>2, Zenon DEF Continues
    <3>2. CASE n \in 0 .. l /\ n # 0
      <4>1. n - 1 \in 0 .. l
        BY <3>2
      <4>2. a[n] = cleartablesRound(h, a[n - 1], n)
        BY <2>1, <3>2, Zenon DEF cleartablesRun
      <4> QED BY <2>3, <3>2, <4>1, <4>2, Zenon DEF Continues
    <3>3. CASE n = l + 1
      <4>1. l + 1 # 0 /\ (l + 1) - 1 = l /\ l \in 0 .. l
        OBVIOUS
      <4> QED BY <2>2, <2>3, <3>3, <4>1, Zenon DEF Continues
    <3> QED BY <3>1, <3>2, <3>3
  <2>5. cleartablesRun(b, h, l + 1)
    BY <2>3, <2>4, Zenon DEF cleartablesRun, Continues
  <2>6. l + 1 \in Nat
    OBVIOUS
  <2> QED BY <2>5, <2>6, Zenon
<1> HIDE DEF S
<1>3. m \in S
  BY <1>1, <1>2, NumberInduction
<1> QED BY <1>3, Zenon DEF S

(* So does the loop over all weak tables. *)
LEMMA cleartablesDarker ==
  ASSUME NEW h, Shape(h)
  PROVE  Darker(h, cleartables(h))
<1>1. Len(h.weak) \in Nat
  BY ListFacts DEF Shape
<1>2. PICK after :
        cleartablesRun(after, h, Len(h.weak)) /\ cleartables(h) = after[Len(h.weak)]
  <2>1. \E a : cleartablesRun(a, h, Len(h.weak))
    BY <1>1, cleartablesRounds, Zenon
  <2>2. cleartables(h) = (CHOOSE a : cleartablesRun(a, h, Len(h.weak)))[Len(h.weak)]
    BY Zenon DEF cleartables, cleartablesRun, cleartablesRound
  <2> QED BY <2>1, <2>2, Zenon
<1> DEFINE S == {n \in Nat : n <= Len(h.weak) => Darker(h, after[n])}
<1>3. 0 \in S
  <2>1. 0 \in 0 .. Len(h.weak)
    BY <1>1
  <2>2. after[0] = h
    BY <1>2, <2>1, Zenon DEF cleartablesRun
  <2> QED BY <1>1, <2>2, KinItself
<1>4. ASSUME NEW m \in Nat, m \in S PROVE m + 1 \in S
  <2> SUFFICES ASSUME m + 1 <= Len(h.weak) PROVE Darker(h, after[m + 1])
    BY m + 1 \in Nat, Zenon
  <2>1. PICK x, y : x = after[m] /\ y = after[m + 1]
    OBVIOUS
  <2>2. /\ m + 1 \in 0 .. Len(h.weak) /\ m + 1 # 0 /\ (m + 1) - 1 = m
        /\ m <= Len(h.weak) /\ m + 1 \in 1 .. Len(h.weak)
    BY <1>1
  <2>3. Darker(h, x)
    BY <1>4, <2>1, <2>2
  <2>4. y = cleartablesRound(h, x, m + 1)
    BY <1>2, <2>1, <2>2, Zenon DEF cleartablesRun
  <2>5. Shape(x)
    BY <2>3, DarkerShape
  <2>6. Darker(x, y)
    BY <2>4, <2>5, cleartableDarker DEF cleartablesRound
  <2> QED BY <2>1, <2>3, <2>6, DarkerTwice, Zenon
<1> HIDE DEF S
<1>5. Len(h.weak) \in S
  BY <1>1, <1>3, <1>4, NumberInduction
<1>6. Len(h.weak) <= Len(h.weak)
  BY <1>1
<1> QED BY <1>2, <1>5, <1>6, Zenon DEF S
-----------------------------------------------------------------------------
(* Barriers *)

(* The backward barrier grays the table again: it only darkens. *)
LEMMA barrierbackDarker ==
  ASSUME NEW h, Shape(h), NEW t
  PROVE  Darker(h, barrierback(h, t))
<1>1. PICK a :
        a = Asserted(h, ~isdead(h, t) /\ h.gcstate \notin {"finalize", "pause"},
          "luaC_barrierback")
  OBVIOUS
<1>2. Darker(h, a) /\ Shape(a)
  BY <1>1, AssertedDarker, DarkerShape
<1>3. PICK b : b = Paint(a, t, "gray")
  OBVIOUS
<1>4. Darker(a, b) /\ Shape(b)
  BY <1>2, <1>3, PaintDarker, DarkerShape
<1>5. Elsewhere(b, [b EXCEPT !.grayagain = <<t>> \o @])
  BY <1>4 DEF Elsewhere, Shape, Fields
<1>6. Darker(b, [b EXCEPT !.grayagain = <<t>> \o @])
  BY <1>5, ElsewhereDarker
<1>7. Darker(h, b)
  BY <1>2, <1>4, DarkerTwice, Zenon
<1> QED BY <1>1, <1>3, <1>6, <1>7, DarkerTwice, Zenon DEF barrierback

(* The backward barrier only darkens, whether it has to act or not. *)
LEMMA luaC_barriertDarker ==
  ASSUME NEW h, Shape(h), NEW t, NEW v
  PROVE  Darker(h, luaC_barriert(h, t, v))
BY barrierbackDarker, KinItself DEF luaC_barriert

(* A value stored in a table leaves the marks alone. *)
LEMMA SetValDarker ==
  ASSUME NEW h, Shape(h), NEW t, NEW v
  PROVE  Darker(h, SetVal(h, t, v))
<1>1. PICK a : a = [h EXCEPT !.obj[t].val = v]
  OBVIOUS
<1>2. Darker(h, a) /\ Shape(a)
  BY <1>1, EntryDarker, DarkerShape
<1>3. Darker(a, luaC_barriert(a, t, v))
  BY <1>2, luaC_barriertDarker
<1> QED BY <1>1, <1>2, <1>3, DarkerTwice, Zenon DEF SetVal

(* The forward barrier kills nothing; while it sweeps it may turn the      *)
(* object that is written to white, but to the white of the living.        *)
LEMMA luaC_barrierKin ==
  ASSUME NEW h, Shape(h), NEW o, NEW v
  PROVE  Kin(h, luaC_barrier(h, o, v))
<1>1. PICK live, a :
        /\ live = Asserted(h, ~isdead(h, v) /\ ~isdead(h, o), "luaC_barrierf")
        /\ a = Asserted(live, h.gcstate \notin {"finalize", "pause"},
                        "luaC_barrierf phase")
  OBVIOUS
<1>2. Darker(h, a) /\ Shape(a)
  <2>1. Darker(h, live) /\ Shape(live)
    BY <1>1, AssertedDarker, DarkerShape
  <2>2. Darker(live, a)
    BY <1>1, <2>1, AssertedDarker
  <2> QED BY <2>1, <2>2, DarkerTwice, DarkerShape
<1>3. PICK b, c : b = reallymarkobject(a, v) /\ c = makewhite(a, o)
  OBVIOUS
<1>4. luaC_barrierf(h, o, v) \in {b, c}
  BY <1>1, <1>3 DEF luaC_barrierf
<1>5. Kin(a, b) /\ Kin(a, c)
  BY <1>2, <1>3, reallymarkobjectDarker, MakewhiteKin DEF Darker
<1>6. Kin(h, b) /\ Kin(h, c)
  BY <1>2, <1>5, KinTwice, Zenon DEF Darker
<1>7. Kin(h, luaC_barrierf(h, o, v))
  BY <1>4, <1>6
<1> QED BY <1>7, KinItself DEF luaC_barrier

-----------------------------------------------------------------------------
(* The invariant of the heap: the list of all udata, the queue of those    *)
(* that wait for their finalizer and the list of open upvalues hold no     *)
(* object twice, and none is on two of them.                               *)

Lists(h) ==
  /\ IsList(h.rootgc) /\ IsList(h.udata) /\ IsList(h.tmudata) /\ IsList(h.openupval)
  /\ IsInjective(h.udata) /\ IsInjective(h.tmudata) /\ IsInjective(h.openupval)
  /\ Range(h.udata) \cap Range(h.tmudata) = {}

(* What the lists hold. *)
Sorted(h) ==
  /\ \A o \in Range(h.udata) \cup Range(h.tmudata) :
     o \in DOMAIN h.obj /\ h.obj[o].tt = "udata"
  /\ \A o \in Range(h.rootgc) :
       /\ o \in DOMAIN h.obj /\ h.obj[o].tt \notin {"udata", "string"}
       /\ h.obj[o].tt = "upval" => h.obj[o].at = 0
  /\ \A o \in Range(h.openupval) :
       o \in DOMAIN h.obj /\ h.obj[o].tt = "upval" /\ h.obj[o].at > 0

(* A udata is noted as finalized, then waits for its finalizer, then has   *)
(* it called: on the queue no call was made yet, and one on the list again *)
(* that is noted as finalized has had it.                                  *)
Called(h) ==
  /\ \A o \in DOMAIN h.obj :
       /\ h.obj[o].calls \in {0, 1} /\ (h.obj[o].calls = 1 => h.obj[o].fin)
       /\ h.obj[o].gc => h.obj[o].tt = "udata"
  /\ \A o \in Range(h.tmudata) : h.obj[o].fin /\ h.obj[o].gc /\ h.obj[o].calls = 0
  /\ \A o \in Range(h.udata) : h.obj[o].fin /\ h.obj[o].gc => h.obj[o].calls = 1

(* No udata on the list is dead before its call, and none was missed. *)
Spared(h) ==
  /\ ~h.missed
  /\ \A o \in Range(h.udata) : isdead(h, o) /\ h.obj[o].gc => h.obj[o].calls = 1

HeapInv(h) == Shape(h) /\ Lists(h) /\ Sorted(h) /\ Called(h) /\ Spared(h)

(* Every udata that was there when lua_close began has had its call or     *)
(* waits for it.                                                           *)
Gathered(h) ==
  \A u \in Range(h.udata) : h.obj[u].gc /\ ~h.obj[u].late => h.obj[u].calls = 1

(* k satisfies the invariant, and is gathered if h is. *)
Keeps(h, k) == HeapInv(k) /\ k.tmudata = h.tmudata /\ (Gathered(h) => Gathered(k))

(* Two changes that keep both, one after the other, keep both. *)
LEMMA KeepsTwice ==
  ASSUME NEW h, NEW k, NEW l, Keeps(h, k), Keeps(k, l)
  PROVE  Keeps(h, l)
BY Zenon DEF Keeps

(* k is what is left of h when objects are freed. *)
Smaller(h, k) ==
  /\ Shape(k)
  /\ DOMAIN k.obj \subseteq DOMAIN h.obj
  /\ \A o \in DOMAIN k.obj :
       /\ k.obj[o].tt = h.obj[o].tt /\ k.obj[o].at = h.obj[o].at
       /\ k.obj[o].fin = h.obj[o].fin /\ k.obj[o].gc = h.obj[o].gc
       /\ k.obj[o].calls = h.obj[o].calls
       /\ isdead(k, o) => isdead(h, o)
  /\ Lists(k)
  /\ Range(k.rootgc) \subseteq Range(h.rootgc) \cap DOMAIN k.obj
  /\ Range(k.udata) \subseteq Range(h.udata) \cap DOMAIN k.obj
  /\ Range(k.tmudata) \subseteq Range(h.tmudata) \cap DOMAIN k.obj
  /\ Range(k.openupval) \subseteq Range(h.openupval) \cap DOMAIN k.obj
  /\ ~k.missed

(* What is left when objects are freed satisfies the invariant. *)
LEMMA SmallerHeap ==
  ASSUME NEW h, HeapInv(h), NEW k, Smaller(h, k)
  PROVE  HeapInv(k)
<1>1. Sorted(k)
  BY DEF HeapInv, Smaller, Sorted
<1>2. Called(k)
  BY DEF HeapInv, Smaller, Called, Sorted
<1>3. Spared(k)
  BY DEF HeapInv, Smaller, Spared, Sorted
<1> QED BY <1>1, <1>2, <1>3 DEF HeapInv, Smaller

(* So does what has other marks, as long as nothing has died. *)
LEMMA KinHeap ==
  ASSUME NEW h, HeapInv(h), NEW k, Kin(h, k)
  PROVE  HeapInv(k)
<1>1. Same(h, k) /\ \A o \in DOMAIN h.obj : isdead(k, o) => isdead(h, o)
  BY Zenon DEF Kin
<1>2. Lists(k)
  BY <1>1 DEF HeapInv, Lists, Same
<1>3. ~k.missed /\ ~h.missed
  BY <1>1 DEF HeapInv, Spared, Same
<1>4. Smaller(h, k)
  BY <1>1, <1>2, <1>3 DEF HeapInv, Sorted, Same, Smaller
<1> QED BY <1>4, SmallerHeap

(* Such a heap is gathered if it was before. *)
LEMMA KinKeeps ==
  ASSUME NEW h, HeapInv(h), NEW k, Kin(h, k)
  PROVE  Keeps(h, k)
<1>1. Same(h, k)
  BY Zenon DEF Kin
<1>2. \A u \in Range(h.udata) : u \in DOMAIN h.obj
  BY DEF HeapInv, Sorted
<1>3. Gathered(h) => Gathered(k)
  BY <1>1, <1>2 DEF Gathered, Same
<1> QED BY <1>1, <1>3, KinHeap DEF Keeps, Same
-----------------------------------------------------------------------------
(* Sweeping *)

(* The list is swept: what is dead goes, what is not turns white. *)
LEMMA SweptFacts ==
  ASSUME NEW h, Shape(h), NEW list, list \subseteq DOMAIN h.obj,
         NEW dead, dead = {o \in list : isdead(h, o)},
         NEW k, k = sweepwholelist(h, list)
  PROVE  /\ Shape(k) /\ DOMAIN k.obj = DOMAIN h.obj \ dead
         /\ \A o \in DOMAIN k.obj :
              /\ k.obj[o].tt = h.obj[o].tt /\ k.obj[o].at = h.obj[o].at
              /\ k.obj[o].fin = h.obj[o].fin /\ k.obj[o].gc = h.obj[o].gc
              /\ k.obj[o].calls = h.obj[o].calls
              /\ isdead(k, o) => isdead(h, o)
         /\ k.rootgc = h.rootgc /\ k.udata = h.udata /\ k.tmudata = h.tmudata
         /\ k.openupval = h.openupval
         /\ (\A o \in dead : h.obj[o].gc => h.obj[o].calls = 1) /\ ~h.missed
            => ~k.missed
<1>1. PICK w : w = [h EXCEPT !.obj = [o \in DOMAIN @ |-> IF o \in list
                                  THEN [@[o] EXCEPT !.mark = h.currentwhite]
                                    ELSE @[o]]]
  OBVIOUS
<1>2. /\ Shape(w) /\ DOMAIN w.obj = DOMAIN h.obj
      /\ w.rootgc = h.rootgc /\ w.udata = h.udata /\ w.tmudata = h.tmudata
      /\ w.openupval = h.openupval /\ w.missed = h.missed
         /\ w.currentwhite = h.currentwhite
      /\ w.weak = h.weak /\ w.gcstate = h.gcstate
  BY <1>1, SMT DEF Shape, Fields, ObjFields
<1>3. \A o \in DOMAIN h.obj :
              /\ w.obj[o].tt = h.obj[o].tt /\ w.obj[o].at = h.obj[o].at
              /\ w.obj[o].fin = h.obj[o].fin /\ w.obj[o].gc = h.obj[o].gc
              /\ w.obj[o].calls = h.obj[o].calls
              /\ w.obj[o].mark = IF o \in list THEN h.currentwhite ELSE h.obj[o].mark
  BY <1>1, SMT DEF Shape, Fields, ObjFields
<1>4. k = Freed(w, dead)
  BY <1>1 DEF sweepwholelist
<1>5. /\ k.rootgc = h.rootgc /\ k.udata = h.udata /\ k.tmudata = h.tmudata
      /\ k.openupval = h.openupval /\ k.currentwhite = h.currentwhite
         /\ k.weak = h.weak /\ k.gcstate = h.gcstate
      /\ k.obj = [o \in DOMAIN w.obj \ dead |-> w.obj[o]]
      /\ k.missed = (w.missed \/ \E o \in dead : w.obj[o].gc /\ w.obj[o].calls = 0)
      /\ DOMAIN k = Fields
  BY <1>2, <1>4, SMT DEF Freed, Shape, Fields
<1>6. DOMAIN k.obj = DOMAIN h.obj \ dead /\ \A o \in DOMAIN k.obj :
        k.obj[o] = w.obj[o]
  BY <1>2, <1>5
<1>7. Shape(k)
  BY <1>2, <1>5, <1>6 DEF Shape
<1>8. Other(h.currentwhite) # h.currentwhite
  BY WhiteFacts
<1>9. \A o \in DOMAIN k.obj : isdead(k, o) => isdead(h, o)
  BY <1>3, <1>5, <1>6, <1>8 DEF isdead, otherwhite, Mark
<1>10. ASSUME \A o \in dead : h.obj[o].gc => h.obj[o].calls = 1, ~h.missed
         PROVE ~k.missed
  <2>1. \A o \in dead : o \in DOMAIN h.obj
    OBVIOUS
  <2>2. \A o \in dead : w.obj[o].gc => w.obj[o].calls # 0
    BY <1>3, <1>10, <2>1
  <2> QED BY <1>2, <1>5, <1>10, <2>2
<1> QED BY <1>3, <1>5, <1>6, <1>7, <1>9, <1>10

(* What is left of the lists. *)
LEMMA RelinkedFacts ==
  ASSUME NEW h, Shape(h), NEW k, k = Relinked(h),
         IsList(h.rootgc), IsList(h.udata), IsList(h.openupval)
  PROVE  /\ Shape(k) /\ k.obj = h.obj /\ k.tmudata = h.tmudata /\ k.missed = h.missed
         /\ k.currentwhite = h.currentwhite
         /\ IsList(k.rootgc) /\ IsList(k.udata) /\ IsList(k.openupval)
         /\ IsInjective(h.udata) => IsInjective(k.udata)
         /\ IsInjective(h.openupval) => IsInjective(k.openupval)
         /\ Range(k.rootgc) = Range(h.rootgc) \cap DOMAIN h.obj
         /\ Range(k.udata) = Range(h.udata) \cap DOMAIN h.obj
         /\ Range(k.openupval) = Range(h.openupval) \cap DOMAIN h.obj
<1>1. /\ k.rootgc = Members(h.rootgc, DOMAIN h.obj)
      /\ k.udata = Members(h.udata, DOMAIN h.obj)
      /\ k.openupval = Members(h.openupval, DOMAIN h.obj)
      /\ Shape(k) /\ k.obj = h.obj /\ k.tmudata = h.tmudata /\ k.missed = h.missed
      /\ k.currentwhite = h.currentwhite
  BY SMT DEF Relinked, Shape, Fields
<1> QED BY <1>1, MembersFacts

(* A swept part of the heap. *)
LEMMA SweepHeap ==
  ASSUME NEW h, HeapInv(h), NEW list, list \subseteq DOMAIN h.obj,
         \A o \in list : o \in Range(h.udata) \/ h.obj[o].tt # "udata",
         NEW k, k = sweepwholelist(h, list)
  PROVE  /\ Shape(k) /\ ~k.missed /\ DOMAIN k.obj \subseteq DOMAIN h.obj
         /\ \A o \in DOMAIN k.obj :
              /\ k.obj[o].tt = h.obj[o].tt /\ k.obj[o].at = h.obj[o].at
              /\ k.obj[o].fin = h.obj[o].fin /\ k.obj[o].gc = h.obj[o].gc
              /\ k.obj[o].calls = h.obj[o].calls
              /\ isdead(k, o) => isdead(h, o)
         /\ k.rootgc = h.rootgc /\ k.udata = h.udata /\ k.tmudata = h.tmudata
         /\ k.openupval = h.openupval
         /\ Range(h.tmudata) \subseteq DOMAIN k.obj
         /\ DOMAIN h.obj \ list \subseteq DOMAIN k.obj
<1>1. PICK dead : dead = {o \in list : isdead(h, o)}
  OBVIOUS
<1>2. \A o \in dead : h.obj[o].gc => h.obj[o].calls = 1
  BY <1>1 DEF HeapInv, Spared, Called
<1>3. ~h.missed /\ Shape(h)
  BY DEF HeapInv, Spared
<1>4. Range(h.tmudata) \cap dead = {} /\ Range(h.tmudata) \subseteq DOMAIN h.obj
  BY <1>1 DEF HeapInv, Lists, Sorted
<1> QED BY <1>1, <1>2, <1>3, <1>4, SweptFacts

(* One sweep of up to GCSWEEPMAX objects keeps the invariant, wherever in  *)
(* the list it is.                                                         *)
LEMMA sweeplistHeap ==
  ASSUME NEW h, HeapInv(h), NEW count
  PROVE  HeapInv(sweeplist(h, count))
<1> DEFINE n == IF count < h.sweepgc THEN count ELSE h.sweepgc
           all == AllObjects(h)
           from == Len(all) - h.sweepgc
           part == {all[k] : k \in (from + 1 .. from + n) \intersect DOMAIN all}
           thread == MAIN \in part
           list == IF thread THEN (part \ {MAIN}) \union Range(h.openupval) ELSE part
<1>1. Range(all) = Range(h.rootgc) \cup {MAIN} \cup Range(h.udata)
  <2>1. IsList(h.rootgc) /\ IsList(h.udata)
    BY DEF HeapInv, Lists
  <2>2. PICK one : one = <<MAIN>>
    OBVIOUS
  <2>3. IsList(one) /\ Range(one) = {MAIN}
    BY <2>2, OneFacts
  <2>4. PICK front : front = h.rootgc \o one
    OBVIOUS
  <2>5. IsList(front) /\ Range(front) = Range(h.rootgc) \cup {MAIN}
    BY <2>1, <2>3, <2>4, ConcatFacts
  <2>6. Range(front \o h.udata) = Range(h.rootgc) \cup {MAIN} \cup Range(h.udata)
    BY <2>1, <2>5, ConcatFacts
  <2>7. all = front \o h.udata
    BY <2>2, <2>4 DEF AllObjects
  <2> QED BY <2>6, <2>7, Zenon
<1> HIDE DEF all
<1>2. part \subseteq Range(all)
  BY DEF Range
<1> HIDE DEF part
<1>3. list \subseteq Range(h.rootgc) \cup Range(h.udata) \cup Range(h.openupval)
  BY <1>1, <1>2
<1> HIDE DEF list
<1>4. list \subseteq DOMAIN h.obj /\ \A o \in list :
        o \in Range(h.udata) \/ h.obj[o].tt # "udata"
  BY <1>3 DEF HeapInv, Sorted
<1>5. PICK s : s = sweepwholelist(h, list)
  OBVIOUS
<1>6. PICK t :
        t = [s EXCEPT !.sweepgc = @ - n,
                      !.main = IF thread THEN h.currentwhite ELSE @]
  OBVIOUS
<1>7. sweeplist(h, count) = Relinked(t)
  BY <1>5, <1>6 DEF sweeplist, list, part, all
<1>8. /\ Shape(s) /\ ~s.missed /\ DOMAIN s.obj \subseteq DOMAIN h.obj
      /\ \A o \in DOMAIN s.obj :
              /\ s.obj[o].tt = h.obj[o].tt /\ s.obj[o].at = h.obj[o].at
              /\ s.obj[o].fin = h.obj[o].fin /\ s.obj[o].gc = h.obj[o].gc
              /\ s.obj[o].calls = h.obj[o].calls
              /\ isdead(s, o) => isdead(h, o)
      /\ s.rootgc = h.rootgc /\ s.udata = h.udata /\ s.tmudata = h.tmudata
      /\ s.openupval = h.openupval
      /\ Range(h.tmudata) \subseteq DOMAIN s.obj
  BY <1>4, <1>5, SweepHeap
<1>9. /\ Shape(t) /\ t.obj = s.obj /\ t.missed = s.missed
      /\ t.currentwhite = s.currentwhite
      /\ t.rootgc = s.rootgc /\ t.udata = s.udata /\ t.tmudata = s.tmudata
      /\ t.openupval = s.openupval
  <2> HIDE DEF n, thread
  <2> QED BY <1>6, <1>8 DEF Shape, Fields
<1>10. Lists(h)
  BY DEF HeapInv
<1>11. PICK k : k = Relinked(t)
  OBVIOUS
<1>12. /\ Shape(k) /\ k.obj = t.obj /\ k.tmudata = t.tmudata /\ k.missed = t.missed
       /\ k.currentwhite = t.currentwhite
       /\ IsList(k.rootgc) /\ IsList(k.udata) /\ IsList(k.openupval)
       /\ IsInjective(k.udata) /\ IsInjective(k.openupval)
       /\ Range(k.rootgc) = Range(h.rootgc) \cap DOMAIN s.obj
       /\ Range(k.udata) = Range(h.udata) \cap DOMAIN s.obj
       /\ Range(k.openupval) = Range(h.openupval) \cap DOMAIN s.obj
  <2>1. /\ t.rootgc = h.rootgc /\ t.udata = h.udata /\ t.openupval = h.openupval
        /\ IsList(t.rootgc) /\ IsList(t.udata) /\ IsList(t.openupval)
        /\ IsInjective(t.udata) /\ IsInjective(t.openupval)
    BY <1>8, <1>9, <1>10, Zenon DEF Lists
  <2>2. Shape(t) /\ t.obj = s.obj
    BY <1>9
  <2>3. /\ Shape(k) /\ k.obj = t.obj /\ k.tmudata = t.tmudata /\ k.missed = t.missed
        /\ k.currentwhite = t.currentwhite
        /\ IsList(k.rootgc) /\ IsList(k.udata) /\ IsList(k.openupval)
        /\ IsInjective(k.udata) /\ IsInjective(k.openupval)
        /\ Range(k.rootgc) = Range(t.rootgc) \cap DOMAIN t.obj
        /\ Range(k.udata) = Range(t.udata) \cap DOMAIN t.obj
        /\ Range(k.openupval) = Range(t.openupval) \cap DOMAIN t.obj
    BY <1>11, <2>1, <2>2, RelinkedFacts
  <2> QED BY <2>1, <2>2, <2>3
<1>13. \A o \in DOMAIN k.obj : isdead(k, o) => isdead(h, o)
  BY <1>8, <1>9, <1>12 DEF isdead, otherwhite, Mark
<1>14. Lists(k)
  BY <1>8, <1>9, <1>10, <1>12 DEF Lists
<1>15. Smaller(h, k)
  BY <1>8, <1>9, <1>12, <1>13, <1>14 DEF Smaller
<1> QED BY <1>7, <1>11, <1>15, SmallerHeap

(* The sweep of one bucket of the string table keeps the invariant: no     *)
(* udata is a string.                                                      *)
LEMMA SweepBucketHeap ==
  ASSUME NEW h, HeapInv(h), NEW b
  PROVE  HeapInv(SweepBucket(h, b))
<1>1. PICK list : list = StringsIn(h, b)
  OBVIOUS
<1>2. list \subseteq DOMAIN h.obj /\ \A o \in list : h.obj[o].tt = "string"
  BY <1>1 DEF StringsIn, isstring
<1>3. PICK k : k = sweepwholelist(h, list)
  OBVIOUS
<1>4. /\ Shape(k) /\ ~k.missed /\ DOMAIN k.obj \subseteq DOMAIN h.obj
      /\ \A o \in DOMAIN k.obj :
              /\ k.obj[o].tt = h.obj[o].tt /\ k.obj[o].at = h.obj[o].at
              /\ k.obj[o].fin = h.obj[o].fin /\ k.obj[o].gc = h.obj[o].gc
              /\ k.obj[o].calls = h.obj[o].calls
              /\ isdead(k, o) => isdead(h, o)
      /\ k.rootgc = h.rootgc /\ k.udata = h.udata /\ k.tmudata = h.tmudata
      /\ k.openupval = h.openupval
      /\ Range(h.tmudata) \subseteq DOMAIN k.obj
      /\ DOMAIN h.obj \ list \subseteq DOMAIN k.obj
  <2>1. \A o \in list : h.obj[o].tt # "udata"
    BY <1>2
  <2> QED BY <1>2, <1>3, <2>1, SweepHeap
<1>5. /\ Range(h.rootgc) \subseteq DOMAIN k.obj
      /\ Range(h.udata) \subseteq DOMAIN k.obj
      /\ Range(h.openupval) \subseteq DOMAIN k.obj
  BY <1>2, <1>4 DEF HeapInv, Sorted
<1>6. Lists(k)
  BY <1>4 DEF HeapInv, Lists
<1>7. Smaller(h, k)
  BY <1>4, <1>5, <1>6 DEF Smaller
<1> QED BY <1>1, <1>3, <1>7, SmallerHeap DEF SweepBucket
-----------------------------------------------------------------------------
(* The phases *)

(* No white udata, or none at all, has a call to come and does not wait. *)
AllDue(h, all) ==
  \A u \in Range(h.udata) :
    (iswhite(h, u) \/ all) /\ h.obj[u].gc => h.obj[u].calls = 1

(* luaC_separateudata keeps the invariant, and leaves no udata on its list *)
(* that is due: what it moves it notes as finalized and queues once.       *)
LEMMA luaC_separateudataHeap ==
  ASSUME NEW h, HeapInv(h), NEW all \in BOOLEAN,
         NEW k, k = luaC_separateudata(h, all)
  PROVE  HeapInv(k) /\ AllDue(k, all)
<1> DEFINE due == {u \in Range(h.udata) : (iswhite(h, u) \/ all) /\ ~h.obj[u].fin}
           moved == {u \in due : h.obj[u].gc}
<1>1. /\ Shape(k) /\ DOMAIN k.obj = DOMAIN h.obj
      /\ k.rootgc = h.rootgc /\ k.openupval = h.openupval /\ k.missed = h.missed
      /\ k.currentwhite = h.currentwhite
      /\ k.udata = Members(h.udata, Range(h.udata) \ moved)
      /\ k.tmudata = h.tmudata \o Members(h.udata, moved)
      /\ \A o \in DOMAIN h.obj :
              /\ k.obj[o].tt = h.obj[o].tt /\ k.obj[o].at = h.obj[o].at
              /\ k.obj[o].gc = h.obj[o].gc /\ k.obj[o].calls = h.obj[o].calls
              /\ k.obj[o].mark = h.obj[o].mark
              /\ o \in due => k.obj[o].fin = TRUE
              /\ o \notin due => k.obj[o].fin = h.obj[o].fin
  <2> HIDE DEF due
  <2>1. k = [h EXCEPT !.obj = [o \in DOMAIN @ |->
                                   IF o \in due THEN [@[o] EXCEPT !.fin = TRUE]
                                   ELSE @[o]],
                      !.udata = Members(@, Range(@) \ moved),
                !.tmudata = @ \o Members(h.udata, moved)]
    BY Zenon DEF luaC_separateudata, due
  <2> HIDE DEF moved
  <2>2. PICK left, new : /\ left = Members(h.udata, Range(h.udata) \ moved)
                         /\ new = h.tmudata \o Members(h.udata, moved)
    OBVIOUS
  <2>3. k = [h EXCEPT !.obj = [o \in DOMAIN @ |->
                                   IF o \in due THEN [@[o] EXCEPT !.fin = TRUE]
                                   ELSE @[o]],
                      !.udata = left, !.tmudata = new]
    BY <2>1, <2>2
  <2>4. /\ DOMAIN k = Fields
        /\ k.obj = [o \in DOMAIN h.obj |->
                      IF o \in due THEN [h.obj[o] EXCEPT !.fin = TRUE]
                      ELSE h.obj[o]]
        /\ k.rootgc = h.rootgc /\ k.openupval = h.openupval /\ k.missed = h.missed
        /\ k.currentwhite = h.currentwhite /\ k.weak = h.weak /\ k.gcstate = h.gcstate
        /\ k.udata = left /\ k.tmudata = new
    BY <2>3, SMT DEF HeapInv, Shape, Fields
  <2>5. DOMAIN k.obj = DOMAIN h.obj /\ \A o \in DOMAIN h.obj :
              /\ DOMAIN k.obj[o] = ObjFields
              /\ k.obj[o].tt = h.obj[o].tt /\ k.obj[o].at = h.obj[o].at
              /\ k.obj[o].gc = h.obj[o].gc /\ k.obj[o].calls = h.obj[o].calls
              /\ k.obj[o].mark = h.obj[o].mark
              /\ o \in due => k.obj[o].fin = TRUE
              /\ o \notin due => k.obj[o].fin = h.obj[o].fin
    <3>1. DOMAIN k.obj = DOMAIN h.obj
      BY <2>4, Zenon
    <3>2. ASSUME NEW o \in DOMAIN h.obj
          PROVE  /\ DOMAIN k.obj[o] = ObjFields
                 /\ k.obj[o].tt = h.obj[o].tt /\ k.obj[o].at = h.obj[o].at
                 /\ k.obj[o].gc = h.obj[o].gc /\ k.obj[o].calls = h.obj[o].calls
                 /\ k.obj[o].mark = h.obj[o].mark
                 /\ o \in due => k.obj[o].fin = TRUE
                 /\ o \notin due => k.obj[o].fin = h.obj[o].fin
      <4>1. DOMAIN h.obj[o] = ObjFields
        BY DEF HeapInv, Shape
      <4>2. CASE o \in due
        <5>1. k.obj[o] = [h.obj[o] EXCEPT !.fin = TRUE]
          BY <2>4, <4>2, Zenon
        <5> QED BY <4>1, <4>2, <5>1 DEF ObjFields
      <4>3. CASE o \notin due
        <5>1. k.obj[o] = h.obj[o]
          BY <2>4, <4>3, Zenon
        <5> QED BY <4>1, <4>3, <5>1
      <4> QED BY <4>2, <4>3
    <3> QED BY <3>1, <3>2
  <2>6. Shape(k)
    BY <2>4, <2>5 DEF HeapInv, Shape
  <2> QED BY <2>2, <2>4, <2>5, <2>6
<1>2. /\ Lists(h) /\ due \subseteq Range(h.udata) /\ moved \subseteq due
      /\ \A o \in moved : h.obj[o].gc /\ ~h.obj[o].fin
      /\ \A o \in due \ moved : ~h.obj[o].gc
      /\ \A o \in Range(h.udata) \ due : (iswhite(h, o) \/ all) => h.obj[o].fin
  BY DEF HeapInv
<1> HIDE DEF due, moved
<1>3. /\ IsList(k.udata) /\ IsInjective(k.udata)
         /\ Range(k.udata) = Range(h.udata) \ moved
  <2>1. Range(h.udata) \cap (Range(h.udata) \ moved) = Range(h.udata) \ moved
    OBVIOUS
  <2> QED BY <1>1, <1>2, <2>1, MembersFacts DEF Lists
<1>4. PICK new : new = Members(h.udata, moved)
  OBVIOUS
<1>5. IsList(new) /\ IsInjective(new) /\ Range(new) = moved
  <2>1. Range(h.udata) \cap moved = moved
    BY <1>2
  <2> QED BY <1>2, <1>4, <2>1, MembersFacts DEF Lists
<1>6. IsList(k.tmudata) /\ IsInjective(k.tmudata)
        /\ Range(k.tmudata) = Range(h.tmudata) \cup moved
  <2>1. Range(h.tmudata) \cap Range(new) = {}
    BY <1>2, <1>5 DEF Lists
  <2> QED BY <1>1, <1>2, <1>4, <1>5, <2>1, ConcatFacts DEF Lists
<1>7. Lists(k)
  BY <1>1, <1>2, <1>3, <1>6 DEF Lists
<1>8. Sorted(k)
  <2>1. Sorted(h)
    BY DEF HeapInv
  <2>2. Range(k.udata) \cup Range(k.tmudata) \subseteq Range(h.udata)
          \cup Range(h.tmudata)
    BY <1>2, <1>3, <1>6
  <2>3. /\ DOMAIN k.obj = DOMAIN h.obj /\ k.rootgc = h.rootgc
           /\ k.openupval = h.openupval
        /\ \A o \in DOMAIN h.obj :
           k.obj[o].tt = h.obj[o].tt /\ k.obj[o].at = h.obj[o].at
    BY <1>1, Zenon
  <2> QED BY <2>1, <2>2, <2>3 DEF Sorted
<1>9. \A o \in DOMAIN h.obj :
        h.obj[o].calls \in {0, 1} /\ (h.obj[o].calls = 1 => h.obj[o].fin)
  BY DEF HeapInv, Called
<1>10. Called(k)
  <2>1. \A o \in DOMAIN k.obj :
          /\ k.obj[o].calls \in {0, 1} /\ (k.obj[o].calls = 1 => k.obj[o].fin)
          /\ k.obj[o].gc => k.obj[o].tt = "udata"
    BY <1>1 DEF HeapInv, Called
  <2>2. ASSUME NEW o \in Range(k.tmudata)
          PROVE k.obj[o].fin /\ k.obj[o].gc /\ k.obj[o].calls = 0
    <3>1. CASE o \in moved
      BY <1>1, <1>2, <1>9, <3>1 DEF HeapInv, Sorted
    <3>2. CASE o \in Range(h.tmudata)
      BY <1>1, <3>2 DEF HeapInv, Sorted, Called
    <3> QED BY <1>6, <3>1, <3>2
  <2>3. ASSUME NEW o \in Range(k.udata), k.obj[o].fin, k.obj[o].gc
          PROVE k.obj[o].calls = 1
    <3>1. o \in Range(h.udata) /\ o \notin moved /\ o \in DOMAIN h.obj
      BY <1>3 DEF HeapInv, Sorted
    <3>2. o \notin due
      BY <1>1, <1>2, <2>3, <3>1
    <3> QED BY <1>1, <2>3, <3>1, <3>2 DEF HeapInv, Called
  <2> QED BY <2>1, <2>2, <2>3 DEF Called
<1>11. Spared(k)
  <2>1. \A o \in DOMAIN h.obj : isdead(k, o) => isdead(h, o)
    BY <1>1 DEF isdead, otherwhite, Mark
  <2>2. Spared(h) /\ Sorted(h) /\ Range(k.udata) \subseteq Range(h.udata)
    BY <1>3 DEF HeapInv
  <2>3. /\ k.missed = h.missed
        /\ \A o \in DOMAIN h.obj :
           k.obj[o].gc = h.obj[o].gc /\ k.obj[o].calls = h.obj[o].calls
    BY <1>1, Zenon
  <2> QED BY <2>1, <2>2, <2>3 DEF Spared, Sorted
<1>12. ASSUME NEW o \in Range(k.udata), iswhite(k, o) \/ all, k.obj[o].gc
         PROVE k.obj[o].calls = 1
  <2>1. o \in Range(h.udata) /\ o \notin moved /\ o \in DOMAIN h.obj
    BY <1>3 DEF HeapInv, Sorted
  <2>2. iswhite(h, o) \/ all
    BY <1>1, <1>12, <2>1 DEF iswhite, Mark
  <2>3. o \notin due
    BY <1>1, <1>2, <1>12, <2>1
  <2>4. h.obj[o].fin /\ h.obj[o].gc
    BY <1>1, <1>2, <1>12, <2>1, <2>2, <2>3
  <2>5. h.obj[o].calls = 1
    BY <2>1, <2>4 DEF HeapInv, Called
  <2> QED BY <1>1, <2>1, <2>5
<1> QED BY <1>1, <1>7, <1>8, <1>10, <1>11, <1>12 DEF HeapInv, AllDue

(* What only darkens makes no udata due that was not. *)
LEMMA AllDueDarker ==
  ASSUME NEW h, HeapInv(h), AllDue(h, FALSE), NEW k, Darker(h, k)
  PROVE  HeapInv(k) /\ AllDue(k, FALSE)
<1>1. Kin(h, k) /\ \A o \in DOMAIN h.obj \ Range(h.tmudata) :
        iswhite(k, o) => iswhite(h, o)
  BY Zenon DEF Darker
<1>2. Same(h, k)
  BY <1>1, Zenon DEF Kin
<1>3. \A u \in Range(h.udata) : u \in DOMAIN h.obj /\ u \notin Range(h.tmudata)
  BY DEF HeapInv, Lists, Sorted
<1>4. AllDue(k, FALSE)
  BY <1>1, <1>2, <1>3 DEF AllDue, Same
<1> QED BY <1>1, <1>4, KinHeap

(* What only darkens keeps the invariant. *)
LEMMA DarkerHeap ==
  ASSUME NEW h, HeapInv(h), NEW k, Darker(h, k)
  PROVE  HeapInv(k)
BY KinHeap DEF Darker

(* So does what changes neither marks nor objects. *)
LEMMA ElsewhereHeap ==
  ASSUME NEW h, HeapInv(h), NEW k, Elsewhere(h, k)
  PROVE  HeapInv(k)
BY DarkerHeap, ElsewhereDarker

(* And a gathered heap stays gathered through both. *)
LEMMA DarkerKeeps ==
  ASSUME NEW h, HeapInv(h), NEW k, Darker(h, k) \/ Elsewhere(h, k)
  PROVE  Keeps(h, k)
BY KinKeeps, ElsewhereDarker DEF Darker

(* The start of a cycle keeps the invariant. *)
LEMMA markrootHeap ==
  ASSUME NEW h, HeapInv(h)
  PROVE  Keeps(h, markroot(h))
<1>1. PICK r : r = [h EXCEPT !.gray = IF h.main \in Whites THEN <<MAIN>> ELSE <<>>,
                         !.grayagain = <<>>, !.weak = <<>>, !.main = "gray"]
  OBVIOUS
<1>2. Elsewhere(h, r)
  BY <1>1, EmptyFacts DEF Elsewhere, HeapInv, Shape, Fields
<1>3. Keeps(h, r) /\ HeapInv(r) /\ Shape(r)
  BY <1>2, DarkerKeeps DEF HeapInv, Keeps
<1>4. PICK m : m = markobject(r, Globals)
  OBVIOUS
<1>5. Keeps(r, m) /\ HeapInv(m)
  BY <1>3, <1>4, markobjectDarker, DarkerKeeps DEF Keeps
<1>6. PICK k : k = [m EXCEPT !.gcstate = "propagate"]
  OBVIOUS
<1>7. Elsewhere(m, k)
  BY <1>5, <1>6 DEF Elsewhere, HeapInv, Shape, Fields, Phases
<1>8. Keeps(m, k)
  BY <1>5, <1>7, DarkerKeeps
<1>9. markroot(h) = k
  BY <1>1, <1>4, <1>6 DEF markroot
<1> QED BY <1>3, <1>5, <1>8, <1>9, KeepsTwice

(* atomic keeps the invariant: it flips the white last, when every udata   *)
(* that is still white has been called or waits for its call. This is the  *)
(* step after which a udata on its list may be dead.                       *)
LEMMA atomicHeap ==
  ASSUME NEW h0, HeapInv(h0), IsList(stack)
  PROVE  HeapInv(atomic(h0))
<1>1. PICK a : a = remarkupvals(h0)
  OBVIOUS
<1>2. HeapInv(a) /\ Shape(a)
  BY <1>1, remarkupvalsDarker, DarkerHeap DEF HeapInv, Lists
<1>3. PICK upvals : upvals = propagateall(a)
  OBVIOUS
<1>4. HeapInv(upvals) /\ Shape(upvals)
  BY <1>2, <1>3, propagateallDarker, DarkerHeap DEF HeapInv
<1>5. PICK c : c = Asserted(upvals, upvals.main \notin Whites, "atomic")
  OBVIOUS
<1>6. HeapInv(c) /\ Shape(c) /\ IsList(<<>>)
  BY <1>4, <1>5, AssertedDarker, DarkerHeap, EmptyFacts DEF HeapInv
<1>7. PICK b : b = GrayWeak(upvals)
  OBVIOUS
<1>8. HeapInv(b) /\ Shape(b)
  <2>1. Elsewhere(c, b)
    BY <1>5, <1>6, <1>7 DEF GrayWeak, Elsewhere, Shape, Fields
  <2> QED BY <1>6, <2>1, ElsewhereHeap DEF HeapInv
<1>9. PICK weak : weak = propagateall(b)
  OBVIOUS
<1>10. HeapInv(weak) /\ Shape(weak)
  BY <1>8, <1>9, propagateallDarker, DarkerHeap DEF HeapInv
<1>11. PICK d : d = GrayAgain(weak)
  OBVIOUS
<1>12. HeapInv(d) /\ Shape(d)
  <2>1. Elsewhere(weak, d)
    BY <1>10, <1>11 DEF GrayAgain, Elsewhere, Shape, Fields
  <2> QED BY <1>10, <2>1, ElsewhereHeap DEF HeapInv
<1>13. PICK again : again = propagateall(d)
  OBVIOUS
<1>14. HeapInv(again)
  BY <1>12, <1>13, propagateallDarker, DarkerHeap
<1>15. PICK e : e = luaC_separateudata(again, FALSE)
  OBVIOUS
<1>16. HeapInv(e) /\ AllDue(e, FALSE) /\ Shape(e) /\ IsList(e.tmudata)
  BY <1>14, <1>15, luaC_separateudataHeap DEF HeapInv, Lists
<1>17. PICK f : f = marktmu(e)
  OBVIOUS
<1>18. HeapInv(f) /\ AllDue(f, FALSE) /\ Shape(f)
  BY <1>16, <1>17, marktmuDarker, AllDueDarker DEF HeapInv
<1>19. PICK preserved : preserved = propagateall(f)
  OBVIOUS
<1>20. HeapInv(preserved) /\ AllDue(preserved, FALSE) /\ Shape(preserved)
  BY <1>18, <1>19, propagateallDarker, AllDueDarker DEF HeapInv
<1>21. PICK clear : clear = cleartables(preserved)
  OBVIOUS
<1>22. HeapInv(clear) /\ AllDue(clear, FALSE) /\ Shape(clear)
  BY <1>20, <1>21, cleartablesDarker, AllDueDarker DEF HeapInv
<1>23. PICK k : k = Flipped(clear)
  OBVIOUS
<1>24. /\ Shape(k) /\ k.obj = clear.obj /\ k.currentwhite = Other(clear.currentwhite)
       /\ k.rootgc = clear.rootgc /\ k.udata = clear.udata
          /\ k.tmudata = clear.tmudata
       /\ k.openupval = clear.openupval /\ k.missed = clear.missed
  BY <1>22, <1>23 DEF Flipped, Shape, Fields, Phases, otherwhite
<1>25. Lists(k) /\ Sorted(k) /\ Called(k)
  BY <1>22, <1>24 DEF HeapInv, Lists, Sorted, Called
<1>26. Spared(k)
  <2>1. Other(k.currentwhite) \in Whites
    BY WhiteFacts
  <2>2. \A o : isdead(k, o) => iswhite(clear, o)
    BY <1>24, <2>1 DEF isdead, iswhite, otherwhite, Mark
  <2> QED BY <1>22, <1>24, <2>2 DEF HeapInv, Spared, AllDue
<1>27. HeapInv(k)
  BY <1>24, <1>25, <1>26 DEF HeapInv
<1>28. atomic(h0) = k
  BY <1>1, <1>3, <1>7, <1>9, <1>11, <1>13, <1>15, <1>17, <1>19, <1>21, <1>23,
     Zenon DEF atomic
<1> QED BY <1>27, <1>28

(* A finalizer called in the end: what GCTM makes of the heap, before the  *)
(* gc method runs.                                                         *)
LEMMA ReturnedHeap ==
  ASSUME NEW h, HeapInv(h), h.tmudata # <<>>, NEW k, k = Returned(h)
  PROVE  HeapInv(k) /\ (Gathered(h) => Gathered(k))
<1>1. PICK u : u = Head(h.tmudata)
  OBVIOUS
<1>2. Lists(h)
  BY DEF HeapInv
<1>3. /\ IsList(Tail(h.tmudata)) /\ u \in Range(h.tmudata)
      /\ Range(h.tmudata) = {u} \cup Range(Tail(h.tmudata))
      /\ IsInjective(Tail(h.tmudata)) /\ u \notin Range(Tail(h.tmudata))
  BY <1>1, <1>2, TailFacts DEF Lists
<1>4. u \notin Range(h.udata) /\ u \in DOMAIN h.obj /\ h.obj[u].tt = "udata"
  BY <1>2, <1>3 DEF HeapInv, Lists, Sorted
<1>5. h.obj[u].fin /\ h.obj[u].gc /\ h.obj[u].calls = 0
  BY <1>3 DEF HeapInv, Called
<1>6. /\ IsList(<<u>> \o h.udata) /\ Range(<<u>> \o h.udata) = {u} \cup Range(h.udata)
      /\ IsInjective(<<u>> \o h.udata)
  BY <1>2, <1>4, ConsFacts DEF Lists
<1>7. PICK list : list = <<u>> \o h.udata
  OBVIOUS
<1>8. k = [h EXCEPT !.tmudata = Tail(@), !.udata = list,
                !.obj[u].mark = h.currentwhite, !.obj[u].calls = @ + 1]
  BY <1>1, <1>7 DEF Returned
<1>9. /\ Shape(k) /\ DOMAIN k.obj = DOMAIN h.obj
      /\ k.rootgc = h.rootgc /\ k.openupval = h.openupval /\ k.missed = h.missed
      /\ k.currentwhite = h.currentwhite
      /\ k.udata = list /\ k.tmudata = Tail(h.tmudata)
  BY <1>8, SMT DEF HeapInv, Shape, Fields, ObjFields
<1>10. /\ \A o \in DOMAIN h.obj :
              /\ k.obj[o].tt = h.obj[o].tt /\ k.obj[o].at = h.obj[o].at
              /\ k.obj[o].gc = h.obj[o].gc /\ k.obj[o].fin = h.obj[o].fin
              /\ k.obj[o].late = h.obj[o].late
       /\ \A o \in DOMAIN h.obj \ {u} :
              k.obj[o].calls = h.obj[o].calls /\ k.obj[o].mark = h.obj[o].mark
       /\ k.obj[u].calls = 1
  <2>1. k.obj[u].calls = h.obj[u].calls + 1
    BY <1>4, <1>8, SMT DEF HeapInv, Shape, Fields, ObjFields
  <2>2. k.obj[u].calls = 1
    BY <1>5, <2>1
  <2> QED BY <1>8, <2>2, SMT DEF HeapInv, Shape, Fields, ObjFields
<1>11. PICK rest : rest = Tail(h.tmudata)
  OBVIOUS
<1>12. Lists(k)
  BY <1>2, <1>3, <1>4, <1>6, <1>7, <1>9 DEF Lists
<1>13. Sorted(k)
  <2>1. Sorted(h)
    BY DEF HeapInv
  <2>2. Range(k.udata) \cup Range(k.tmudata) \subseteq Range(h.udata)
          \cup Range(h.tmudata)
    BY <1>3, <1>6, <1>7, <1>9
  <2> QED BY <1>9, <1>10, <2>1, <2>2 DEF Sorted
<1>14. Called(k)
  BY <1>3, <1>4, <1>5, <1>6, <1>7, <1>9, <1>10 DEF HeapInv, Called, Sorted
<1>15. Spared(k)
  BY <1>4, <1>6, <1>7, <1>9, <1>10
     DEF HeapInv, Spared, Sorted, isdead, otherwhite, Mark
<1>16. Gathered(h) => Gathered(k)
  BY <1>4, <1>6, <1>7, <1>9, <1>10 DEF HeapInv, Sorted, Gathered
<1> QED BY <1>9, <1>12, <1>13, <1>14, <1>15, <1>16 DEF HeapInv

-----------------------------------------------------------------------------
(* Allocation *)

(* The address of a new object is free. *)
LEMMA NewAddressFacts ==
  ASSUME NEW h, Addresses \ DOMAIN h.obj # {}
  PROVE  NewAddress(h) \in Addresses \ DOMAIN h.obj
<1>1. Addresses \ DOMAIN h.obj \in SUBSET Nat
  BY GCAssumption
<1>2. \E a \in Addresses \ DOMAIN h.obj : \A b \in Addresses \ DOMAIN h.obj : a <= b
  BY <1>1, LeastNatural
<1> QED BY <1>2, Zenon DEF NewAddress

(* A new object changes nothing about the others. *)
LEMMA PlacedFacts ==
  ASSUME NEW h, Shape(h), NEW o, o \notin DOMAIN h.obj, NEW r, DOMAIN r = ObjFields,
         NEW k, k = Placed(h, o, r)
  PROVE  /\ Shape(k) /\ DOMAIN k.obj = DOMAIN h.obj \cup {o}
         /\ k.obj[o] = r /\ \A x \in DOMAIN h.obj : k.obj[x] = h.obj[x]
         /\ k.rootgc = h.rootgc /\ k.udata = h.udata /\ k.tmudata = h.tmudata
         /\ k.openupval = h.openupval
         /\ k.currentwhite = h.currentwhite /\ k.missed = h.missed
<1>1. /\ DOMAIN k = Fields
      /\ k.obj = [x \in DOMAIN h.obj \cup {o} |-> IF x = o THEN r ELSE h.obj[x]]
      /\ k.rootgc = h.rootgc /\ k.udata = h.udata /\ k.tmudata = h.tmudata
      /\ k.openupval = h.openupval /\ k.weak = h.weak /\ k.gcstate = h.gcstate
      /\ k.currentwhite = h.currentwhite /\ k.missed = h.missed
  BY SMT DEF Placed, Shape, Fields
<1>2. /\ DOMAIN k.obj = DOMAIN h.obj \cup {o}
      /\ k.obj[o] = r /\ \A x \in DOMAIN h.obj : k.obj[x] = h.obj[x]
  BY <1>1, SMT
<1>3. Shape(k)
  BY <1>1, <1>2 DEF Shape
<1> QED BY <1>1, <1>2, <1>3

(* k is h with the new object o. *)
Grown(h, k, o) ==
  /\ Shape(k)
  /\ o \notin DOMAIN h.obj /\ DOMAIN k.obj = DOMAIN h.obj \cup {o}
  /\ \A x \in DOMAIN h.obj : k.obj[x] = h.obj[x]
  /\ k.obj[o].calls = 0 /\ k.obj[o].fin = FALSE /\ k.obj[o].mark = h.currentwhite
  /\ k.obj[o].gc => k.obj[o].tt = "udata"
  /\ k.tmudata = h.tmudata /\ k.currentwhite = h.currentwhite /\ k.missed = h.missed
  /\ Lists(k)
  /\ \A x \in Range(k.rootgc) \ Range(h.rootgc) :
     x = o /\ k.obj[o].tt \notin {"udata", "string", "upval"}
  /\ \A x \in Range(k.udata) \ Range(h.udata) : x = o /\ k.obj[o].tt = "udata"
  /\ \A x \in Range(k.openupval) \ Range(h.openupval) :
       x = o /\ k.obj[o].tt = "upval" /\ k.obj[o].at > 0

(* A heap with one new object satisfies the invariant. *)
LEMMA GrownHeap ==
  ASSUME NEW h, HeapInv(h), NEW k, NEW o, Grown(h, k, o)
  PROVE  HeapInv(k)
<1>1. Sorted(h) /\ Called(h) /\ Spared(h)
  BY DEF HeapInv
<1>2. Sorted(k)
  BY <1>1 DEF Grown, Sorted
<1>3. Called(k)
  <2>1. \A x \in DOMAIN k.obj :
       /\ k.obj[x].calls \in {0, 1} /\ (k.obj[x].calls = 1 => k.obj[x].fin)
       /\ k.obj[x].gc => k.obj[x].tt = "udata"
    BY <1>1 DEF Grown, Called
  <2>2. \A x \in Range(k.tmudata) : k.obj[x].fin /\ k.obj[x].gc /\ k.obj[x].calls = 0
    BY <1>1 DEF Grown, Called, Sorted
  <2>3. \A x \in Range(k.udata) : k.obj[x].fin /\ k.obj[x].gc => k.obj[x].calls = 1
    BY <1>1 DEF Grown, Called, Sorted
  <2> QED BY <2>1, <2>2, <2>3 DEF Called
<1>4. Spared(k)
  <2>1. Other(h.currentwhite) # h.currentwhite
    BY WhiteFacts
  <2>2. ~isdead(k, o)
    BY <2>1 DEF Grown, isdead, otherwhite, Mark
  <2>3. \A x \in DOMAIN h.obj : isdead(k, x) => isdead(h, x)
    BY DEF Grown, isdead, otherwhite, Mark
  <2> QED BY <1>1, <2>2, <2>3 DEF Grown, Spared, Sorted
<1> QED BY <1>2, <1>3, <1>4 DEF Grown, HeapInv

(* And it stays gathered, if the new object is no udata that should be.    *)
LEMMA GrownKeeps ==
  ASSUME NEW h, HeapInv(h), NEW k, NEW o, Grown(h, k, o),
         k.obj[o].gc => k.obj[o].late
  PROVE  Keeps(h, k)
<1>1. \A u \in Range(h.udata) : u \in DOMAIN h.obj
  BY DEF HeapInv, Sorted
<1>2. Gathered(h) => Gathered(k)
  BY <1>1 DEF Gathered, Grown
<1> QED BY <1>2, GrownHeap DEF Keeps, Grown

(* A new object on the list of all, wherever the sweep is. *)
LEMMA LinkedFacts ==
  ASSUME NEW h, Shape(h), NEW o, NEW k, k = luaC_link(h, o)
  PROVE  /\ Shape(k) /\ k.obj = h.obj /\ k.udata = h.udata /\ k.tmudata = h.tmudata
         /\ k.openupval = h.openupval
         /\ k.currentwhite = h.currentwhite /\ k.missed = h.missed
         /\ k.rootgc = <<o>> \o h.rootgc
BY SMT DEF luaC_link, Shape, Fields

(* So a new object linked keeps the invariant. *)
LEMMA NewLinked ==
  ASSUME NEW h, HeapInv(h), NEW o, o \notin DOMAIN h.obj,
         NEW tt, tt \notin {"udata", "string", "upval"},
         NEW k, k = luaC_link(Placed(h, o, Object(h, tt)), o)
  PROVE  /\ Keeps(h, k) /\ DOMAIN k.obj = DOMAIN h.obj \cup {o}
         /\ k.openupval = h.openupval /\ \A x \in DOMAIN h.obj : k.obj[x] = h.obj[x]
<1>1. PICK r : r = Object(h, tt)
  OBVIOUS
<1>2. /\ DOMAIN r = ObjFields /\ r.tt = tt /\ r.mark = h.currentwhite
      /\ r.fin = FALSE /\ r.gc = FALSE /\ r.calls = 0
  BY <1>1 DEF Object, ObjFields
<1>3. PICK p : p = Placed(h, o, r)
  OBVIOUS
<1>4. /\ Shape(p) /\ DOMAIN p.obj = DOMAIN h.obj \cup {o}
      /\ p.obj[o] = r /\ \A x \in DOMAIN h.obj : p.obj[x] = h.obj[x]
      /\ p.rootgc = h.rootgc /\ p.udata = h.udata /\ p.tmudata = h.tmudata
      /\ p.openupval = h.openupval
      /\ p.currentwhite = h.currentwhite /\ p.missed = h.missed
  BY <1>2, <1>3, PlacedFacts DEF HeapInv
<1>5. k = luaC_link(p, o)
  BY <1>1, <1>3
<1>6. /\ Shape(k) /\ k.obj = p.obj /\ k.udata = p.udata /\ k.tmudata = p.tmudata
      /\ k.openupval = p.openupval
      /\ k.currentwhite = p.currentwhite /\ k.missed = p.missed
      /\ k.rootgc = <<o>> \o p.rootgc
  BY <1>4, <1>5, LinkedFacts
<1>7. Lists(h)
  BY DEF HeapInv
<1>8. IsList(k.rootgc) /\ Range(k.rootgc) = {o} \cup Range(h.rootgc)
  BY <1>4, <1>6, <1>7, ConsFacts DEF Lists
<1>9. Lists(k)
  BY <1>4, <1>6, <1>7, <1>8 DEF Lists
<1>10. Grown(h, k, o)
  BY <1>2, <1>4, <1>6, <1>8, <1>9 DEF Grown
<1>11. ~k.obj[o].gc
  BY <1>2, <1>4, <1>6
<1> QED BY <1>4, <1>6, <1>10, <1>11, GrownKeeps

(* A new udata keeps the invariant, and gathered what is gathered: it is   *)
(* noted as late when the state is closing.                                *)
LEMMA luaS_newudataHeap ==
  ASSUME NEW h, HeapInv(h), Addresses \ DOMAIN h.obj # {}, NEW gc
  PROVE  /\ HeapInv(luaS_newudata(h, gc))
         /\ Closing => Keeps(h, luaS_newudata(h, gc))
<1>1. PICK o : o = NewAddress(h)
  OBVIOUS
<1>2. o \notin DOMAIN h.obj
  BY <1>1, NewAddressFacts
<1>3. PICK late : late = Closing
  OBVIOUS
<1>14. PICK r : r = [Object(h, "udata") EXCEPT !.gc = gc, !.key = Globals,
                                              !.late = late]
  OBVIOUS
<1>4. /\ DOMAIN r = ObjFields /\ r.tt = "udata" /\ r.mark = h.currentwhite
      /\ r.fin = FALSE /\ r.calls = 0 /\ r.late = late
  <2>1. PICK q : q = Object(h, "udata")
    OBVIOUS
  <2>2. /\ DOMAIN q = ObjFields /\ q.tt = "udata" /\ q.mark = h.currentwhite
        /\ q.fin = FALSE /\ q.calls = 0
    BY <2>1 DEF Object, ObjFields
  <2>3. r = [q EXCEPT !.gc = gc, !.key = Globals, !.late = late]
    BY <1>14, <2>1
  <2> QED BY <2>2, <2>3 DEF ObjFields
<1>5. PICK p : p = Placed(h, o, r)
  OBVIOUS
<1>6. /\ Shape(p) /\ DOMAIN p.obj = DOMAIN h.obj \cup {o}
      /\ p.obj[o] = r /\ \A x \in DOMAIN h.obj : p.obj[x] = h.obj[x]
      /\ p.rootgc = h.rootgc /\ p.udata = h.udata /\ p.tmudata = h.tmudata
      /\ p.openupval = h.openupval
      /\ p.currentwhite = h.currentwhite /\ p.missed = h.missed
  BY <1>2, <1>4, <1>5, PlacedFacts DEF HeapInv
<1>7. PICK k : k = luaS_newudata(h, gc)
  OBVIOUS
<1>8. k = [p EXCEPT !.udata = <<o>> \o @,
                !.sweepgc = IF sweeping(h) /\ @ >= Len(h.udata) THEN @ + 1 ELSE @]
  BY <1>1, <1>3, <1>5, <1>7, <1>14, Zenon DEF luaS_newudata
<1>9. /\ Shape(k) /\ k.obj = p.obj /\ k.rootgc = p.rootgc /\ k.tmudata = p.tmudata
      /\ k.openupval = p.openupval
      /\ k.currentwhite = p.currentwhite /\ k.missed = p.missed
      /\ k.udata = <<o>> \o h.udata
  BY <1>6, <1>8, SMT DEF Shape, Fields
<1>10. Lists(h) /\ o \notin Range(h.udata) \cup Range(h.tmudata)
  BY <1>2 DEF HeapInv, Sorted
<1>11. IsList(k.udata) /\ Range(k.udata) = {o} \cup Range(h.udata)
         /\ IsInjective(k.udata)
  BY <1>9, <1>10, ConsFacts DEF Lists
<1>12. Lists(k)
  BY <1>6, <1>9, <1>10, <1>11 DEF Lists
<1>13. Grown(h, k, o)
  BY <1>2, <1>4, <1>6, <1>9, <1>11, <1>12 DEF Grown
<1>15. HeapInv(k)
  BY <1>13, GrownHeap
<1>16. ASSUME Closing PROVE k.obj[o].late
  <2>1. k.obj[o].late = late
    BY <1>4, <1>6, <1>9, Zenon
  <2>2. late
    BY <1>3, <1>16, Zenon
  <2> QED BY <2>1, <2>2, Zenon
<1>17. Closing => Keeps(h, k)
  BY <1>13, <1>16, GrownKeeps, Zenon
<1> QED BY <1>7, <1>15, <1>17

(* A new size of the string table keeps the invariant. *)
LEMMA luaS_resizeHeap ==
  ASSUME NEW h, HeapInv(h), NEW n
  PROVE  Keeps(h, luaS_resize(h, n))
<1>1. Elsewhere(h, [h EXCEPT !.strsize = n])
  BY DEF Elsewhere, HeapInv, Shape, Fields
<1>2. Keeps(h, [h EXCEPT !.strsize = n]) /\ Keeps(h, h)
  BY <1>1, DarkerKeeps DEF Keeps
<1> QED BY <1>2 DEF luaS_resize

(* A string keeps the invariant, whether it is new or found, and then      *)
(* brought back to life.                                                   *)
LEMMA newlstrHeap ==
  ASSUME NEW h, HeapInv(h), Addresses \ DOMAIN h.obj # {}, NEW s
  PROVE  Keeps(h, newlstr(h, s))
<1>1. PICK o : o = NewAddress(h)
  OBVIOUS
<1>2. o \notin DOMAIN h.obj
  BY <1>1, NewAddressFacts
<1>3. PICK r : r = [Object(h, "string") EXCEPT !.at = s]
  OBVIOUS
<1>4. /\ DOMAIN r = ObjFields /\ r.tt = "string" /\ r.mark = h.currentwhite
      /\ r.fin = FALSE /\ r.gc = FALSE /\ r.calls = 0
  <2>1. PICK q : q = Object(h, "string")
    OBVIOUS
  <2>2. /\ DOMAIN q = ObjFields /\ q.tt = "string" /\ q.mark = h.currentwhite
        /\ q.fin = FALSE /\ q.gc = FALSE /\ q.calls = 0
    BY <2>1 DEF Object, ObjFields
  <2>3. r = [q EXCEPT !.at = s]
    BY <1>3, <2>1
  <2> QED BY <2>2, <2>3 DEF ObjFields
<1>5. PICK p : p = Placed(h, o, r)
  OBVIOUS
<1>6. /\ Shape(p) /\ DOMAIN p.obj = DOMAIN h.obj \cup {o}
      /\ p.obj[o] = r /\ \A x \in DOMAIN h.obj : p.obj[x] = h.obj[x]
      /\ p.rootgc = h.rootgc /\ p.udata = h.udata /\ p.tmudata = h.tmudata
      /\ p.openupval = h.openupval
      /\ p.currentwhite = h.currentwhite /\ p.missed = h.missed
  BY <1>2, <1>4, <1>5, PlacedFacts DEF HeapInv
<1>7. Lists(p)
  BY <1>6 DEF HeapInv, Lists
<1>8. Grown(h, p, o)
  BY <1>2, <1>4, <1>6, <1>7 DEF Grown
<1>9. Keeps(h, p) /\ HeapInv(p)
  BY <1>4, <1>6, <1>8, GrownKeeps DEF Keeps
<1>10. newlstr(h, s) \in {p, luaS_resize(p, p.strsize * 2)}
  BY <1>1, <1>3, <1>5 DEF newlstr
<1>11. Keeps(h, luaS_resize(p, p.strsize * 2))
  BY <1>9, luaS_resizeHeap, KeepsTwice
<1> QED BY <1>9, <1>10, <1>11

(* An object brought back to life keeps the invariant. *)
LEMMA ResurrectedHeap ==
  ASSUME NEW h, HeapInv(h), NEW o
  PROVE  Keeps(h, Resurrected(h, o))
<1>1. Kin(h, makewhite(h, o))
  BY MakewhiteKin DEF HeapInv
<1>2. Keeps(h, makewhite(h, o)) /\ Keeps(h, h)
  BY <1>1, KinKeeps DEF Keeps
<1> QED BY <1>2 DEF Resurrected, makewhite

(* An open upvalue found, or made and put in its place in the list, keeps  *)
(* the invariant.                                                          *)
LEMMA luaF_findupvalHeap ==
  ASSUME NEW h, HeapInv(h), NEW level, level > 0,
         (\E u \in Range(h.openupval) : h.obj[u].at = level)
           \/ Addresses \ DOMAIN h.obj # {}
  PROVE  Keeps(h, luaF_findupval(h, level).h)
<1>1. PICK found : found = {u \in Range(h.openupval) : h.obj[u].at = level}
  OBVIOUS
<1>2. CASE found # {}
  <2>1. PICK u : u = CHOOSE x \in found : TRUE
    OBVIOUS
  <2>2. luaF_findupval(h, level).h = Resurrected(h, u)
    BY <1>1, <1>2, <2>1 DEF luaF_findupval
  <2> QED BY <2>2, ResurrectedHeap
<1>3. CASE found = {}
  <2>1. PICK o : o = NewAddress(h)
    OBVIOUS
  <2>2. o \notin DOMAIN h.obj
    BY <1>1, <1>3, <2>1, NewAddressFacts
  <2>3. PICK higher :
          higher = {k \in DOMAIN h.openupval : h.obj[h.openupval[k]].at > level}
    OBVIOUS
  <2>4. PICK above : above = Cardinality(higher)
    OBVIOUS
  <2>5. Lists(h)
    BY DEF HeapInv
  <2>6. above \in 0 .. Len(h.openupval)
    <3>1. Len(h.openupval) \in Nat /\ DOMAIN h.openupval = 1 .. Len(h.openupval)
      BY <2>5, ListFacts DEF Lists
    <3>2. IsFiniteSet(1 .. Len(h.openupval))
            /\ Cardinality(1 .. Len(h.openupval)) = Len(h.openupval)
      BY <3>1, FS_Interval
    <3>3. higher \subseteq 1 .. Len(h.openupval)
      BY <2>3, <3>1
    <3>4. IsFiniteSet(higher) /\ Cardinality(higher) <= Len(h.openupval)
      BY <3>2, <3>3, FS_Subset
    <3>5. Cardinality(higher) \in Nat
      BY <3>4, FS_CardinalityType
    <3> QED BY <2>4, <3>1, <3>4, <3>5
  <2>7. PICK list : list = SubSeq(h.openupval, 1, above) \o <<o>> \o
                             SubSeq(h.openupval, above + 1, Len(h.openupval))
    OBVIOUS
  <2>8. IsList(list) /\ Range(list) = {o} \cup Range(h.openupval) /\ IsInjective(list)
    <3>1. o \notin Range(h.openupval)
      BY <2>2 DEF HeapInv, Sorted
    <3> QED BY <2>5, <2>6, <2>7, <3>1, InsertFacts DEF Lists
  <2>9. PICK r : r = [Object(h, "upval") EXCEPT !.at = level]
    OBVIOUS
  <2>10. /\ DOMAIN r = ObjFields /\ r.tt = "upval" /\ r.mark = h.currentwhite
         /\ r.fin = FALSE /\ r.gc = FALSE /\ r.calls = 0 /\ r.at = level
    <3>1. PICK q : q = Object(h, "upval")
      OBVIOUS
    <3>2. /\ DOMAIN q = ObjFields /\ q.tt = "upval" /\ q.mark = h.currentwhite
          /\ q.fin = FALSE /\ q.gc = FALSE /\ q.calls = 0
      BY <3>1 DEF Object, ObjFields
    <3>3. r = [q EXCEPT !.at = level]
      BY <2>9, <3>1
    <3> QED BY <3>2, <3>3 DEF ObjFields
  <2>11. PICK p : p = Placed(h, o, r)
    OBVIOUS
  <2>12. /\ Shape(p) /\ DOMAIN p.obj = DOMAIN h.obj \cup {o}
         /\ p.obj[o] = r /\ \A x \in DOMAIN h.obj : p.obj[x] = h.obj[x]
         /\ p.rootgc = h.rootgc /\ p.udata = h.udata /\ p.tmudata = h.tmudata
         /\ p.openupval = h.openupval
         /\ p.currentwhite = h.currentwhite /\ p.missed = h.missed
    BY <2>2, <2>10, <2>11, PlacedFacts DEF HeapInv
  <2>13. PICK k : k = [p EXCEPT !.openupval = list]
    OBVIOUS
  <2>14. luaF_findupval(h, level).h = k
    <3>1. luaF_findupval(h, level).h =
            [p EXCEPT !.openupval = SubSeq(@, 1, above) \o <<o>> \o SubSeq(@,
              above + 1, Len(@))]
      BY <1>1, <1>3, <2>1, <2>3, <2>4, <2>9, <2>11 DEF luaF_findupval
    <3> QED BY <2>7, <2>12, <2>13, <3>1
  <2>15. /\ Shape(k) /\ k.obj = p.obj /\ k.rootgc = p.rootgc /\ k.udata = p.udata
         /\ k.tmudata = p.tmudata /\ k.openupval = list
         /\ k.currentwhite = p.currentwhite /\ k.missed = p.missed
    BY <2>12, <2>13, SMT DEF Shape, Fields
  <2>16. Lists(k)
    BY <2>5, <2>8, <2>12, <2>15 DEF Lists
  <2>17. Grown(h, k, o)
    BY <2>2, <2>8, <2>10, <2>12, <2>15, <2>16 DEF Grown
  <2>18. ~k.obj[o].gc
    BY <2>10, <2>12, <2>15
  <2> QED BY <2>14, <2>17, <2>18, GrownKeeps
<1> QED BY <1>2, <1>3

-----------------------------------------------------------------------------
(* Closing *)

(* The dead are freed. *)
LEMMA FreedFacts ==
  ASSUME NEW h, Shape(h), NEW dead, dead \subseteq DOMAIN h.obj, NEW k,
    k = Freed(h, dead)
  PROVE  /\ Shape(k) /\ DOMAIN k.obj = DOMAIN h.obj \ dead
         /\ \A o \in DOMAIN k.obj : k.obj[o] = h.obj[o]
         /\ k.rootgc = h.rootgc /\ k.udata = h.udata /\ k.tmudata = h.tmudata
         /\ k.openupval = h.openupval /\ k.currentwhite = h.currentwhite
         /\ (\A o \in dead : h.obj[o].gc => h.obj[o].calls = 1) /\ ~h.missed
            => ~k.missed
<1>1. /\ k.rootgc = h.rootgc /\ k.udata = h.udata /\ k.tmudata = h.tmudata
      /\ k.openupval = h.openupval /\ k.currentwhite = h.currentwhite
         /\ k.weak = h.weak /\ k.gcstate = h.gcstate
      /\ k.obj = [o \in DOMAIN h.obj \ dead |-> h.obj[o]]
      /\ k.missed = (h.missed \/ \E o \in dead : h.obj[o].gc /\ h.obj[o].calls = 0)
      /\ DOMAIN k = Fields
  BY SMT DEF Freed, Shape, Fields
<1>2. DOMAIN k.obj = DOMAIN h.obj \ dead /\ \A o \in DOMAIN k.obj :
        k.obj[o] = h.obj[o]
  BY <1>1
<1>3. Shape(k)
  BY <1>1, <1>2 DEF Shape
<1>4. ASSUME \A o \in dead : h.obj[o].gc => h.obj[o].calls = 1, ~h.missed
        PROVE ~k.missed
  <2>1. \A o \in dead : h.obj[o].gc => h.obj[o].calls # 0
    BY <1>4
  <2> QED BY <1>1, <1>4, <2>1
<1> QED BY <1>1, <1>2, <1>3, <1>4

(* A closed upvalue put on the list of all objects keeps the invariant. *)
LEMMA luaC_linkupvalHeap ==
  ASSUME NEW h, HeapInv(h), NEW u, u \in DOMAIN h.obj, h.obj[u].tt = "upval",
    h.obj[u].at = 0
  PROVE  Keeps(h, luaC_linkupval(h, u))
<1>1. PICK k : k = luaC_link(h, u)
  OBVIOUS
<1>2. /\ Shape(k) /\ k.obj = h.obj /\ k.udata = h.udata /\ k.tmudata = h.tmudata
      /\ k.openupval = h.openupval
      /\ k.currentwhite = h.currentwhite /\ k.missed = h.missed
      /\ k.rootgc = <<u>> \o h.rootgc
  BY <1>1, LinkedFacts DEF HeapInv
<1>3. Lists(h)
  BY DEF HeapInv
<1>4. IsList(k.rootgc) /\ Range(k.rootgc) = {u} \cup Range(h.rootgc)
  BY <1>2, <1>3, ConsFacts DEF Lists
<1>5. Lists(k) /\ Called(k)
  BY <1>2, <1>3, <1>4 DEF HeapInv, Lists, Called
<1>6. Sorted(k)
  BY <1>2, <1>4 DEF HeapInv, Sorted
<1>7. Spared(k)
  BY <1>2 DEF HeapInv, Spared, isdead, otherwhite, Mark
<1>8. Keeps(h, k) /\ HeapInv(k)
  BY <1>2, <1>5, <1>6, <1>7 DEF HeapInv, Keeps, Gathered
<1>9. PICK black, a : /\ black = Paint(k, u, "black")
                      /\ a = Asserted(k, h.gcstate \notin {"finalize", "pause"},
                         "luaC_linkupval")
  OBVIOUS
<1>10. Keeps(k, black) /\ Keeps(k, a) /\ HeapInv(black) /\ HeapInv(a)
  BY <1>2, <1>8, <1>9, PaintDarker, AssertedDarker, DarkerKeeps DEF Keeps
<1>11. PICK b, c : b = luaC_barrier(black, u, h.obj[u].val) /\ c = makewhite(a, u)
  OBVIOUS
<1>12. Kin(black, b) /\ Kin(a, c)
  BY <1>10, <1>11, luaC_barrierKin, MakewhiteKin DEF HeapInv
<1>13. Keeps(black, b) /\ Keeps(a, c)
  BY <1>10, <1>12, KinKeeps
<1>14. Keeps(h, b) /\ Keeps(h, c)
  BY <1>8, <1>10, <1>13, KeepsTwice
<1>15. luaC_linkupval(h, u) \in {k, b, c}
  BY <1>1, <1>9, <1>11 DEF luaC_linkupval
<1> QED BY <1>8, <1>14, <1>15

(* One upvalue freed or closed keeps the invariant. *)
LEMMA CloseOneHeap ==
  ASSUME NEW h0, HeapInv(h0), h0.openupval # <<>>
  PROVE  Keeps(h0, CloseOne(h0, Head(h0.openupval)))
<1>1. PICK u : u = Head(h0.openupval)
  OBVIOUS
<1>2. Lists(h0)
  BY DEF HeapInv
<1>3. /\ IsList(Tail(h0.openupval)) /\ u \in Range(h0.openupval)
      /\ Range(h0.openupval) = {u} \cup Range(Tail(h0.openupval))
      /\ IsInjective(Tail(h0.openupval)) /\ u \notin Range(Tail(h0.openupval))
  BY <1>1, <1>2, TailFacts DEF Lists
<1>4. PICK t : t = [h0 EXCEPT !.openupval = Tail(@)]
  OBVIOUS
<1>5. /\ Shape(t) /\ t.obj = h0.obj /\ t.rootgc = h0.rootgc /\ t.udata = h0.udata
      /\ t.tmudata = h0.tmudata /\ t.openupval = Tail(h0.openupval)
      /\ t.currentwhite = h0.currentwhite /\ t.missed = h0.missed
  BY <1>4, SMT DEF HeapInv, Shape, Fields
<1>6. HeapInv(t) /\ Keeps(h0, t) /\ u \notin Range(t.openupval)
  <2>1. Lists(t)
    BY <1>2, <1>3, <1>5 DEF Lists
  <2>2. \A o : isdead(t, o) <=> isdead(h0, o)
    BY <1>5 DEF isdead, otherwhite, Mark
  <2>3. Smaller(h0, t)
    BY <1>3, <1>5, <2>1, <2>2 DEF Smaller, HeapInv, Sorted, Spared
  <2> QED BY <1>3, <1>5, <2>3, SmallerHeap DEF Keeps, Gathered
<1>7. u \in DOMAIN t.obj /\ t.obj[u].tt = "upval" /\ t.obj[u].at > 0
  BY <1>3, <1>5 DEF HeapInv, Sorted
<1>8. PICK h : h = Asserted(t, ~isblack(h0, u), "luaF_close")
  OBVIOUS
<1>9. HeapInv(h) /\ u \in DOMAIN h.obj /\ h.obj[u].tt = "upval" /\ h.obj[u].at > 0
      /\ u \notin Range(h.openupval) /\ Keeps(h0, h)
  <2>1. Darker(t, h)
    BY <1>6, <1>8, AssertedDarker DEF HeapInv
  <2>2. Same(t, h)
    BY <2>1, Zenon DEF Darker, Kin
  <2>3. Keeps(h0, h) /\ HeapInv(h)
    BY <1>6, <2>1, DarkerKeeps, KeepsTwice DEF Keeps
  <2> QED BY <1>6, <1>7, <2>2, <2>3 DEF Same
<1>10. CASE isdead(h, u)
  <2>1. PICK k : k = Freed(h, {u})
    OBVIOUS
  <2>2. CloseOne(h0, u) = k
    BY <1>4, <1>8, <1>10, <2>1 DEF CloseOne
  <2>3. ~h.obj[u].gc /\ ~h.missed /\ Lists(h) /\ Sorted(h)
    BY <1>9 DEF HeapInv, Called, Spared
  <2>4. /\ Shape(k) /\ DOMAIN k.obj = DOMAIN h.obj \ {u}
        /\ \A o \in DOMAIN k.obj : k.obj[o] = h.obj[o]
        /\ k.rootgc = h.rootgc /\ k.udata = h.udata /\ k.tmudata = h.tmudata
        /\ k.openupval = h.openupval /\ k.currentwhite = h.currentwhite
        /\ ~k.missed
    <3>1. {u} \subseteq DOMAIN h.obj /\ \A o \in {u} :
            h.obj[o].gc => h.obj[o].calls = 1
      BY <1>9, <2>3
    <3> QED BY <1>9, <2>1, <2>3, <3>1, FreedFacts DEF HeapInv
  <2>5. Lists(k)
    BY <2>3, <2>4 DEF Lists
  <2>6. u \notin Range(h.rootgc) \cup Range(h.udata) \cup Range(h.tmudata)
    BY <1>9, <2>3 DEF Sorted
  <2>7. \A o \in DOMAIN k.obj : isdead(k, o) => isdead(h, o)
    BY <2>4 DEF isdead, otherwhite, Mark
  <2>8. Smaller(h, k)
    BY <1>9, <2>3, <2>4, <2>5, <2>6, <2>7 DEF Smaller, Sorted
  <2>9. Gathered(h) => Gathered(k)
    BY <2>3, <2>4, <2>6 DEF Gathered, Sorted
  <2>10. Keeps(h, k)
    BY <1>9, <2>4, <2>8, <2>9, SmallerHeap DEF Keeps
  <2> QED BY <1>1, <1>9, <2>2, <2>10, KeepsTwice
<1>11. CASE ~isdead(h, u)
  <2>1. PICK k : k = [h EXCEPT !.obj[u].val = ValueOf(h.obj[u]), !.obj[u].at = 0]
    OBVIOUS
  <2>2. CloseOne(h0, u) = luaC_linkupval(k, u)
    BY <1>4, <1>8, <1>11, <2>1 DEF CloseOne
  <2>3. PICK v : v = ValueOf(h.obj[u])
    OBVIOUS
  <2>4. k = [h EXCEPT !.obj[u].val = v, !.obj[u].at = 0]
    BY <2>1, <2>3
  <2>5. /\ Shape(k) /\ DOMAIN k.obj = DOMAIN h.obj
        /\ k.rootgc = h.rootgc /\ k.udata = h.udata /\ k.tmudata = h.tmudata
        /\ k.openupval = h.openupval /\ k.currentwhite = h.currentwhite
           /\ k.missed = h.missed
        /\ \A o \in DOMAIN h.obj :
              /\ k.obj[o].tt = h.obj[o].tt /\ k.obj[o].mark = h.obj[o].mark
              /\ k.obj[o].gc = h.obj[o].gc /\ k.obj[o].fin = h.obj[o].fin
              /\ k.obj[o].calls = h.obj[o].calls /\ k.obj[o].late = h.obj[o].late
              /\ o # u => k.obj[o].at = h.obj[o].at
        /\ k.obj[u].at = 0
    BY <1>9, <2>4, SMT DEF HeapInv, Shape, Fields, ObjFields
  <2>6. Lists(k)
    BY <1>9, <2>5 DEF HeapInv, Lists
  <2>7. Sorted(k)
    BY <1>9, <2>5 DEF HeapInv, Sorted
  <2>8. Called(k)
    BY <1>9, <2>5 DEF HeapInv, Called, Sorted
  <2>9. Spared(k)
    <3>1. \A o \in DOMAIN h.obj : isdead(k, o) => isdead(h, o)
      BY <2>5 DEF isdead, otherwhite, Mark
    <3> QED BY <1>9, <2>5, <3>1 DEF HeapInv, Spared, Sorted
  <2>10. HeapInv(k)
    BY <2>5, <2>6, <2>7, <2>8, <2>9 DEF HeapInv
  <2>11. Keeps(k, luaC_linkupval(k, u))
    BY <1>9, <2>5, <2>10, luaC_linkupvalHeap
  <2>12. Gathered(h) => Gathered(k)
    BY <1>9, <2>5 DEF Gathered, HeapInv, Sorted
  <2>13. Keeps(h, k)
    BY <2>5, <2>10, <2>12 DEF Keeps
  <2>14. Keeps(h0, k)
    BY <1>9, <2>13, KeepsTwice
  <2> QED BY <1>1, <2>2, <2>11, <2>14, KeepsTwice
<1> QED BY <1>10, <1>11

(* The rounds of luaF_close. *)
luaF_closeRound(h, level, x, n) == CloseTop(x, level)
luaF_closeRun(a, h, level, m) ==
  a = [n \in 0 .. m |-> IF n = 0 THEN h ELSE luaF_closeRound(h, level, a[n - 1], n)]

(* The loop of luaF_close has a result for each number of rounds. *)
LEMMA luaF_closeRounds ==
  ASSUME NEW h, NEW level, NEW m \in Nat
  PROVE  \E a : luaF_closeRun(a, h, level, m)
<1> DEFINE S == {l \in Nat : \E a : luaF_closeRun(a, h, level, l)}
<1>1. 0 \in S
  <2>1. PICK a : a = [n \in 0 .. 0 |-> h]
    OBVIOUS
  <2>2. \A n \in 0 .. 0 : n = 0
    OBVIOUS
  <2>3. luaF_closeRun(a, h, level, 0)
    BY <2>1, <2>2, Zenon DEF luaF_closeRun
  <2> QED BY <2>3
<1>2. ASSUME NEW l \in Nat, l \in S PROVE l + 1 \in S
  <2>1. PICK a : luaF_closeRun(a, h, level, l)
    BY <1>2
  <2>2. PICK x : x = luaF_closeRound(h, level, a[l], l + 1)
    OBVIOUS
  <2>3. PICK b : Continues(b, a, l, x)
    BY OneRoundMore, Zenon
  <2>4. ASSUME NEW n \in 0 .. l + 1
        PROVE  b[n] = IF n = 0 THEN h ELSE luaF_closeRound(h, level, b[n - 1], n)
    <3>1. CASE n = 0
      <4>1. 0 \in 0 .. l
        OBVIOUS
      <4>2. a[0] = h
        BY <2>1, <4>1, Zenon DEF luaF_closeRun
      <4> QED BY <2>3, <3>1, <4>1, <4>2, Zenon DEF Continues
    <3>2. CASE n \in 0 .. l /\ n # 0
      <4>1. n - 1 \in 0 .. l
        BY <3>2
      <4>2. a[n] = luaF_closeRound(h, level, a[n - 1], n)
        BY <2>1, <3>2, Zenon DEF luaF_closeRun
      <4> QED BY <2>3, <3>2, <4>1, <4>2, Zenon DEF Continues
    <3>3. CASE n = l + 1
      <4>1. l + 1 # 0 /\ (l + 1) - 1 = l /\ l \in 0 .. l
        OBVIOUS
      <4> QED BY <2>2, <2>3, <3>3, <4>1, Zenon DEF Continues
    <3> QED BY <3>1, <3>2, <3>3
  <2>5. luaF_closeRun(b, h, level, l + 1)
    BY <2>3, <2>4, Zenon DEF luaF_closeRun, Continues
  <2>6. l + 1 \in Nat
    OBVIOUS
  <2> QED BY <2>5, <2>6, Zenon
<1> HIDE DEF S
<1>3. m \in S
  BY <1>1, <1>2, NumberInduction
<1> QED BY <1>3, Zenon DEF S

(* luaF_close keeps the invariant. *)
LEMMA luaF_closeHeap ==
  ASSUME NEW h, NEW level, HeapInv(h)
  PROVE  Keeps(h, luaF_close(h, level))
<1>1. Len(h.openupval) \in Nat
  BY ListFacts DEF HeapInv, Lists
<1>2. PICK after :
        luaF_closeRun(after, h, level, Len(h.openupval))
          /\ luaF_close(h, level) = after[Len(h.openupval)]
  <2>1. \E a : luaF_closeRun(a, h, level, Len(h.openupval))
    BY <1>1, luaF_closeRounds, Zenon
  <2>2. luaF_close(h, level)
          = (CHOOSE a : luaF_closeRun(a, h, level,
            Len(h.openupval)))[Len(h.openupval)]
    BY Zenon DEF luaF_close, luaF_closeRun, luaF_closeRound
  <2> QED BY <2>1, <2>2, Zenon
<1> DEFINE S == {n \in Nat : n <= Len(h.openupval) => Keeps(h, after[n])}
<1>3. 0 \in S
  <2>1. 0 \in 0 .. Len(h.openupval)
    BY <1>1
  <2>2. after[0] = h
    BY <1>2, <2>1, Zenon DEF luaF_closeRun
  <2>3. Keeps(h, h)
    BY DEF Keeps
  <2> QED BY <1>1, <2>2, <2>3
<1>4. ASSUME NEW m \in Nat, m \in S PROVE m + 1 \in S
  <2> SUFFICES ASSUME m + 1 <= Len(h.openupval) PROVE Keeps(h, after[m + 1])
    BY m + 1 \in Nat, Zenon
  <2>1. PICK x, y : x = after[m] /\ y = after[m + 1]
    OBVIOUS
  <2>2. /\ m + 1 \in 0 .. Len(h.openupval) /\ m + 1 # 0 /\ (m + 1) - 1 = m
        /\ m <= Len(h.openupval) /\ m + 1 \in 1 .. Len(h.openupval)
    BY <1>1
  <2>3. Keeps(h, x) /\ HeapInv(x)
    BY <1>4, <2>1, <2>2 DEF Keeps
  <2>4. y = luaF_closeRound(h, level, x, m + 1)
    BY <1>2, <2>1, <2>2, Zenon DEF luaF_closeRun
  <2>5. y = x \/ Keeps(x, y)
    BY <2>3, <2>4, CloseOneHeap DEF luaF_closeRound, CloseTop
  <2>6. Keeps(h, y)
    BY <2>3, <2>5, KeepsTwice
  <2> QED BY <2>1, <2>6
<1> HIDE DEF S
<1>5. Len(h.openupval) \in S
  BY <1>1, <1>3, <1>4, NumberInduction
<1>6. Len(h.openupval) <= Len(h.openupval)
  BY <1>1
<1> QED BY <1>2, <1>5, <1>6, Zenon DEF S

-----------------------------------------------------------------------------
(* The steps *)

(* lua_close frees everything, and misses no finalizer that it should have *)
(* called.                                                                 *)
LEMMA luaC_freeallHeap ==
  ASSUME NEW h, HeapInv(h), Gathered(h), h.tmudata = <<>>
  PROVE  HeapInv(luaC_freeall(h))
<1>1. PICK dead :
        dead = Range(h.rootgc) \union Range(h.udata) \union Alive(h, "string")
  OBVIOUS
<1>2. Lists(h) /\ Sorted(h) /\ Called(h) /\ Shape(h) /\ ~h.missed
  BY DEF HeapInv, Spared
<1>3. dead \subseteq DOMAIN h.obj
  BY <1>1, <1>2 DEF Sorted, Alive
<1>4. \A o \in dead : h.obj[o].gc /\ ~h.obj[o].late => h.obj[o].calls = 1
  <2>1. ASSUME NEW o \in dead, h.obj[o].gc, ~h.obj[o].late PROVE h.obj[o].calls = 1
    <3>1. h.obj[o].tt = "udata"
      BY <1>2, <1>3, <2>1 DEF Called
    <3>2. o \in Range(h.udata)
      BY <1>1, <1>2, <3>1 DEF Sorted, Alive
    <3> QED BY <2>1, <3>2 DEF Gathered
  <2> QED BY <2>1
<1>5. PICK f : f = Freed(h, dead)
  OBVIOUS
<1>6. /\ Shape(f) /\ DOMAIN f.obj = DOMAIN h.obj \ dead
      /\ \A o \in DOMAIN f.obj : f.obj[o] = h.obj[o]
      /\ f.rootgc = h.rootgc /\ f.udata = h.udata /\ f.tmudata = h.tmudata
      /\ f.openupval = h.openupval /\ f.currentwhite = h.currentwhite
  BY <1>2, <1>3, <1>5, FreedFacts
<1>7. PICK q : q = Relinked(f)
  OBVIOUS
<1>13. PICK m : m = (h.missed \/ \E o \in dead : h.obj[o].gc /\ h.obj[o].calls = 0
                                                   /\ ~h.obj[o].late)
  OBVIOUS
<1>14. ~m
  <2>1. ~\E o \in dead : h.obj[o].gc /\ h.obj[o].calls = 0 /\ ~h.obj[o].late
    BY <1>4
  <2> QED BY <1>2, <1>13, <2>1, Zenon
<1>15. PICK k : k = [q EXCEPT !.missed = m]
  OBVIOUS
<1>8. /\ Shape(k) /\ k.obj = f.obj /\ k.tmudata = f.tmudata /\ ~k.missed
      /\ k.currentwhite = f.currentwhite
      /\ IsList(k.rootgc) /\ IsList(k.udata) /\ IsList(k.openupval)
      /\ IsInjective(f.udata) => IsInjective(k.udata)
      /\ IsInjective(f.openupval) => IsInjective(k.openupval)
      /\ Range(k.rootgc) = Range(f.rootgc) \cap DOMAIN f.obj
      /\ Range(k.udata) = Range(f.udata) \cap DOMAIN f.obj
      /\ Range(k.openupval) = Range(f.openupval) \cap DOMAIN f.obj
  <2>1. IsList(f.rootgc) /\ IsList(f.udata) /\ IsList(f.openupval)
    BY <1>2, <1>6 DEF Lists
  <2>2. /\ Shape(q) /\ q.obj = f.obj /\ q.tmudata = f.tmudata
        /\ q.currentwhite = f.currentwhite
        /\ IsList(q.rootgc) /\ IsList(q.udata) /\ IsList(q.openupval)
        /\ IsInjective(f.udata) => IsInjective(q.udata)
        /\ IsInjective(f.openupval) => IsInjective(q.openupval)
        /\ Range(q.rootgc) = Range(f.rootgc) \cap DOMAIN f.obj
        /\ Range(q.udata) = Range(f.udata) \cap DOMAIN f.obj
        /\ Range(q.openupval) = Range(f.openupval) \cap DOMAIN f.obj
    BY <1>6, <1>7, <2>1, RelinkedFacts
  <2>3. /\ Shape(k) /\ k.obj = q.obj /\ k.tmudata = q.tmudata /\ k.missed = m
        /\ k.currentwhite = q.currentwhite /\ k.rootgc = q.rootgc
        /\ k.udata = q.udata /\ k.openupval = q.openupval
    BY <1>15, <2>2, SMT DEF Shape, Fields
  <2> QED BY <1>14, <2>2, <2>3
<1>9. k.tmudata = <<>> /\ IsList(k.tmudata) /\ Range(k.tmudata) = {}
        /\ IsInjective(k.tmudata)
  BY <1>6, <1>8, EmptyFacts
<1>10. Lists(k)
  BY <1>2, <1>6, <1>8, <1>9 DEF Lists
<1>11. \A o \in DOMAIN k.obj : isdead(k, o) => isdead(h, o)
  BY <1>6, <1>8 DEF isdead, otherwhite, Mark
<1>12. Smaller(h, k)
  BY <1>6, <1>8, <1>9, <1>10, <1>11 DEF Smaller
<1>16. luaC_freeall(h) = k
  BY <1>1, <1>5, <1>7, <1>13, <1>15, Zenon DEF luaC_freeall
<1> QED BY <1>12, <1>16, SmallerHeap

(* The step of the phase that sweeps strings keeps the invariant. *)
LEMMA SweepStringHeap ==
  ASSUME NEW h, HeapInv(h)
  PROVE  HeapInv(SweepString(h))
<1>1. PICK s : s = SweepBucket(h, h.sweepstrgc)
  OBVIOUS
<1>2. HeapInv(s)
  BY <1>1, SweepBucketHeap
<1>3. PICK k : k = SweepString(h)
  OBVIOUS
<1>4. k = [s EXCEPT !.sweepstrgc = @ + 1,
            !.gcstate = IF h.sweepstrgc + 1 >= h.strsize THEN "sweep" ELSE @]
  BY <1>1, <1>3 DEF SweepString
<1>5. Elsewhere(s, k)
  BY <1>2, <1>4, SMT DEF HeapInv, Elsewhere, Shape, Fields, Phases
<1> QED BY <1>2, <1>3, <1>5, ElsewhereHeap

(* So does the step of the phase that sweeps the list of objects. *)
LEMMA SweepObjectsHeap ==
  ASSUME NEW h, HeapInv(h)
  PROVE  HeapInv(Sweep(h))
<1>1. PICK s : s = sweeplist(h, GCSWEEPMAX)
  OBVIOUS
<1>2. HeapInv(s)
  BY <1>1, sweeplistHeap
<1>3. PICK t : t = [s EXCEPT !.gcstate = "finalize"]
  OBVIOUS
<1>4. Elsewhere(s, t)
  BY <1>2, <1>3, SMT DEF HeapInv, Elsewhere, Shape, Fields, Phases
<1>5. HeapInv(t)
  BY <1>2, <1>4, ElsewhereHeap
<1>6. HeapInv(checkSizes(t))
  BY <1>5, luaS_resizeHeap DEF checkSizes, Keeps
<1> QED BY <1>1, <1>2, <1>3, <1>6 DEF Sweep

(* So does every single step of the collector. *)
LEMMA singlestepHeap ==
  ASSUME NEW h, HeapInv(h), IsList(stack)
  PROVE  HeapInv(singlestep(h))
<1>1. h.gcstate \in Phases /\ Shape(h)
  BY DEF HeapInv, Shape
<1>2. CASE h.gcstate = "pause"
  BY <1>2, markrootHeap DEF singlestep, Keeps
<1>3. CASE h.gcstate = "propagate"
  <2>1. singlestep(h) \in {propagatemark(h), atomic(h)}
    BY <1>3 DEF singlestep
  <2>2. HeapInv(propagatemark(h))
    BY <1>1, propagatemarkDarker, DarkerHeap
  <2> QED BY <2>1, <2>2, atomicHeap
<1>4. CASE h.gcstate = "sweepstring"
  BY <1>4, SweepStringHeap DEF singlestep
<1>5. CASE h.gcstate = "sweep"
  BY <1>5, SweepObjectsHeap DEF singlestep
<1>6. CASE h.gcstate = "finalize"
  <2>1. PICK k : k = [h EXCEPT !.gcstate = "pause"]
    OBVIOUS
  <2>2. Elsewhere(h, k)
    BY <1>1, <2>1, SMT DEF Elsewhere, Shape, Fields, Phases
  <2>3. HeapInv(k)
    BY <2>2, ElsewhereHeap
  <2> QED BY <1>6, <2>1, <2>3 DEF singlestep
<1> QED BY <1>1, <1>2, <1>3, <1>4, <1>5, <1>6 DEF Phases

(* The stack stays a list. *)
LEMMA StackFacts ==
  ASSUME NEW s, IsList(s), NEW v
  PROVE  /\ IsList(Append(s, v))
         /\ \A i : IsList([s EXCEPT ![i] = v])
         /\ \A n \in Nat : IsList(SubSeq(s, 1, n))
         /\ s # <<>> => Len(s) - 1 \in Nat
<1> DEFINE T == Range(s) \cup {v}
<1>1. s \in Seq(T) /\ v \in T /\ Len(s) \in Nat
  BY ListFacts DEF IsList
<1> HIDE DEF T
<1>2. Append(s, v) \in Seq(T)
  BY <1>1
<1>3. ASSUME NEW i PROVE [s EXCEPT ![i] = v] \in Seq(T)
  <2>1. s \in [1 .. Len(s) -> T]
    BY <1>1
  <2>2. PICK e : e = [s EXCEPT ![i] = v]
    OBVIOUS
  <2>3. e \in [1 .. Len(s) -> T]
    BY <1>1, <2>1, <2>2
  <2>4. e \in Seq(T)
    BY <1>1, <2>3
  <2> QED BY <2>2, <2>4
<1>4. ASSUME NEW n \in Nat PROVE IsList(SubSeq(s, 1, n))
  <2>1. PICK e : e = SubSeq(s, 1, n)
    OBVIOUS
  <2>2. e = [i \in 1 .. n |-> s[i]]
    BY <2>1
  <2>3. e \in [1 .. n -> Range(e)]
    BY <2>2 DEF Range
  <2>4. e \in Seq(Range(e))
    BY <2>3
  <2> QED BY <2>1, <2>4 DEF IsList
<1>5. ASSUME s # <<>> PROVE Len(s) - 1 \in Nat
  <2>1. Len(s) # 0
    BY <1>1, <1>5
  <2> QED BY <1>1, <2>1
<1> QED BY <1>2, <1>3, <1>4, <1>5, ListOf

(* The calls of finalizers in progress are a list; each began on the stack. *)
Nested == IsList(frames) /\ \A k \in DOMAIN frames : frames[k].base \in Nat

(* The heap, the stack and the calls; once lua_close has begun, all udata   *)
(* but the ones made since are finalized or on the queue.                   *)
HeapAndStack ==
  /\ HeapInv(g) /\ IsList(stack) /\ Nested
  /\ Closing /\ ~closed => Gathered(g)

(* Where the running function's values begin. *)
LEMMA BaseFacts == Nested => Base \in Nat
<1> SUFFICES ASSUME Nested PROVE Base \in Nat
  OBVIOUS
<1>1. Len(frames) \in Nat /\ DOMAIN frames = 1 .. Len(frames)
  BY ListFacts DEF Nested
<1>2. CASE frames = <<>>
  BY <1>2 DEF Base
<1>3. CASE frames # <<>>
  <2>1. Len(frames) # 0
    BY <1>3 DEF Nested, IsList
  <2>2. Len(frames) \in DOMAIN frames
    BY <1>1, <2>1
  <2> QED BY <1>3, <2>2 DEF Base, Nested
<1> QED BY <1>2, <1>3

(* What an operation, or another step that begins and ends no call, must   *)
(* do to keep the invariant.                                               *)
LEMMA SameCalls ==
  ASSUME HeapAndStack, frames' = frames, closed' = closed, IsList(stack'),
         full' # "close", HeapInv(g'), Closing => (Gathered(g) => Gathered(g'))
  PROVE  HeapAndStack'
<1>1. Nested' /\ (Closing' => Closing)
  BY DEF HeapAndStack, Nested, Closing
<1>2. HeapInv(g)' /\ IsList(stack)'
  BY DEF HeapInv, Shape, Lists, Sorted, Called, Spared, isdead, otherwhite, Mark,
     IsList
<1>3. (Closing /\ ~closed => Gathered(g))'
  BY <1>1 DEF HeapAndStack, Gathered
<1> QED BY <1>1, <1>2, <1>3, Zenon DEF HeapAndStack

(* The heap lua_newstate makes satisfies the invariant. *)
LEMMA HeapInit == GCInit => HeapAndStack
<1> SUFFICES ASSUME GCInit PROVE HeapAndStack
  OBVIOUS
<1>1. PICK r : r = [tt |-> "table", mark |-> "white0", fin |-> FALSE, gc |-> FALSE,
                    key |-> Null, val |-> Null, at |-> 0, calls |-> 0, late |-> FALSE]
  OBVIOUS
<1>2. /\ DOMAIN r = ObjFields /\ r.tt = "table" /\ r.gc = FALSE /\ r.at = 0
         /\ r.calls = 0
  BY <1>1 DEF ObjFields
<1>3. PICK one : one = <<Globals>>
  OBVIOUS
<1>4. IsList(one) /\ Range(one) = {Globals}
  BY <1>3, OneFacts
<1>5. /\ g.obj = [o \in {Globals} |-> r] /\ g.rootgc = one
      /\ g.udata = <<>> /\ g.tmudata = <<>> /\ g.openupval = <<>> /\ g.weak = <<>>
      /\ g.gcstate = "pause" /\ g.missed = FALSE /\ stack = <<>>
      /\ DOMAIN g = Fields
  BY <1>1, <1>3, SMT DEF GCInit, Fields
<1>6. DOMAIN g.obj = {Globals} /\ g.obj[Globals] = r
  BY <1>5
<1>7. IsList(<<>>) /\ Range(<<>>) = {} /\ IsInjective(<<>>)
  BY EmptyFacts
<1>8. Shape(g)
  BY <1>2, <1>5, <1>6, <1>7 DEF Shape, Phases
<1>9. Lists(g)
  BY <1>4, <1>5, <1>7 DEF Lists
<1>10. Sorted(g) /\ Called(g) /\ Spared(g)
  BY <1>2, <1>4, <1>5, <1>6, <1>7 DEF Sorted, Called, Spared
<1>11. Nested /\ ~Closing
  <2>1. frames = <<>> /\ full = "no"
    BY DEF GCInit
  <2>2. DOMAIN frames = {}
    BY <2>1
  <2> QED BY <1>7, <2>1, <2>2 DEF Nested, Closing
<1> QED BY <1>5, <1>7, <1>8, <1>9, <1>10, <1>11 DEF HeapAndStack, HeapInv

(* Every operation of the program and every step of the collector keeps    *)
(* the invariant, and the stack a list.                                    *)
LEMMA HeapStep == HeapAndStack /\ [GCNext]_gcVars => HeapAndStack'
<1> SUFFICES ASSUME HeapAndStack, [GCNext]_gcVars PROVE HeapAndStack'
  OBVIOUS
<1>0. HeapInv(g) /\ IsList(stack) /\ Shape(g) /\ Base \in Nat /\ Nested
  BY BaseFacts DEF HeapInv, HeapAndStack
<1>a. ASSUME Operate, IsList(stack'), Keeps(g, g') PROVE HeapAndStack'
  <2>1. frames' = frames /\ closed' = closed /\ full' # "close"
    BY <1>a DEF Operate, Operation
  <2> QED BY <1>a, <2>1, SameCalls DEF Keeps
<1>1. CASE NewTable
  <2>1. Operate /\ \E tt \in Tables :
          CanMake(g, tt) /\ Push(NewAddress(g)) /\ g' = luaH_new(g, tt)
    BY <1>1 DEF NewTable, Become
  <2>5. PICK tt \in Tables :
          CanMake(g, tt) /\ Push(NewAddress(g)) /\ g' = luaH_new(g, tt)
    BY <2>1
  <2>2. NewAddress(g) \notin DOMAIN g.obj
    BY <2>5, NewAddressFacts DEF CanMake
  <2>3. tt \notin {"udata", "string", "upval"}
    BY DEF Tables
  <2>4. Keeps(g, luaH_new(g, tt))
    BY <1>0, <2>2, <2>3, NewLinked DEF luaH_new
  <2>6. IsList(stack')
    BY <1>0, <2>5, StackFacts DEF Push
  <2> QED BY <1>a, <2>1, <2>4, <2>5, <2>6
<1>2. CASE NewUdata
  <2>1. PICK gc \in BOOLEAN :
          CanMake(g, "udata") /\ Push(NewAddress(g)) /\ g' = luaS_newudata(g, gc)
    BY <1>2 DEF NewUdata, Become
  <2>2. /\ HeapInv(luaS_newudata(g, gc))
        /\ Closing => Keeps(g, luaS_newudata(g, gc))
    BY <1>0, <2>1, luaS_newudataHeap DEF CanMake
  <2>3. IsList(stack') /\ frames' = frames /\ closed' = closed /\ full' # "close"
    BY <1>0, <1>2, <2>1, StackFacts DEF Push, NewUdata, Operate, Operation
  <2>4. HeapInv(g') /\ (Closing => (Gathered(g) => Gathered(g')))
    BY <2>1, <2>2 DEF Keeps
  <2> QED BY <2>3, <2>4, SameCalls
<1>3. CASE NewString
  <2>1. PICK s, o : \/ Push(o) /\ g' = Resurrected(g, o)
                    \/ CanMake(g, "string") /\ Push(o) /\ g' = newlstr(g, s)
    BY <1>3 DEF NewString, Become
  <2>2. ASSUME Push(o), g' = Resurrected(g, o) PROVE Keeps(g, g')
    BY <1>0, <2>2, ResurrectedHeap
  <2>3. ASSUME CanMake(g, "string"), g' = newlstr(g, s) PROVE Keeps(g, g')
    BY <1>0, <2>3, newlstrHeap DEF CanMake
  <2>4. IsList(stack') /\ Operate
    BY <1>0, <1>3, <2>1, StackFacts DEF Push, NewString
  <2> QED BY <1>a, <2>1, <2>2, <2>3, <2>4
<1>4. CASE NewClosure
  <2>1. PICK c, made :
          c = NewAddress(g) /\ made = luaC_link(Placed(g, c, Object(g, "closure")), c)
    OBVIOUS
  <2>2. PICK level \in Base + 1 .. Len(stack) :
          /\ CanMake(g, "closure")
          /\ (\E u \in Range(g.openupval) : g.obj[u].at = level)
             \/ CanMake(made, "upval")
          /\ Push(c)
          /\ g' = [luaF_findupval(made,
             level).h EXCEPT !.obj[c].key = luaF_findupval(made, level).u]
    BY <1>4, <2>1 DEF NewClosure, Become
  <2>3. c \notin DOMAIN g.obj
    BY <2>1, <2>2, NewAddressFacts DEF CanMake
  <2>4. /\ Keeps(g, made) /\ HeapInv(made) /\ made.openupval = g.openupval
        /\ \A x \in DOMAIN g.obj : made.obj[x] = g.obj[x]
    BY <1>0, <2>1, <2>3, NewLinked DEF Keeps
  <2>5. level > 0
    BY <1>0
  <2>6. (\E u \in Range(made.openupval) : made.obj[u].at = level)
          \/ Addresses \ DOMAIN made.obj # {}
    <3>1. \A u \in Range(g.openupval) : u \in DOMAIN g.obj
      BY <1>0 DEF HeapInv, Sorted
    <3> QED BY <2>2, <2>4, <3>1 DEF CanMake
  <2>7. PICK f : f = luaF_findupval(made, level)
    OBVIOUS
  <2>8. Keeps(g, f.h) /\ HeapInv(f.h)
    <3>1. Keeps(made, f.h)
      BY <2>4, <2>5, <2>6, <2>7, luaF_findupvalHeap
    <3> QED BY <2>4, <3>1, KeepsTwice DEF Keeps
  <2>9. Darker(f.h, [f.h EXCEPT !.obj[c].key = f.u])
    BY <2>8, EntryDarker DEF HeapInv
  <2>10. Keeps(g, [f.h EXCEPT !.obj[c].key = f.u])
    BY <2>8, <2>9, DarkerKeeps, KeepsTwice
  <2>11. IsList(stack') /\ Operate
    BY <1>0, <1>4, <2>2, StackFacts DEF Push, NewClosure
  <2> QED BY <1>a, <2>2, <2>7, <2>10, <2>11
<1>5. CASE Fetch
  <2>1. PICK v : Push(v) /\ g' = g
    BY <1>5 DEF Fetch
  <2>2. IsList(stack') /\ Operate
    BY <1>0, <1>5, <2>1, StackFacts DEF Push, Fetch
  <2>3. Keeps(g, g')
    BY <1>0, <2>1 DEF Keeps
  <2> QED BY <1>a, <2>2, <2>3
<1>6. CASE SetTable
  <2>1. PICK t, v, k :
          /\ g' = SetVal(luaC_barriert([g EXCEPT !.obj[t].key = k], t, k), t, v)
          /\ stack' = stack
    BY <1>6 DEF SetTable, Become
  <2>2. PICK a : a = [g EXCEPT !.obj[t].key = k]
    OBVIOUS
  <2>3. Keeps(g, a) /\ HeapInv(a)
    BY <1>0, <2>2, EntryDarker, DarkerKeeps DEF Keeps
  <2>4. PICK b : b = luaC_barriert(a, t, k)
    OBVIOUS
  <2>5. Keeps(a, b) /\ HeapInv(b)
    BY <2>3, <2>4, luaC_barriertDarker, DarkerKeeps DEF HeapInv, Keeps
  <2>6. Keeps(b, SetVal(b, t, v))
    BY <2>5, SetValDarker, DarkerKeeps DEF HeapInv
  <2>7. Keeps(g, g')
    BY <2>1, <2>2, <2>3, <2>4, <2>5, <2>6, KeepsTwice
  <2>8. IsList(stack') /\ Operate
    BY <1>0, <1>6, <2>1 DEF SetTable
  <2> QED BY <1>a, <2>7, <2>8
<1>7. CASE SetUpval
  <2>1. PICK u, v : \/ stack' = [stack EXCEPT ![g.obj[u].at] = v] /\ g' = g
                    \/ g' = luaC_barrier([g EXCEPT !.obj[u].val = v], u, v)
                       /\ stack' = stack
    BY <1>7 DEF SetUpval, Become
  <2>2. PICK a : a = [g EXCEPT !.obj[u].val = v]
    OBVIOUS
  <2>3. Keeps(g, a) /\ HeapInv(a)
    BY <1>0, <2>2, EntryDarker, DarkerKeeps DEF Keeps
  <2>4. Keeps(g, luaC_barrier(a, u, v)) /\ Keeps(g, g)
    BY <1>0, <2>3, luaC_barrierKin, KinKeeps, KeepsTwice DEF HeapInv, Keeps
  <2>5. CASE stack' = [stack EXCEPT ![g.obj[u].at] = v] /\ g' = g
    <3>1. \A i : IsList([stack EXCEPT ![i] = v])
      BY <1>0, StackFacts, Zenon
    <3>2. IsList(stack') /\ Keeps(g, g')
      BY <2>4, <2>5, <3>1, Zenon
    <3> QED BY <1>7, <1>a, <3>2 DEF SetUpval
  <2>6. CASE g' = luaC_barrier([g EXCEPT !.obj[u].val = v], u, v) /\ stack' = stack
    BY <1>0, <1>7, <1>a, <2>2, <2>4, <2>6 DEF SetUpval
  <2> QED BY <2>1, <2>5, <2>6
<1>8. CASE SetEnv
  <2>1. PICK u, t :
          g' = luaC_barrier([g EXCEPT !.obj[u].key = t], u, t) /\ stack' = stack
    BY <1>8 DEF SetEnv, Become
  <2>2. PICK a : a = [g EXCEPT !.obj[u].key = t]
    OBVIOUS
  <2>3. Keeps(g, a) /\ HeapInv(a)
    BY <1>0, <2>2, EntryDarker, DarkerKeeps DEF Keeps
  <2>4. Keeps(g, luaC_barrier(a, u, t))
    BY <2>3, luaC_barrierKin, KinKeeps, KeepsTwice DEF HeapInv
  <2> QED BY <1>0, <1>8, <1>a, <2>1, <2>2, <2>4 DEF SetEnv
<1>9. CASE Leave
  <2>1. /\ Operate /\ g' = luaF_close(g, Len(stack)) /\ Len(stack) > Base
        /\ stack' = SubSeq(stack, 1, Len(stack) - 1)
    BY <1>9 DEF Leave, Become
  <2>2. Len(stack) - 1 \in Nat
    BY <1>0, <2>1, ListFacts
  <2>3. IsList(stack')
    BY <1>0, <2>1, <2>2, StackFacts
  <2> QED BY <1>0, <1>a, <2>1, <2>3, luaF_closeHeap
<1>10. CASE FullGC
  <2>1. PICK k :
          k = [g EXCEPT !.sweepstrgc = 0, !.sweepgc = Len(AllObjects(g)),
                        !.gray = <<>>, !.grayagain = <<>>, !.weak = <<>>,
                        !.gcstate = "sweepstring"]
    OBVIOUS
  <2>2. Elsewhere(g, k)
    BY <1>0, <2>1, EmptyFacts DEF Elsewhere, Shape, Fields, Phases
  <2>3. HeapInv(k)
    BY <1>0, <2>2, ElsewhereHeap
  <2>4. g' \in {k, g} /\ stack' = stack
    BY <1>10, <2>1 DEF FullGC, Become
  <2>5. frames' = frames /\ closed' = closed /\ full' # "close" /\ ~Closing
    BY <1>10 DEF FullGC, Operation
  <2> QED BY <1>0, <2>3, <2>4, <2>5, SameCalls
<1>11. CASE FullMark
  <2>1. /\ g' = markroot(g) /\ stack' = stack /\ frames' = frames
        /\ closed' = closed /\ full' # "close"
    BY <1>11 DEF FullMark, Become
  <2>2. Keeps(g, g')
    BY <1>0, <2>1, markrootHeap
  <2> QED BY <1>0, <2>1, <2>2, SameCalls DEF Keeps
<1>12. CASE CollectorStep
  <2>1. /\ g' = singlestep(g) /\ stack' = stack /\ frames' = frames
        /\ closed' = closed /\ ~Closing /\ full' # "close"
    BY <1>12 DEF CollectorStep, Become, Closing
  <2>2. HeapInv(g')
    BY <1>0, <2>1, singlestepHeap
  <2> QED BY <1>0, <2>1, <2>2, SameCalls
<1>13. CASE GCTM
  <2>1. PICK call : call = [base |-> Len(stack), full |-> full]
    OBVIOUS
  <2>2. /\ g.tmudata # <<>> /\ g' = Returned(g) /\ full' = "no"
        /\ stack' = Append(stack, Head(g.tmudata)) /\ frames' = Append(frames, call)
        /\ closed' = closed /\ (full = "close" \/ ~Closing)
    BY <1>13, <2>1 DEF GCTM, Become
  <2>3. HeapInv(g') /\ (Gathered(g) => Gathered(g')) /\ IsList(stack')
    BY <1>0, <2>2, ReturnedHeap, StackFacts
  <2>4. /\ IsList(frames') /\ Len(frames) \in Nat
        /\ DOMAIN frames = 1 .. Len(frames) /\ DOMAIN frames' = 1 .. Len(frames) + 1
        /\ \A k \in DOMAIN frames : frames'[k] = frames[k]
        /\ frames'[Len(frames) + 1] = call
    <3>1. IsList(frames) /\ Len(frames) \in Nat /\ DOMAIN frames = 1 .. Len(frames)
      BY <1>0, ListFacts DEF Nested
    <3>2. frames \in Seq(Range(frames))
      BY <3>1 DEF IsList
    <3> QED BY <2>2, <3>1, <3>2, StackFacts
  <2>5. Nested'
    <3>1. call.base \in Nat
      BY <1>0, <2>1, ListFacts
    <3>2. \A k \in DOMAIN frames' : frames'[k].base \in Nat
      BY <1>0, <2>4, <3>1 DEF Nested
    <3> QED BY <2>4, <3>2 DEF Nested, IsList
  <2>6. Closing' => Closing
    <3>1. ASSUME NEW k \in DOMAIN frames', frames'[k].full = "close" PROVE Closing
      <4>1. k \in DOMAIN frames \/ frames'[k] = call
        BY <2>4
      <4> QED BY <2>1, <2>4, <3>1, <4>1 DEF Closing
    <3> QED BY <2>2, <3>1 DEF Closing
  <2>7. (Closing /\ ~closed => Gathered(g))'
    BY <2>2, <2>3, <2>6 DEF HeapAndStack, Gathered
  <2>8. HeapInv(g)' /\ IsList(stack)'
    BY <2>3 DEF HeapInv, Shape, Lists, Sorted, Called, Spared, isdead, otherwhite,
       Mark, IsList
  <2> QED BY <2>5, <2>7, <2>8, Zenon DEF HeapAndStack
<1>14. CASE FinalizerReturns
  <2>1. PICK n, call : n = Len(frames) - 1 /\ call = frames[Len(frames)]
    OBVIOUS
  <2>2. /\ frames # <<>> /\ g' = luaF_close(g, Base + 1) /\ closed' = closed
        /\ stack' = SubSeq(stack, 1, Base) /\ frames' = SubSeq(frames, 1, n)
        /\ full' \in {"no", call.full}
    BY <1>14, <2>1 DEF FinalizerReturns, Become
  <2>3. Keeps(g, g') /\ IsList(stack')
    BY <1>0, <2>2, luaF_closeHeap, StackFacts
  <2>4. /\ n \in Nat /\ n + 1 = Len(frames) /\ DOMAIN frames = 1 .. n + 1
        /\ IsList(frames') /\ DOMAIN frames' = 1 .. n
        /\ \A k \in 1 .. n : frames'[k] = frames[k]
    <3>1. IsList(frames) /\ Len(frames) \in Nat /\ DOMAIN frames = 1 .. Len(frames)
      BY <1>0, ListFacts DEF Nested
    <3>2. n \in Nat
      BY <2>1, <2>2, <3>1, StackFacts
    <3>3. frames' = [k \in 1 .. n |-> frames[k]]
      BY <2>2, <3>2
    <3>4. IsList(SubSeq(frames, 1, n))
      BY <3>1, <3>2, StackFacts
    <3>5. n + 1 = Len(frames) /\ DOMAIN frames = 1 .. n + 1
      BY <2>1, <3>1
    <3>6. DOMAIN frames' = 1 .. n /\ \A k \in 1 .. n : frames'[k] = frames[k]
      BY <3>3, Zenon
    <3> QED BY <2>2, <3>2, <3>4, <3>5, <3>6
  <2>5. Nested'
    <3>1. \A k \in DOMAIN frames' : frames'[k].base \in Nat
      BY <1>0, <2>4 DEF Nested
    <3> QED BY <2>4, <3>1 DEF Nested, IsList
  <2>6. Closing' => Closing
    <3>1. n + 1 \in DOMAIN frames /\ call = frames[n + 1]
      BY <2>1, <2>4
    <3> QED BY <2>2, <2>4, <3>1 DEF Closing
  <2>7. (Closing /\ ~closed => Gathered(g))'
    BY <2>2, <2>3, <2>6 DEF HeapAndStack, Gathered, Keeps
  <2>8. HeapInv(g)' /\ IsList(stack)'
    BY <2>3 DEF Keeps, HeapInv, Shape, Lists, Sorted, Called, Spared, isdead,
       otherwhite, Mark, IsList
  <2> QED BY <2>5, <2>7, <2>8, Zenon DEF HeapAndStack
<1>15. CASE CloseBegins
  <2>1. PICK c : c = luaF_close(g, 1)
    OBVIOUS
  <2>2. HeapInv(c)
    BY <1>0, <2>1, luaF_closeHeap DEF Keeps
  <2>3. g' = luaC_separateudata(c, TRUE) /\ stack' = <<>> /\ frames' = frames
    BY <1>15, <2>1 DEF CloseBegins, Become
  <2>4. HeapInv(g') /\ AllDue(g', TRUE)
    BY <2>2, <2>3, luaC_separateudataHeap
  <2>5. Gathered(g')
    BY <2>4 DEF AllDue, Gathered
  <2>6. Nested' /\ IsList(stack')
    BY <1>0, <2>3, EmptyFacts DEF Nested
  <2>7. HeapInv(g)' /\ IsList(stack)' /\ Gathered(g)'
    BY <2>4, <2>5, <2>6 DEF HeapInv, Shape, Lists, Sorted, Called, Spared, isdead,
       otherwhite, Mark, IsList, Gathered
  <2> QED BY <2>6, <2>7, Zenon DEF HeapAndStack
<1>16. CASE CloseEnds
  <2>1. PICK h : h = luaF_close(g, 1)
    OBVIOUS
  <2>2. PICK k : k = luaC_freeall(h)
    OBVIOUS
  <2>3. /\ g' = [k EXCEPT !.gray = <<>>, !.grayagain = <<>>, !.weak = <<>>]
        /\ g.tmudata = <<>> /\ full = "close" /\ ~closed /\ closed' = TRUE
        /\ stack' = stack /\ frames' = frames
    BY <1>16, <2>1, <2>2 DEF CloseEnds, Become
  <2>4. Gathered(g)
    BY <2>3 DEF HeapAndStack, Closing
  <2>5. HeapInv(h) /\ Gathered(h) /\ h.tmudata = <<>>
    BY <1>0, <2>1, <2>3, <2>4, luaF_closeHeap DEF Keeps
  <2>6. HeapInv(k)
    BY <2>2, <2>5, luaC_freeallHeap
  <2>7. Elsewhere(k, g')
    BY <2>3, <2>6, EmptyFacts DEF HeapInv, Elsewhere, Shape, Fields
  <2>8. HeapInv(g')
    BY <2>6, <2>7, ElsewhereHeap
  <2>9. Nested' /\ IsList(stack')
    BY <1>0, <2>3 DEF Nested
  <2>10. HeapInv(g)' /\ IsList(stack)'
    BY <2>8, <2>9 DEF HeapInv, Shape, Lists, Sorted, Called, Spared, isdead,
       otherwhite, Mark, IsList
  <2> QED BY <2>3, <2>9, <2>10, Zenon DEF HeapAndStack
<1>17. CASE UNCHANGED gcVars
  <2>1. UNCHANGED <<g, stack, full, frames, closed>>
    BY <1>17 DEF gcVars
  <2>2. Nested' /\ (Closing' <=> Closing)
    BY <1>0, <2>1 DEF Nested, Closing
  <2>3. HeapInv(g)' /\ IsList(stack)' /\ (Gathered(g)' <=> Gathered(g))
    BY <1>0, <2>1 DEF HeapInv, Shape, Lists, Sorted, Called, Spared, isdead,
       otherwhite, Mark, IsList, Gathered
  <2> QED BY <2>1, <2>2, <2>3, Zenon DEF HeapAndStack
<1> QED BY <1>1, <1>2, <1>3, <1>4, <1>5, <1>6, <1>7, <1>8, <1>9, <1>10,
           <1>11, <1>12, <1>13, <1>14, <1>15, <1>16, <1>17 DEF GCNext

(* Theorem: a gc method is called at most once, and no udata that has one  *)
(* is freed before the call (luaC_separateudata, GCTM, sweeplist and       *)
(* lua_close), but for those a finalizer makes once lua_close has begun;   *)
(* whatever the program and the finalizers do between the collector's      *)
(* steps, for any number of objects of each type, operations, addresses.   *)
THEOREM FinalizersRunOnce == GCSpec => []FinalizedOnce
<1>1. HeapAndStack => FinalizedOnce
  BY DEF HeapAndStack, HeapInv, Called, Spared, FinalizedOnce
<1> QED BY HeapInit, HeapStep, <1>1, PTL DEF GCSpec
-----------------------------------------------------------------------------

(* pthread_once of the Windows build, which the drivers that these scripts *)
(* use are initialised with: what WinThreads promises of it, for any       *)
(* number of threads and events.                                           *)

WinPlaces ==
  {"once", "initialise", "initialised", "sleep", "lock", "test", "count",
   "leave", "wait", "woken", "ended", "wake", "unlock"}

(* The states of once_control: nobody has come yet; one thread runs        *)
(* init_routine, or has run it, while the others that came sleep; it is    *)
(* done, and nobody is in it.                                              *)
OnceInv ==
  /\ once_control = "init" =>
       inits = 0 /\ \A r \in Runners : where[r] = "once"
  /\ once_control = "inprogress" =>
       \E i \in Runners :
         /\ \/ where[i] = "initialise" /\ inits = 0
            \/ where[i] = "initialised" /\ inits = 1
         /\ \A r \in Runners \ {i} : where[r] \in {"once", "sleep"}
  /\ once_control = "done" =>
       inits = 1 /\ \A r \in Runners : where[r] \notin {"initialise", "initialised"}

(* The inductive invariant. *)
OnceIInv ==
  /\ where \in [Runners \cup {Generator} -> WinPlaces]
  /\ once_control \in {"init", "inprogress", "done"}
  /\ OnceInv

(* Where pthread_once sends a thread. *)
LEMMA OnceFacts ==
  ASSUME NEW r \in Runners, OnceEnters(r)
  PROVE  /\ where[r] = "once" /\ inits' = inits
         /\ once_control = "init" =>
              where' = [where EXCEPT ![r] = "initialise"] /\ once_control' = "inprogress"
         /\ once_control = "inprogress" =>
              where' = [where EXCEPT ![r] = "sleep"] /\ once_control' = once_control
         /\ once_control = "done" =>
              where' = [where EXCEPT ![r] = "lock"] /\ once_control' = once_control
BY Zenon DEF OnceEnters, Step

(* No other step moves a thread into init_routine, and a step that leaves  *)
(* the once_control alone starts where the thread has passed it.           *)
LEMMA OnceOthers ==
  ASSUME OnceIInv, NEW r \in Runners,
         \/ OnceWaits(r)
         \/ RunnerLocks(r) \/ TakesEvent(r)
         \/ WaitBegins(r) \/ WaiterCounted(r) \/ WaiterLeaves(r)
         \/ WaiterWoken(r) \/ WaitEnds(r)
  PROVE  OnceIInv'
<1>1. /\ UNCHANGED <<once_control, inits>>
      /\ \E to \in {"lock", "ended", "test", "count", "leave", "wait", "woken"} :
           where' = [where EXCEPT ![r] = to]
      /\ \/ where[r] \in {"lock", "test", "count", "leave", "wait", "woken"}
         \/ where[r] = "sleep" /\ once_control # "inprogress"
  <2>1. CASE OnceWaits(r)
    BY <2>1, Zenon DEF OnceWaits, Step, once
  <2>2. CASE RunnerLocks(r) \/ TakesEvent(r)
    BY <2>2, Zenon DEF RunnerLocks, TakesEvent, Step, once
  <2>3. CASE WaitBegins(r) \/ WaiterCounted(r) \/ WaiterLeaves(r)
    BY <2>3, Zenon DEF WaitBegins, WaiterCounted, WaiterLeaves, Step, once
  <2>4. CASE WaiterWoken(r) \/ WaitEnds(r)
    BY <2>4, Zenon DEF WaiterWoken, WaitEnds, Step, once
  <2> QED BY <2>1, <2>2, <2>3, <2>4
<1>2. once_control \notin {"init", "inprogress"}
  BY <1>1 DEF OnceIInv, OnceInv
<1> QED BY <1>1, <1>2 DEF OnceIInv, OnceInv, WinPlaces

(* Every step keeps the invariant. *)
LEMMA OnceNext == OnceIInv /\ [WinNext]_winVars => OnceIInv'
<1> SUFFICES ASSUME OnceIInv, [WinNext]_winVars PROVE OnceIInv'
  OBVIOUS
<1>1. ASSUME NEW r \in Runners, OnceEnters(r) PROVE OnceIInv'
  <2>1. CASE once_control = "init"
    BY <1>1, <2>1, OnceFacts DEF OnceIInv, OnceInv, WinPlaces
  <2>2. CASE once_control = "inprogress"
    BY <1>1, <2>2, OnceFacts DEF OnceIInv, OnceInv, WinPlaces
  <2>3. CASE once_control = "done"
    BY <1>1, <2>3, OnceFacts DEF OnceIInv, OnceInv, WinPlaces
  <2> QED BY <2>1, <2>2, <2>3 DEF OnceIInv
<1>2. ASSUME NEW r \in Runners, InitRoutine(r) \/ OnceDone(r) PROVE OnceIInv'
  <2>1. once_control = "inprogress"
    BY <1>2 DEF InitRoutine, OnceDone, Step, OnceIInv, OnceInv
  <2>2. /\ \A q \in Runners \ {r} : where[q] \in {"once", "sleep"}
        /\ where[r] = "initialise" => inits = 0
        /\ where[r] = "initialised" => inits = 1
    BY <1>2, <2>1 DEF InitRoutine, OnceDone, Step, OnceIInv, OnceInv
  <2>3. CASE InitRoutine(r)
    BY <2>1, <2>2, <2>3 DEF InitRoutine, Step, OnceIInv, OnceInv, WinPlaces
  <2>4. CASE OnceDone(r)
    BY <2>2, <2>4 DEF OnceDone, Step, OnceIInv, OnceInv, WinPlaces
  <2> QED BY <1>2, <2>3, <2>4
<1>3. CASE GeneratorStep
  <2>1. /\ UNCHANGED <<once_control, inits>>
        /\ \E to \in {"lock", "wake", "unlock"} :
             where' = [where EXCEPT ![Generator] = to]
    BY <1>3, Zenon DEF GeneratorStep, GeneratorLocks, GeneratorWakes,
       GeneratorUnlocks, Step, once
  <2> QED BY <2>1, WinThreadsAssumption DEF OnceIInv, OnceInv, WinPlaces
<1>4. CASE UNCHANGED winVars
  BY <1>4 DEF winVars, once, OnceIInv, OnceInv
<1> QED BY <1>1, <1>2, <1>3, <1>4, OnceOthers DEF WinNext, WaiterStep

(* The inductive invariant holds throughout. *)
THEOREM OnceInvariance == WinSpec => []OnceIInv
<1>1. WinInit => OnceIInv
  BY WinThreadsAssumption DEF WinInit, OnceIInv, OnceInv, WinPlaces
<1> QED BY <1>1, OnceNext, PTL DEF WinSpec

(* pthread_once of sb_win.c: however many threads come, and in whatever    *)
(* order they read and exchange once_control, init_routine runs once and   *)
(* has returned when a thread goes on.                                     *)
THEOREM InitialisedOnce == WinSpec => []OnceInitialised
<1>1. OnceIInv => OnceInitialised
  BY DEF OnceIInv, OnceInv, OnceInitialised
<1> QED BY <1>1, OnceInvariance, PTL
=============================================================================
