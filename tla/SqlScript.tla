----------------------------- MODULE SqlScript ------------------------------
(***************************************************************************)
(* Lua scripts on a database (scripting/script_lua.c), the driver          *)
(* independent layer below them (db_driver.c) and its five drivers         *)
(* (module DbDrivers).                                                     *)
(*                                                                         *)
(* A script is three sequences of database calls, those of its functions   *)
(* thread_init, event and thread_done.  A call is one step: a connection   *)
(* belongs to one thread.  What the server answers is chosen: "ok",        *)
(* "retry" (a deadlock or a lock wait timeout), "lost" (the connection),   *)
(* "fail".  The driver makes of it one of the layer's error codes.         *)
(***************************************************************************)
EXTENDS DbDrivers, Sequences, FiniteSets

CONSTANTS
  Threads,            \* the runner threads
  Configs,            \* the runs: a script, a driver and its options
  max_requests,       \* --max-requests
  MaxFaults,          \* bound on what goes wrong at the server
  BULK_PACKET_SIZE,   \* room in the buffer of a bulk insert
  ROWS_BEFORE_COMMIT

(* The calls of a script; a db_query is its query, "store" and "free". *)
Queries == {"begin", "select", "commit"}
OfStatement == {"bind", "bind_result", "execute", "close"}
OfConnection ==
  OfStatement \cup {"store", "free", "bulk_next", "bulk_done"}
ScriptCalls ==
  Queries \cup OfConnection \cup {"prepare", "bulk_init", "disconnect"}

bulk_ptr_orig == 1

ASSUME SqlScriptAssumption ==
  /\ IsFiniteSet(Threads) /\ Threads # {}
  /\ \A c \in Configs : /\ c.driver \in Drivers
                        /\ c.ignored \subseteq Answers \cup {"detached"}
                        /\ c.param \in {"int", "string"}
                        /\ {c.ps, c.dry_run} \subseteq BOOLEAN
                        /\ c.dry_run => c.driver = "mysql"
                        /\ c.hosts \in Nat \ {0} /\ c.sockets \in Nat
                        /\ c.script \in [{"init", "event", "done"} -> Seq(ScriptCalls)]
                        /\ c.row_lengths \subseteq Nat
  /\ {max_requests, ROWS_BEFORE_COMMIT} \subseteq Nat \ {0}
  /\ {MaxFaults, BULK_PACKET_SIZE} \subseteq Nat
  /\ bulk_ptr_orig + 1 <= BULK_PACKET_SIZE  \* or db_bulk_insert_init refuses

VARIABLES
  cfg,         \* the run
  nevents,     \* events handed out, as the generator counts them
  error,       \* sb_globals.error
  panic,       \* an error outside a protected call has ended the process
  hosts_pos,   \* the last host of the round robin
  frame,       \* thread -> "init", "get", "inc", "event", "done", "ended"
  ip,          \* thread -> the next call of its function
  seen,        \* thread -> nevents as the generator has read it, 0 if it has not
  con,         \* thread -> its connection: "no", "yes" or "lost"
  host,        \* thread -> where it is connected to
  reconnecting,\* thread -> "no", or the kind of call that reconnects
  stmt,        \* thread -> "none", "server", "emulated", "detached", "closed"
  rs,          \* thread -> its result set: "none", "open" (unread), "stored"
  rstmt,       \* thread -> whether that is of a statement
  bulk,        \* thread -> [ptr, cnt, commit_cnt] of its bulk insert
  faults,      \* bound: what went wrong at the server
  granted,     \* history: events handed out
  lead,        \* history: thread -> queries counted minus queries performed
  given, inserted, committed, \* history: rows by thread, see BulkConservation
  bulkFailed,  \* history: thread -> what of its bulk insert has failed: "no",
               \* "insert_fails", "commit_fails", "lost" (rows were dropped)
  sent,        \* history: what was sent for the values of parameters
  outOfSync    \* history: a query was sent before a result was read

threadVars == <<frame, ip, seen>>
conVars == <<con, host, stmt, rs, rstmt>>
bulkVars == <<bulk, given, inserted, committed, bulkFailed>>
statVars == <<lead, sent, outOfSync>>
vars == <<cfg, nevents, error, panic, hosts_pos, reconnecting, faults, granted,
          threadVars, conVars, bulkVars, statVars>>

NoBulk == [ptr |-> 0, cnt |-> 0, commit_cnt |-> 0]

Init ==
  /\ cfg \in Configs
  /\ nevents = 0 /\ error = FALSE /\ panic = FALSE /\ hosts_pos = 0
  /\ frame = [t \in Threads |-> IF cfg.script.init = <<>> THEN "get" ELSE "init"]
  /\ ip = [t \in Threads |-> 1]
  /\ seen = [t \in Threads |-> 0]
  /\ con = [t \in Threads |-> "no"]
  /\ host = [t \in Threads |-> 0]
  /\ reconnecting = [t \in Threads |-> "no"]
  /\ stmt = [t \in Threads |-> "none"]
  /\ rs = [t \in Threads |-> "none"]
  /\ rstmt = [t \in Threads |-> FALSE]
  /\ bulk = [t \in Threads |-> NoBulk]
  /\ faults = 0 /\ granted = 0
  /\ lead = [t \in Threads |-> 0]
  /\ given = [t \in Threads |-> 0]
  /\ inserted = [t \in Threads |-> 0]
  /\ committed = [t \in Threads |-> 0]
  /\ bulkFailed = [t \in Threads |-> "no"]
  /\ sent = {}
  /\ outOfSync = FALSE

(* The server answers; one that is lost stays so. *)
Answer(t, a) ==
  IF con[t] = "lost" THEN a = "lost" /\ UNCHANGED faults
  ELSE /\ faults' = faults + (IF a = "ok" THEN 0 ELSE 1)
       /\ faults' <= MaxFaults
-----------------------------------------------------------------------------
(* The functions of a script *)

Program(t) == cfg.script[frame[t]]

(* The thread is about to make this call, and no error has ended it. *)
Calls(t, call) ==
  /\ ~panic
  /\ frame[t] \in {"init", "event", "done"}
  /\ reconnecting[t] = "no"
  /\ ip[t] \in DOMAIN Program(t)
  /\ Program(t)[ip[t]] = call

(* CHECK_CONNECTION, and the check that the statement is one: what has     *)
(* never been prepared is nil in the script.  (A statement the script uses *)
(* after it has closed it, which is freed memory, is left out.)            *)
Usable(t, call) == con[t] # "no" /\ (call \in OfStatement => stmt[t] # "none")

Uses(t, call) == Calls(t, call) /\ Usable(t, call)

Return(t) == ip' = [ip EXCEPT ![t] = @ + 1] /\ UNCHANGED <<frame, seen, error>>

(* A Lua error ends the function; the event function is called again if    *)
(* the error is the number SB_DB_ERROR_RESTART_TRANSACTION.                *)
LuaError(t, e) ==
  LET restart == frame[t] = "event" /\ e = "RESTART" IN
  /\ ip' = [ip EXCEPT ![t] = 1]
  /\ frame' = [frame EXCEPT ![t] = IF restart THEN "event"
                                   ELSE IF frame[t] = "event" THEN "done"
                                   ELSE "ended"]
  /\ error' = (error \/ (~restart /\ frame[t] # "done"))
  /\ UNCHANGED seen

(* A call on a connection or a statement that is not there. *)
CheckFails(t) ==
  /\ \E call \in OfConnection : Calls(t, call) /\ ~Usable(t, call)
  /\ LuaError(t, "MESSAGE")
  /\ UNCHANGED <<cfg, nevents, panic, hosts_pos, reconnecting, faults, granted,
                 conVars, bulkVars, statVars>>

(* The function returns: thread_init before the first event, the event     *)
(* before the next one - if no thread has met an error -, thread_done.     *)
FunctionEnds(t) ==
  /\ ~panic /\ reconnecting[t] = "no"
  /\ frame[t] \in {"init", "event", "done"}
  /\ ip[t] = Len(Program(t)) + 1
  /\ ip' = [ip EXCEPT ![t] = 1]
  /\ frame' = [frame EXCEPT ![t] = CASE @ = "init" -> "get"
                                     [] @ = "event" -> IF error THEN "done" ELSE "get"
                                     [] @ = "done" -> "ended"]
  /\ UNCHANGED <<cfg, nevents, error, panic, hosts_pos, seen, reconnecting,
                 faults, granted, conVars, bulkVars, statVars>>

(* Faulty: one event too many passes the test. *)
CheckEventsLate(t) ==
  /\ ~panic /\ frame[t] = "get"
  /\ IF nevents > max_requests
     THEN frame' = [frame EXCEPT ![t] = "done"] /\ UNCHANGED seen
     ELSE /\ frame' = [frame EXCEPT ![t] = "inc"]
          /\ seen' = [seen EXCEPT ![t] = nevents]
  /\ UNCHANGED <<cfg, nevents, error, panic, hosts_pos, ip, reconnecting,
                 faults, granted, conVars, bulkVars, statVars>>

(* The event generator: nevents is read for the test and for its increment *)
(* without a lock.                                                         *)
CheckEvents(t) ==
  /\ ~panic /\ frame[t] = "get"
  /\ IF nevents >= max_requests
     THEN frame' = [frame EXCEPT ![t] = "done"] /\ UNCHANGED seen
     ELSE /\ frame' = [frame EXCEPT ![t] = "inc"]
          /\ seen' = [seen EXCEPT ![t] = nevents]
  /\ UNCHANGED <<cfg, nevents, error, panic, hosts_pos, ip, reconnecting,
                 faults, granted, conVars, bulkVars, statVars>>

(* The increment, of the value read for the test or of one read again. *)
CountEvent(t) ==
  /\ ~panic /\ frame[t] = "inc"
  /\ nevents' \in {seen[t] + 1, nevents + 1}
  /\ granted' = granted + 1
  /\ frame' = [frame EXCEPT ![t] = "event"]
  /\ seen' = [seen EXCEPT ![t] = 0]
  /\ UNCHANGED <<cfg, error, panic, hosts_pos, ip, reconnecting, faults,
                 conVars, bulkVars, statVars>>
-----------------------------------------------------------------------------
(* Connections *)

(* The calls that connect a thread that is not connected. *)
Connecting == {"begin", "select", "commit", "prepare", "bulk_init"}

(* Connecting is a step of its own, before the call or the function that   *)
(* needs it.  Before thread_init it is not in a protected call: an error   *)
(* there ends the process.                                                 *)
sb_lua_db_connect(t) ==
  LET at_init == frame[t] = "init" /\ ip[t] = 1 IN
  /\ con[t] = "no"
  /\ (at_init /\ ~panic) \/ \E call \in Connecting : Calls(t, call)
  /\ hosts_pos' = ConnectTo(cfg, hosts_pos)
  /\ \/ /\ con' = [con EXCEPT ![t] = "yes"]
        /\ host' = [host EXCEPT ![t] = hosts_pos']
        /\ UNCHANGED <<faults, panic, threadVars, error>>
     \/ /\ MayFailToConnect(cfg) /\ Answer(t, "fail")
        /\ panic' = at_init
        /\ IF at_init THEN UNCHANGED <<threadVars, error>> ELSE LuaError(t, "MESSAGE")
        /\ UNCHANGED <<con, host>>
  /\ UNCHANGED <<cfg, nevents, reconnecting, stmt, rs, rstmt, granted,
                 bulkVars, statVars>>

(* Whatever was in the buffer of a bulk insert is no more. *)
DropRows(t) ==
  bulkFailed' = [bulkFailed EXCEPT ![t] = IF bulk[t].cnt > 0 THEN "lost" ELSE @]

(* db_disconnect closes the session and, with it, its statements; the      *)
(* connection, and with it the bulk insert, is freed.                      *)
sb_lua_db_disconnect(t) ==
  /\ Calls(t, "disconnect")
  /\ Return(t)
  /\ con' = [con EXCEPT ![t] = "no"]
  /\ rs' = [rs EXCEPT ![t] = "none"]
  /\ bulk' = [bulk EXCEPT ![t] = NoBulk]
  /\ DropRows(t)
  /\ UNCHANGED <<cfg, nevents, panic, hosts_pos, host, reconnecting, stmt,
                 rstmt, faults, granted, given, inserted, committed, statVars>>

(* MySQL closes the session, which detaches its statements, and then       *)
(* connects again until it succeeds or some thread has reported an error.  *)
mysql_drv_reconnect(t, kind) ==
  /\ reconnecting' = [reconnecting EXCEPT ![t] = kind]
  /\ stmt' = [stmt EXCEPT ![t] = IF @ = "server" THEN "detached" ELSE @]
  /\ rs' = [rs EXCEPT ![t] = "none"]

(* db_query and db_execute make a restart of it, or an error that ends the *)
(* test; what storing results returns is ignored.                          *)
Reconnect(t) ==
  /\ ~panic /\ reconnecting[t] # "no"
  /\ \/ /\ UNCHANGED faults
        /\ reconnecting' = [reconnecting EXCEPT ![t] = "no"]
        /\ con' = [con EXCEPT ![t] = "yes"]
        /\ IF reconnecting[t] = "store" THEN Return(t) ELSE LuaError(t, "RESTART")
     \/ /\ faults < MaxFaults /\ faults' = faults + 1
        /\ IF error
           THEN /\ reconnecting' = [reconnecting EXCEPT ![t] = "no"]
                /\ IF reconnecting[t] = "store" THEN Return(t) ELSE LuaError(t, "FAILED")
           ELSE UNCHANGED <<reconnecting, threadVars, error>>
        /\ UNCHANGED con
  /\ UNCHANGED <<cfg, nevents, panic, hosts_pos, host, stmt, rs, rstmt,
                 granted, bulkVars, statVars>>
-----------------------------------------------------------------------------
(* Queries and result sets *)

(* db_query and db_execute with what the server and the driver, e, make of *)
(* them: a performed query is counted, an error is raised.  r is the       *)
(* result set if all is well, and of_stmt whether it is of a statement.    *)
Finish(t, a, e, r, of_stmt) ==
  /\ lead' = [lead EXCEPT ![t] = @ + (IF e = "NONE" THEN 1 ELSE 0)
                                 - (IF a = "ok" THEN 1 ELSE 0)]
  /\ outOfSync' = (outOfSync \/ (a = "ok" /\ rs[t] = "open"))
  /\ con' = [con EXCEPT ![t] = AfterAnswer(@, a)]
  /\ rstmt' = [rstmt EXCEPT ![t] = of_stmt]
  /\ IF e = "RECONNECT"
     THEN mysql_drv_reconnect(t, "query") /\ UNCHANGED <<threadVars, error>>
     ELSE /\ IF e = "NONE" THEN Return(t) ELSE LuaError(t, e)
          /\ rs' = [rs EXCEPT ![t] = IF a = "ok" THEN r ELSE "none"]
          /\ UNCHANGED <<reconnecting, stmt>>

db_query(t, query) ==
  \E a \in Answers :
    /\ Calls(t, query) /\ con[t] # "no"
    /\ IF cfg.dry_run THEN a = "ok" /\ UNCHANGED faults ELSE Answer(t, a)
    /\ Finish(t, a, DriverQuery(cfg, a),
              IF query = "select" THEN ResultOf(cfg, "none") ELSE "none", FALSE)
    /\ UNCHANGED <<cfg, nevents, panic, hosts_pos, host, sent, granted,
                   bulkVars>>

StmtOfResult(t) == IF rstmt[t] THEN stmt[t] ELSE "none"

(* All rows are fetched.  If the connection is lost meanwhile that is not  *)
(* reported; MySQL may reconnect.                                          *)
db_store_results(t) ==
  \E a \in {"ok", "lost"} :
    /\ Uses(t, "store")
    /\ IF rs[t] = "open" THEN Answer(t, a) ELSE a = "ok" /\ UNCHANGED faults
    /\ con' = [con EXCEPT ![t] = AfterAnswer(@, a)]
    /\ IF cfg.driver = "mysql" /\ a = "lost" /\ check_error(cfg, a) = "RECONNECT"
       THEN mysql_drv_reconnect(t, "store") /\ UNCHANGED <<threadVars, error>>
       ELSE /\ Return(t)
            /\ rs' = [rs EXCEPT ![t] = IF a = "ok" THEN DriverStore(cfg, StmtOfResult(t), @)
                                      ELSE "none"]
            /\ UNCHANGED <<reconnecting, stmt>>
    /\ UNCHANGED <<cfg, nevents, panic, hosts_pos, host, rstmt, granted,
                   bulkVars, statVars>>

db_free_results(t) ==
  /\ Uses(t, "free")
  /\ Return(t)
  /\ rs' = [rs EXCEPT ![t] = DriverFree(cfg, StmtOfResult(t), @)]
  /\ UNCHANGED <<cfg, nevents, panic, hosts_pos, con, host, reconnecting, stmt,
                 rstmt, faults, granted, bulkVars, statVars>>
-----------------------------------------------------------------------------
(* Prepared statements *)

(* In a dry run MySQL looks into the connection it has not got. *)
db_prepare(t) ==
  /\ Calls(t, "prepare") /\ con[t] # "no"
  /\ \E s \in DriverPrepare(cfg) :
       /\ IF s = "none" THEN Answer(t, "fail") ELSE UNCHANGED faults
       /\ stmt' = [stmt EXCEPT ![t] = s]
       /\ IF s = "none" THEN LuaError(t, "MESSAGE") ELSE Return(t)
  /\ panic' = cfg.dry_run
  /\ UNCHANGED <<cfg, nevents, hosts_pos, reconnecting, con, host, rs,
                 rstmt, granted, bulkVars, statVars>>

(* Integers are bound here, strings when they are first used. *)
sb_lua_db_bind_param(t) ==
  /\ Uses(t, "bind")
  /\ \/ /\ UNCHANGED faults /\ Return(t)
     \/ /\ cfg.param = "int" /\ BindMayFail(cfg, stmt[t])
        /\ Answer(t, "fail") /\ LuaError(t, "MESSAGE")
  /\ UNCHANGED <<cfg, nevents, panic, hosts_pos, con, host, reconnecting, stmt,
                 rs, rstmt, granted, bulkVars, statVars>>

(* Results are bound for numbers only. *)
sb_lua_db_bind_result(t) ==
  /\ Uses(t, "bind_result")
  /\ IF cfg.param = "string" \/ BindsResult(cfg, stmt[t]) THEN Return(t)
     ELSE LuaError(t, "MESSAGE")
  /\ UNCHANGED <<cfg, nevents, panic, hosts_pos, reconnecting, faults, granted,
                 conVars, bulkVars, statVars>>

(* A longer string than any before takes a new buffer, which is bound. *)
RebindFails(t) ==
  /\ Uses(t, "execute")
  /\ cfg.param = "string" /\ BindMayFail(cfg, stmt[t])
  /\ Answer(t, "fail") /\ LuaError(t, "MESSAGE")
  /\ UNCHANGED <<cfg, nevents, panic, hosts_pos, reconnecting, granted, conVars,
                 bulkVars, statVars>>

sb_lua_db_execute(t) ==
  \E a \in Answers, v \in ValueSent(cfg, stmt[t]) :
    /\ Uses(t, "execute")
    /\ IF stmt[t] = "detached" THEN a = "fail" /\ UNCHANGED faults ELSE Answer(t, a)
    /\ Finish(t, a, DriverExecute(cfg, stmt[t], a), ResultOf(cfg, stmt[t]), TRUE)
    /\ sent' = IF a = "ok" THEN sent \cup {v} ELSE sent
    /\ UNCHANGED <<cfg, nevents, panic, hosts_pos, host, granted, bulkVars>>

db_close(t) ==
  /\ Uses(t, "close")
  /\ Return(t)
  /\ stmt' = [stmt EXCEPT ![t] = "none"]
  /\ UNCHANGED <<cfg, nevents, panic, hosts_pos, con, host, reconnecting, rs,
                 rstmt, faults, granted, bulkVars, statVars>>
-----------------------------------------------------------------------------
(* Bulk inserts *)

bulk_commit_max == IF needs_commit(cfg) THEN ROWS_BEFORE_COMMIT ELSE 0

db_bulk_insert_init(t) ==
  /\ Calls(t, "bulk_init") /\ con[t] # "no"
  /\ \/ /\ Return(t) /\ UNCHANGED faults
        /\ bulk' = [bulk EXCEPT ![t] = [NoBulk EXCEPT !.ptr = bulk_ptr_orig]]
        /\ DropRows(t)
     \/ /\ cfg.driver = "pgsql"   \* asks the server for its version
        /\ Answer(t, "fail") /\ LuaError(t, "MESSAGE")
        /\ UNCHANGED <<bulk, bulkFailed>>
  /\ UNCHANGED <<cfg, nevents, panic, hosts_pos, reconnecting, conVars, granted,
                 given, inserted, committed, statVars>>

(* The outcomes of db_bulk_do_insert: the INSERT and, where the driver     *)
(* needs one, the COMMIT after it succeed or fail.  bulk_supported is      *)
(* never looked at: Oracle gets several rows, which it does not accept.    *)
FlushOutcomes(t, is_last) ==
  LET due == /\ bulk_commit_max # 0
             /\ is_last \/ bulk[t].commit_cnt + bulk[t].cnt >= bulk_commit_max
  IN
  IF bulk[t].cnt = 0 THEN {"nothing"}
  ELSE {"insert_fails"}
         \cup (IF needs_commit(cfg) /\ bulk[t].cnt > 1 THEN {}
               ELSE IF due THEN {"committed", "commit_fails"} ELSE {"inserted"})

Faulty(outcome, t) ==
  \/ outcome = "commit_fails"
  \/ outcome = "insert_fails" /\ ~(needs_commit(cfg) /\ bulk[t].cnt > 1)

(* Faulty: the rows of a full batch are not taken out of the buffer. *)
EmptiedNot(t, outcome) == bulk[t]

(* The buffer after it: after an error it is left as it is. *)
Emptied(t, outcome) ==
  CASE outcome \in {"nothing", "insert_fails"} -> bulk[t]
    [] outcome = "inserted" ->
         [ptr |-> bulk_ptr_orig, cnt |-> 0,
          commit_cnt |-> IF bulk_commit_max # 0
                         THEN bulk[t].commit_cnt + bulk[t].cnt ELSE 0]
    [] outcome = "committed" ->
         [ptr |-> bulk_ptr_orig, cnt |-> 0, commit_cnt |-> 0]
    [] outcome = "commit_fails" ->
         [bulk[t] EXCEPT !.commit_cnt = @ + bulk[t].cnt]

(* The rows at the server after it.  Without a transaction they are        *)
(* committed at once; a COMMIT that fails has happened or not.             *)
db_bulk_do_insert(t, outcome) ==
  LET n == bulk[t].cnt IN
  /\ IF Faulty(outcome, t) THEN Answer(t, "fail") ELSE UNCHANGED faults
  /\ \/ /\ outcome \in {"nothing", "insert_fails"}
        /\ UNCHANGED <<inserted, committed>>
     \/ /\ outcome = "inserted" /\ bulk_commit_max = 0
        /\ committed' = [committed EXCEPT ![t] = @ + n]
        /\ UNCHANGED inserted
     \/ /\ outcome = "inserted" /\ bulk_commit_max # 0
        /\ inserted' = [inserted EXCEPT ![t] = @ + n]
        /\ UNCHANGED committed
     \/ /\ outcome \in {"committed", "commit_fails"}
        /\ committed' = [committed EXCEPT ![t] = @ + inserted[t] + n]
        /\ inserted' = [inserted EXCEPT ![t] = 0]
     \/ /\ outcome = "commit_fails"
        /\ inserted' = [inserted EXCEPT ![t] = 0]
        /\ UNCHANGED committed
  /\ UNCHANGED statVars   \* each of its queries is counted if it is performed
  /\ bulkFailed' = [bulkFailed EXCEPT ![t] =
                      IF outcome = "commit_fails" THEN outcome
                      ELSE IF outcome = "insert_fails" /\ @ = "no" THEN outcome
                      ELSE @]

(* A row is added; if it does not fit behind the others, they are sent     *)
(* first, and then it is copied without another look at the room.          *)
db_bulk_insert_next(t) ==
  \E len \in cfg.row_lengths :
    LET full == \/ bulk[t].ptr = 0   \* no buffer yet
                \/ bulk[t].ptr + len + 1 + (IF bulk[t].cnt > 0 THEN 1 ELSE 0)
                     > BULK_PACKET_SIZE
    IN
    /\ Uses(t, "bulk_next")
    /\ \E outcome \in IF full THEN FlushOutcomes(t, FALSE) ELSE {"nothing"} :
         LET b == Emptied(t, outcome)
             failed == outcome \in {"insert_fails", "commit_fails"}
                         \/ (full /\ outcome = "nothing")
         IN
         /\ db_bulk_do_insert(t, outcome)
         /\ bulk' = [bulk EXCEPT ![t] =
                       IF failed THEN b
                       ELSE [b EXCEPT !.ptr = @ + len + (IF b.cnt > 0 THEN 1 ELSE 0),
                                      !.cnt = @ + 1]]
         /\ given' = [given EXCEPT ![t] = @ + (IF failed THEN 0 ELSE 1)]
         /\ IF failed THEN LuaError(t, "MESSAGE") ELSE Return(t)
    /\ UNCHANGED <<cfg, nevents, panic, hosts_pos, reconnecting, conVars, granted>>

(* What is left is sent, and the buffer is freed; whether that succeeds is *)
(* not reported.  (Rows added after that are left out.)                    *)
db_bulk_insert_done(t) ==
  /\ Uses(t, "bulk_done")
  /\ \E outcome \in FlushOutcomes(t, TRUE) :
       /\ db_bulk_do_insert(t, outcome)
       /\ bulk' = [bulk EXCEPT ![t] = Emptied(t, outcome)]
  /\ Return(t)
  /\ UNCHANGED <<cfg, nevents, panic, hosts_pos, reconnecting, conVars, given,
                 granted>>
-----------------------------------------------------------------------------
ThreadStep(t) ==
  \/ sb_lua_db_connect(t) \/ CheckFails(t)
  \/ FunctionEnds(t) \/ CheckEvents(t) \/ CountEvent(t)
  \/ sb_lua_db_disconnect(t) \/ Reconnect(t)
  \/ \E query \in Queries : db_query(t, query)
  \/ db_store_results(t) \/ db_free_results(t)
  \/ db_prepare(t) \/ sb_lua_db_bind_param(t) \/ sb_lua_db_bind_result(t)
  \/ RebindFails(t) \/ sb_lua_db_execute(t) \/ db_close(t)
  \/ db_bulk_insert_init(t) \/ db_bulk_insert_next(t) \/ db_bulk_insert_done(t)

AllEnded == \A t \in Threads : frame[t] = "ended"

Terminated == (panic \/ AllEnded) /\ UNCHANGED vars

Next == (\E t \in Threads : ThreadStep(t)) \/ Terminated

Spec == Init /\ [][Next]_vars

(* Scripts read their results: sb_lua_db_query does it for a query, after  *)
(* an execute it is up to the script.                                      *)
ResultsRead ==
  \A c \in Configs : \A f \in {"init", "event", "done"} :
    \A i \in DOMAIN c.script[f] :
      c.script[f][i] \in {"select", "execute"} =>
        i + 1 \in DOMAIN c.script[f] /\ c.script[f][i + 1] = "store"

(* Every thread goes on; nothing is promised of the server's answers, of   *)
(* which only finitely many are bad.                                       *)
FairSpec == Spec /\ \A t \in Threads : WF_vars(ThreadStep(t))
-----------------------------------------------------------------------------
(* sb_lua_get_request counts without a lock: increments get lost, and the  *)
(* counter is even set back.  What remains true is that it never counts    *)
(* more than was handed out - a test that ends without an error has        *)
(* executed at least max_requests events -, and that it goes past the      *)
(* limit by at most one event of every other thread.                       *)
EventsGranted ==
  /\ nevents <= granted
  /\ AllEnded /\ ~error => granted >= max_requests
  /\ nevents <= max_requests + Cardinality(Threads) - 1

(* The rows given to a bulk insert are in its buffer, in the open          *)
(* transaction or committed, through all packets and batches.  An INSERT   *)
(* that fails keeps them for the next attempt, and none is there twice,    *)
(* unless a COMMIT has failed: its rows are kept and sent again.  (What a  *)
(* disconnect or another bulk insert finds in the buffer is lost.)         *)
BulkConservation ==
  \A t \in Threads :
    LET there == bulk[t].cnt + inserted[t] + committed[t] IN
    /\ bulkFailed[t] = "no" => there = given[t]
    /\ bulkFailed[t] = "insert_fails" => there = given[t]
    /\ bulk[t].ptr + 1 <= BULK_PACKET_SIZE
         \/ \E len \in cfg.row_lengths : bulk_ptr_orig + len + 1 > BULK_PACKET_SIZE

(* Only queries the server has performed are counted as such - with        *)
(* Oracle's emulated statements, whose errors are lost, this is not so -   *)
(* and a statement is performed with the integers that are bound to it,    *)
(* on the server or emulated - but not by PostgreSQL's and Oracle's        *)
(* prepared statements, which take the address of a flag for the flag.     *)
CountedPerformed ==
  /\ ~(cfg.driver = "oracle" /\ ~cfg.ps) => \A t \in Threads : lead[t] = 0
  /\ cfg.param = "int" /\ ~(cfg.driver \in {"pgsql", "oracle"} /\ cfg.ps)
       => sent \subseteq {"value"}

(* No query is sent while the result of the one before is still unread,    *)
(* through errors, restarts of the event and reconnects.                   *)
InSync == ~outOfSync

(* A MySQL statement that is detached by a reconnect fails again at every  *)
(* restart, if all errors are ignored.                                     *)
Livelock == \E t \in Threads : stmt[t] = "detached" /\ "detached" \in cfg.ignored

(* When the server's bad answers have an end, so has the test: restarted   *)
(* events, reconnects and errors of other threads leave no thread behind.  *)
Ends == <>(panic \/ AllEnded \/ Livelock)

=============================================================================
