----------------------------- MODULE DbDrivers ------------------------------
(***************************************************************************)
(* The five database drivers of sysbench (under drivers/), as functions    *)
(* from what they are given, and what the client library answers, to what  *)
(* they return to the layer above (db_driver.c).                           *)
(*                                                                         *)
(* o is the record of the options of a run.  An answer is "ok", "retry" (a *)
(* deadlock or a lock wait timeout), "lost" (the connection), "fail".  An  *)
(* error code is "NONE", "RESTART", "RECONNECT" (a MySQL reconnect is      *)
(* under way) or "FAILED".  A statement is "server", "emulated",           *)
(* "detached" (its session is gone), "none".  A result set is "none",      *)
(* "open" (unread rows are on the wire) or "stored".                       *)
(***************************************************************************)
EXTENDS Integers

Drivers == {"mysql", "pgsql", "drizzle", "attachsql", "oracle"}
Answers == {"ok", "retry", "lost", "fail"}

needs_commit(o) == o.driver = "oracle"
-----------------------------------------------------------------------------
(* Connecting: the address, as its position in the list it is from (0 is   *)
(* the head of a list, which is no entry of it).                           *)

NextItem(pos, n) == (pos % n) + 1

mysql_drv_connect(o, pos) ==
  IF o.dry_run THEN pos
  ELSE NextItem(pos, IF o.sockets = 0 THEN o.hosts ELSE o.sockets)

(* With a socket the list of hosts is not used. *)
drizzle_drv_connect(o, pos) == IF o.sockets # 0 THEN pos ELSE NextItem(pos, o.hosts)
attachsql_drv_connect(o, pos) == IF o.sockets # 0 THEN pos ELSE NextItem(pos, o.hosts)

(* One address. *)
pgsql_drv_connect(o, pos) == pos
ora_drv_connect(o, pos) == pos

ConnectTo(o, pos) ==
  CASE o.driver = "mysql" -> mysql_drv_connect(o, pos)
    [] o.driver = "drizzle" -> drizzle_drv_connect(o, pos)
    [] o.driver = "attachsql" -> attachsql_drv_connect(o, pos)
    [] o.driver = "pgsql" -> pgsql_drv_connect(o, pos)
    [] o.driver = "oracle" -> ora_drv_connect(o, pos)

(* A MySQL dry run succeeds without a connection. *)
MayFailToConnect(o) == ~(o.driver = "mysql" /\ o.dry_run)

(* What is known of the session after an answer: MySQL alone can get a new *)
(* one, the other drivers stay with the one they have lost.                *)
AfterAnswer(con, a) == IF a = "lost" THEN "lost" ELSE con
-----------------------------------------------------------------------------
(* Queries *)

(* The error of the connection is looked for in --mysql-ignore-errors.     *)
(* "detached" is the error of a statement without a session: the           *)
(* connection has none, and only "all" matches that.                       *)
check_error(o, a) ==
  IF a \notin o.ignored THEN "FAILED"
  ELSE IF a = "lost" THEN "RECONNECT" ELSE "RESTART"

mysql_drv_query(o, a) ==
  IF o.dry_run \/ a = "ok" THEN "NONE" ELSE check_error(o, a)

(* A deadlock, or a duplicate key, is answered with ROLLBACK. *)
pgsql_check_status(a) ==
  CASE a = "ok" -> "NONE" [] a = "retry" -> "RESTART" [] OTHER -> "FAILED"

pgsql_drv_query(o, a) == pgsql_check_status(a)

(* Faulty: whatever the library returns restarts the transaction. *)
drizzle_drv_query_restart(o, a) == IF a = "ok" THEN "NONE" ELSE "RESTART"

(* Errors 1213, 1205 and 1020 restart the transaction. *)
drizzle_drv_query(o, a) ==
  CASE a = "ok" -> "NONE" [] a = "retry" -> "RESTART" [] OTHER -> "FAILED"

attachsql_drv_query(o, a) ==
  CASE a = "ok" -> "NONE" [] a = "retry" -> "RESTART" [] OTHER -> "FAILED"

(* Faulty: the result of OCIStmtExecute is not checked. *)
ora_drv_query_unchecked(o, a) == "NONE"

ora_drv_query(o, a) == IF a = "ok" THEN "NONE" ELSE "FAILED"

DriverQuery(o, a) ==
  CASE o.driver = "mysql" -> mysql_drv_query(o, a)
    [] o.driver = "pgsql" -> pgsql_drv_query(o, a)
    [] o.driver = "drizzle" -> drizzle_drv_query(o, a)
    [] o.driver = "attachsql" -> attachsql_drv_query(o, a)
    [] o.driver = "oracle" -> ora_drv_query(o, a)
-----------------------------------------------------------------------------
(* Prepared statements: what preparing one makes of it *)

(* MySQL emulates a statement the server cannot prepare. *)
mysql_drv_prepare(o) == IF o.ps THEN {"server", "emulated", "none"} ELSE {"emulated"}

(* The server sees the statement when its parameters are bound. *)
pgsql_drv_prepare(o) == IF o.ps THEN {"server"} ELSE {"emulated"}

drizzle_drv_prepare(o) == {"emulated"}
attachsql_drv_prepare(o) == {"server", "none"}
ora_drv_prepare(o) == IF o.ps THEN {"server", "none"} ELSE {"emulated"}

DriverPrepare(o) ==
  CASE o.driver = "mysql" -> mysql_drv_prepare(o)
    [] o.driver = "pgsql" -> pgsql_drv_prepare(o)
    [] o.driver = "drizzle" -> drizzle_drv_prepare(o)
    [] o.driver = "attachsql" -> attachsql_drv_prepare(o)
    [] o.driver = "oracle" -> ora_drv_prepare(o)

(* Whether binding parameters can fail: for an emulated statement they are *)
(* copied, otherwise the library checks them.                              *)
mysql_drv_bind_param(s) == s = "server"
pgsql_drv_bind_param(s) == s = "server"
drizzle_drv_bind_param(s) == FALSE
attachsql_drv_bind_param(s) == FALSE
ora_drv_bind_param(s) == s = "server"

BindMayFail(o, s) ==
  CASE o.driver = "mysql" -> mysql_drv_bind_param(s)
    [] o.driver = "pgsql" -> pgsql_drv_bind_param(s)
    [] o.driver = "drizzle" -> drizzle_drv_bind_param(s)
    [] o.driver = "attachsql" -> attachsql_drv_bind_param(s)
    [] o.driver = "oracle" -> ora_drv_bind_param(s)

(* Whether binding results succeeds: MySQL needs a statement of its        *)
(* server's, PostgreSQL, Drizzle and attachsql do nothing, Oracle refuses. *)
mysql_drv_bind_result(s) == s = "server"
ora_drv_bind_result(s) == FALSE

BindsResult(o, s) ==
  CASE o.driver = "mysql" -> mysql_drv_bind_result(s)
    [] o.driver = "oracle" -> ora_drv_bind_result(s)
    [] OTHER -> TRUE

(* What arrives at the server for a parameter's value.  The text of a      *)
(* string is put into the query, or its length taken, as if it had a       *)
(* terminator, and it has none.                                            *)
db_print_value(o) == IF o.param = "int" THEN {"value"} ELSE {"value", "garbage"}

mysql_value(o, s) == IF s = "emulated" THEN db_print_value(o) ELSE {"value"}

(* is_null, the address of a flag, is taken for the flag: the integer is   *)
(* skipped, and whatever is in the buffer for its text is sent.            *)
pgsql_value(o, s) ==
  CASE s = "emulated" -> db_print_value(o)
    [] s # "emulated" /\ o.param = "int" -> {"garbage"}
    [] s # "emulated" /\ o.param = "string" -> {"value", "garbage"}

(* The case of a string runs into the one that sets NULL. *)
attachsql_value(o, s) == IF o.param = "int" THEN {"value"} ELSE {"null"}

(* The indicator is set for every parameter with an is_null. *)
get_oracle_bind_type(o) == IF o.param = "int" THEN {"null"} ELSE {"value", "garbage"}

ora_value(o, s) == IF s = "emulated" THEN db_print_value(o) ELSE get_oracle_bind_type(o)

ValueSent(o, s) ==
  CASE o.driver = "mysql" -> mysql_value(o, s)
    [] o.driver = "pgsql" -> pgsql_value(o, s)
    [] o.driver = "drizzle" -> db_print_value(o)
    [] o.driver = "attachsql" -> attachsql_value(o, s)
    [] o.driver = "oracle" -> ora_value(o, s)

mysql_drv_execute(o, s, a) ==
  IF ~o.dry_run /\ s = "detached" THEN check_error(o, "detached")
  ELSE mysql_drv_query(o, a)

pgsql_drv_execute(o, s, a) ==
  IF s = "emulated" THEN pgsql_drv_query(o, a) ELSE pgsql_check_status(a)

drizzle_drv_execute(o, s, a) == drizzle_drv_query(o, a)

(* Unlike the query, an execution never restarts the transaction. *)
attachsql_drv_execute(o, s, a) == IF a = "ok" THEN "NONE" ELSE "FAILED"

(* The error of an emulated statement is dropped. *)
ora_drv_execute(o, s, a) == IF s = "emulated" THEN "NONE" ELSE ora_drv_query(o, a)

DriverExecute(o, s, a) ==
  CASE o.driver = "mysql" -> mysql_drv_execute(o, s, a)
    [] o.driver = "pgsql" -> pgsql_drv_execute(o, s, a)
    [] o.driver = "drizzle" -> drizzle_drv_execute(o, s, a)
    [] o.driver = "attachsql" -> attachsql_drv_execute(o, s, a)
    [] o.driver = "oracle" -> ora_drv_execute(o, s, a)
-----------------------------------------------------------------------------
(* Result sets.  s is the statement of the result set, "none" for a query. *)

(* After a successful query or execution: PostgreSQL's library has read    *)
(* the rows; Oracle's query frees its handle, and an emulated statement of *)
(* Oracle's is such a query.                                               *)
ResultOf(o, s) ==
  CASE o.driver = "mysql" -> IF o.dry_run THEN "none" ELSE "open"
    [] o.driver = "pgsql" -> "stored"
    [] o.driver \in {"drizzle", "attachsql"} -> "open"
    [] o.driver = "oracle" -> IF s = "server" THEN "open" ELSE "none"

(* Faulty: rows are left on the wire. *)
mysql_drv_store_results_last(o, s, r) == r

(* The rows are fetched up to the last one. *)
mysql_drv_store_results(o, s, r) == IF r = "open" THEN "stored" ELSE r
pgsql_drv_store_results(o, s, r) == r
drizzle_drv_store_results(o, s, r) == IF r = "open" THEN "stored" ELSE r
attachsql_drv_store_results(o, s, r) == IF r = "open" THEN "stored" ELSE r
ora_drv_store_results(o, s, r) == IF s = "server" /\ r = "open" THEN "stored" ELSE r

DriverStore(o, s, r) ==
  CASE o.driver = "mysql" -> mysql_drv_store_results(o, s, r)
    [] o.driver = "pgsql" -> pgsql_drv_store_results(o, s, r)
    [] o.driver = "drizzle" -> drizzle_drv_store_results(o, s, r)
    [] o.driver = "attachsql" -> attachsql_drv_store_results(o, s, r)
    [] o.driver = "oracle" -> ora_drv_store_results(o, s, r)

(* Freeing the result of a query that was not stored leaves its rows where *)
(* they are; a MySQL statement discards them.                              *)
mysql_drv_free_results(o, s, r) ==
  IF s \in {"server", "detached"} \/ r = "stored" THEN "none" ELSE r
pgsql_drv_free_results(o, s, r) == "none"
drizzle_drv_free_results(o, s, r) == IF r = "stored" THEN "none" ELSE r
attachsql_drv_free_results(o, s, r) == "none"
ora_drv_free_results(o, s, r) == IF r = "stored" THEN "none" ELSE r

DriverFree(o, s, r) ==
  CASE o.driver = "mysql" -> mysql_drv_free_results(o, s, r)
    [] o.driver = "pgsql" -> pgsql_drv_free_results(o, s, r)
    [] o.driver = "drizzle" -> drizzle_drv_free_results(o, s, r)
    [] o.driver = "attachsql" -> attachsql_drv_free_results(o, s, r)
    [] o.driver = "oracle" -> ora_drv_free_results(o, s, r)
=============================================================================
